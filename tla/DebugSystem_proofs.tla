------------------------- MODULE DebugSystem_proofs -------------------------
(***************************************************************************)
(* DebugSystem: whatever a debugger does to the module, in whatever order  *)
(* the harts and the idle cycles go on between its accesses, the module    *)
(* knows which hart is in a command and which is halted (HartsAccounted).  *)
(*                                                                         *)
(* That no hart is in a command while the module is not busy is not kept   *)
(* by the steps as it stands: the busy bit falls when the command has      *)
(* completed, which the module is told by a store of the selected hart.    *)
(* So a hart in a command is the selected one, has not completed it, is    *)
(* halted and has not been asked to resume; and a hart the module calls    *)
(* halted is neither running nor about to (Safe).                          *)
(*                                                                         *)
(* Safe is kept only by a debugger that leaves dmcontrol alone while a     *)
(* command runs and commands alone while a resumption is asked.  The free  *)
(* debugger's guards say so; the front end's host thread does so by the    *)
(* order of its requests and polls.  What it knows at each of them is a    *)
(* mode (InMode), each request takes one mode to another (Step), and each  *)
(* script it runs is a path from idle back to idle (Path).                 *)
(***************************************************************************)
EXTENDS DebugSystem, TLAPS

\* what the bookkeeping of the harts depends on
Tracked == {"core", "hart_state", "flags", "busy", "hartsel", "nprocs",
            "abstract_command_completed", "autoexecdata", "autoexecprogbuf",
            "resumereq", "hasel", "hart_array_mask", "authenticated"}
HartFields == {"halted", "resumeack", "havereset", "haltgroup"}
Shape(x) ==
  /\ Tracked \subseteq DOMAIN x
  /\ \A i \in Harts(x) :
       /\ i \in DOMAIN x.core /\ i \in DOMAIN x.hart_state /\ i \in DOMAIN x.flags
       /\ "pc" \in DOMAIN x.core[i] /\ HartFields \subseteq DOMAIN x.hart_state[i]

Running == {"going", "abstract", "progbuf", "exception"}
InCommand(x, i) == "GO" \in x.flags[i] \/ x.core[i].pc \in Running
CommandSafe(x, i) ==
  InCommand(x, i) => /\ x.busy = TRUE /\ x.hartsel = i
                     /\ x.abstract_command_completed = FALSE
                     /\ x.hart_state[i].halted = TRUE /\ "RESUME" \notin x.flags[i]
HaltSafe(x, i) == x.hart_state[i].halted = TRUE => x.core[i].pc \notin {"user", "dret"}
ResumeSafe(x, i) == x.core[i].pc = "resuming" => "RESUME" \in x.flags[i]
Places == {"user", "entry", "halted", "go", "resume", "resuming", "dret"} \union Running
HartSafe(x, i) == /\ x.core[i].pc \in Places
                  /\ CommandSafe(x, i) /\ HaltSafe(x, i) /\ ResumeSafe(x, i)
Safe(x) == /\ Shape(x) /\ x.autoexecprogbuf = {}
           /\ \A i \in Harts(x) : HartSafe(x, i)


(* Who only moves blocks over the bus or scans the data words asks nothing *)
(* of a hart.                                                              *)
Unasked(x) ==
  x.autoexecdata = {} /\ \A i \in Harts(x) : x.core[i].pc = "user" /\ x.core[i].halt_request = "NONE"
----------------------------------------------------------------------------
(* What leaves the bookkeeping alone.                                      *)
Same(x, y) ==
  /\ DOMAIN y = DOMAIN x
  /\ y.core = x.core /\ y.hart_state = x.hart_state /\ y.flags = x.flags /\ y.busy = x.busy
  /\ y.hartsel = x.hartsel /\ y.nprocs = x.nprocs
  /\ y.autoexecdata = x.autoexecdata /\ y.autoexecprogbuf = x.autoexecprogbuf
  /\ y.abstract_command_completed = x.abstract_command_completed

(* What the debugger has asked is not changed by the harts.                *)
Steady(x, y) ==
  /\ y.resumereq = x.resumereq /\ y.hasel = x.hasel /\ y.hart_array_mask = x.hart_array_mask
  /\ y.authenticated = x.authenticated /\ y.autoexecdata = x.autoexecdata

LEMMA SameTrans ==
  ASSUME NEW x, NEW y, NEW z, Same(x, y), Same(y, z)
  PROVE  Same(x, z)
BY DEF Same

LEMMA SameShape ==
  ASSUME NEW x, NEW y, Same(x, y), Shape(x)
  PROVE  Shape(y)
BY DEF Same, Shape, Harts

LEMMA SameSafe ==
  ASSUME NEW x, NEW y, Same(x, y), Safe(x)
  PROVE  Safe(y)
<1>1. Shape(y)
  BY SameShape DEF Safe
<1>2. Harts(y) = Harts(x)
  BY DEF Same, Harts
<1>3. ASSUME NEW i \in Harts(x) PROVE HartSafe(y, i)
  BY <1>3 DEF Same, Safe, HartSafe, CommandSafe, InCommand, HaltSafe, ResumeSafe
<1> QED BY <1>1, <1>2, <1>3 DEF Safe, Same

LEMMA AutoincrementSame ==
  ASSUME NEW x, Tracked \subseteq DOMAIN x
  PROVE  Same(x, sb_autoincrement(x))
BY DEF sb_autoincrement, Same, Tracked

LEMMA SbReadSame ==
  ASSUME NEW x, Tracked \subseteq DOMAIN x
  PROVE  Same(x, sb_read(x))
BY DEF sb_read, Same, Tracked

LEMMA SbWriteSame ==
  ASSUME NEW x, Tracked \subseteq DOMAIN x
  PROVE  Same(x, sb_write(x))
BY DEF sb_write, Same, Tracked

LEMMA SbdataSame ==
  ASSUME NEW x, NEW v, Tracked \subseteq DOMAIN x
  PROVE  /\ Same(x, ReadSbdata0(x).s) /\ Same(x, WriteSbdata0(x, v))
         /\ Same(x, WriteSbaddress0(x, v)) /\ Same(x, WriteSbcs(x, v))
<1>1. ASSUME NEW y, Same(x, y) PROVE Tracked \subseteq DOMAIN y /\ Same(x, sb_autoincrement(y))
  <2>1. Tracked \subseteq DOMAIN y
    BY <1>1 DEF Same
  <2> QED BY <1>1, <2>1, AutoincrementSame, SameTrans
<1>2. Same(x, ReadSbdata0(x).s)
  BY <1>1, SbReadSame DEF ReadSbdata0, Same
<1>3. ASSUME NEW w PROVE /\ Same(x, [x EXCEPT !.sbdata[1] = w])
                         /\ Same(x, [x EXCEPT !.sbaddress[1] = w])
                         /\ Same(x, [x EXCEPT !.sbcs = w])
  BY DEF Same, Tracked
<1>4. Same(x, sb_write([x EXCEPT !.sbdata[1] = v])) /\ Same(x, sb_read([x EXCEPT !.sbaddress[1] = v]))
  BY <1>1, <1>3, SbWriteSame, SbReadSame, SameTrans
<1>5. Same(x, WriteSbdata0(x, v))
  BY <1>1, <1>3, <1>4 DEF WriteSbdata0
<1>6. Same(x, WriteSbaddress0(x, v))
  BY <1>1, <1>3, <1>4 DEF WriteSbaddress0
<1>7. Same(x, WriteSbcs(x, v))
  BY <1>3 DEF WriteSbcs
<1> QED BY <1>2, <1>5, <1>6, <1>7

----------------------------------------------------------------------------
(* Abstract commands.                                                      *)
NoResume(x) == \A i \in Harts(x) : ~("RESUME" \in x.flags[i] /\ x.hart_state[i].halted = TRUE)

(* A command is issued to a halted hart while none runs.                   *)
LEMMA IssueSafe ==
  ASSUME NEW x, NEW code, Safe(x), NoResume(x), ~x.busy, x.hart_state[x.hartsel].halted
  PROVE  Safe(Issue(x, code))
<1> DEFINE y == Issue(x, code)
<1>1. /\ DOMAIN y = DOMAIN x /\ y.core = x.core /\ y.hart_state = x.hart_state /\ y.busy = TRUE
      /\ y.hartsel = x.hartsel /\ y.nprocs = x.nprocs /\ y.autoexecprogbuf = x.autoexecprogbuf
      /\ y.abstract_command_completed = FALSE
      /\ y.flags = [x.flags EXCEPT ![x.hartsel] = @ \union {"GO"}]
  BY DEF Issue, Safe, Shape, Tracked
<1> HIDE DEF y
<1>2. Harts(y) = Harts(x)
  BY <1>1 DEF Harts
<1>3. Shape(y)
  BY <1>1, <1>2 DEF Safe, Shape
<1>4. ASSUME NEW i \in Harts(x) PROVE HartSafe(y, i)
  <2>1. HartSafe(x, i) /\ ~InCommand(x, i) /\ i \in DOMAIN x.flags
    BY DEF Safe, Shape, HartSafe, CommandSafe
  <2>2. /\ "RESUME" \in y.flags[i] <=> "RESUME" \in x.flags[i]
        /\ i # x.hartsel => y.flags[i] = x.flags[i]
    BY <1>1, <2>1
  <2>3. CommandSafe(y, i)
    <3>1. CASE i = x.hartsel
      <4>1. x.hart_state[i].halted = TRUE /\ "RESUME" \notin x.flags[i]
        BY <3>1 DEF NoResume
      <4> QED BY <1>1, <2>2, <3>1, <4>1 DEF CommandSafe
    <3>2. CASE i # x.hartsel
      BY <1>1, <2>1, <2>2, <3>2 DEF CommandSafe, InCommand
    <3> QED BY <3>1, <3>2
  <2> QED BY <1>1, <2>1, <2>2, <2>3 DEF HartSafe, HaltSafe, ResumeSafe
<1> QED BY <1>1, <1>2, <1>3, <1>4 DEF Safe, y

LEMMA CommandSame ==
  ASSUME NEW x, NEW e, NEW c, Tracked \subseteq DOMAIN x
  PROVE  /\ Same(x, [x EXCEPT !.cmderr = e]) /\ Same(x, CustomTransfer(x, c))
         /\ Same(x, [x EXCEPT !.command = c])
BY DEF Same, Tracked, CustomTransfer

LEMMA PerformSafe ==
  ASSUME NEW x, Safe(x), NoResume(x)
  PROVE  Safe(perform_abstract_command(x))
<1> DEFINE y == perform_abstract_command(x)
<1>1. \/ y = x \/ \E e : y = [x EXCEPT !.cmderr = e] \/ y = CustomTransfer(x, x.command)
      \/ ~x.busy /\ x.hart_state[x.hartsel].halted /\ \E code : y = Issue(x, code)
  BY DEF perform_abstract_command
<1> HIDE DEF y
<1>2. Tracked \subseteq DOMAIN x
  BY DEF Safe, Shape
<1> QED BY <1>1, <1>2, IssueSafe, CommandSame, SameSafe DEF y

----------------------------------------------------------------------------
(* The module's registers.                                                 *)
LEMMA SameNoResume ==
  ASSUME NEW x, NEW y, Same(x, y), NoResume(x)
  PROVE  NoResume(y)
BY DEF Same, NoResume, Harts

LEMMA DataSafe ==
  ASSUME NEW x, NEW i, NEW v, Safe(x)
  PROVE  /\ NoResume(x) => Safe(ReadData(x, i).s) /\ Safe(WriteData(x, i, v))
         /\ x.autoexecdata = {} => Same(x, ReadData(x, i).s) /\ Same(x, WriteData(x, i, v))
<1>1. Tracked \subseteq DOMAIN x
  BY DEF Safe, Shape
<1>2. ASSUME NEW y, Same(x, y) PROVE Same(x, BusyError(y))
  <2>1. Tracked \subseteq DOMAIN y
    BY <1>1, <1>2 DEF Same
  <2> QED BY <1>2, <2>1, CommandSame, SameTrans DEF BusyError
<1>3. ASSUME NEW y, Same(x, y)
      PROVE  /\ NoResume(x) => Safe(AutoExec(y, i \in x.autoexecdata))
             /\ x.autoexecdata = {} => Same(x, AutoExec(y, i \in x.autoexecdata))
  <2>1. Safe(y) /\ (NoResume(x) => NoResume(y))
    BY <1>3, SameSafe, SameNoResume
  <2>2. CASE i \in x.autoexecdata
    BY <2>1, <2>2, PerformSafe DEF AutoExec
  <2>3. CASE i \notin x.autoexecdata
    BY <1>3, <2>1, <2>3 DEF AutoExec
  <2> QED BY <2>2, <2>3
<1>4. Same(x, x) /\ Same(x, [x EXCEPT !.dmdata[i + 1] = v])
  BY <1>1 DEF Same, Tracked
<1>5. ReadData(x, i).s = AutoExec(BusyError(x), i \in x.autoexecdata)
  BY DEF ReadData
<1>6. WriteData(x, i, v) =
        AutoExec(BusyError(IF x.busy THEN x ELSE [x EXCEPT !.dmdata[i + 1] = v]), i \in x.autoexecdata)
  BY DEF WriteData
<1>7. /\ Same(x, BusyError(x))
      /\ Same(x, BusyError(IF x.busy THEN x ELSE [x EXCEPT !.dmdata[i + 1] = v]))
  BY <1>2, <1>4
<1> QED BY <1>3, <1>5, <1>6, <1>7

LEMMA ProgbufSame ==
  ASSUME NEW x, NEW i, NEW v, Safe(x)
  PROVE  Same(x, WriteProgbuf(x, i, v))
BY DEF Safe, Shape, Tracked, Same, WriteProgbuf, AutoExec

LEMMA OtherRegistersSafe ==
  ASSUME NEW x, NEW v, NEW ch, Safe(x)
  PROVE  /\ Safe(WriteHawindow(x, v)) /\ Safe(WriteAuthdata(x, v, ch)) /\ Safe(WriteHaltgroup(x, v))
         /\ \A e : Safe([x EXCEPT !.cmderr = e])
<1>1. Tracked \subseteq DOMAIN x
  BY DEF Safe, Shape
<1>2. Same(x, WriteHawindow(x, v)) /\ Same(x, WriteAuthdata(x, v, ch))
  BY <1>1 DEF Same, Tracked, WriteHawindow, WriteAuthdata
<1>3. \A e : Same(x, [x EXCEPT !.cmderr = e])
  BY <1>1, CommandSame
<1>4. Safe(WriteHaltgroup(x, v))
  <2> DEFINE y == [x EXCEPT !.hart_state[x.hartsel].haltgroup = v]
  <2>1. /\ DOMAIN y = DOMAIN x /\ y.core = x.core /\ y.flags = x.flags /\ y.busy = x.busy
        /\ y.hartsel = x.hartsel /\ y.nprocs = x.nprocs /\ y.autoexecprogbuf = x.autoexecprogbuf
        /\ y.abstract_command_completed = x.abstract_command_completed
        /\ y.hart_state = [x.hart_state EXCEPT ![x.hartsel].haltgroup = v]
    BY <1>1 DEF Tracked
  <2> HIDE DEF y
  <2>2. Harts(y) = Harts(x)
    BY <2>1 DEF Harts
  <2>3. ASSUME NEW i \in Harts(x)
        PROVE  /\ i \in DOMAIN y.hart_state /\ DOMAIN y.hart_state[i] = DOMAIN x.hart_state[i]
               /\ y.hart_state[i].halted = x.hart_state[i].halted
    BY <2>1 DEF Safe, Shape, HartFields
  <2>4. Shape(y)
    BY <2>1, <2>2, <2>3 DEF Safe, Shape
  <2>5. ASSUME NEW i \in Harts(x) PROVE HartSafe(y, i)
    BY <2>1, <2>3 DEF Safe, HartSafe, CommandSafe, InCommand, HaltSafe, ResumeSafe
  <2>6. Safe(y)
    BY <2>1, <2>2, <2>4, <2>5 DEF Safe
  <2> QED BY <2>6 DEF WriteHaltgroup, y
<1> QED BY <1>2, <1>3, <1>4, SameSafe

(* Only once no command runs is dmcontrol written.                         *)
Freed(x, y) ==
  /\ DOMAIN y = DOMAIN x /\ y.nprocs = x.nprocs
  /\ y.autoexecprogbuf = {} /\ y.flags = x.flags /\ y.hart_state = x.hart_state
  /\ DOMAIN y.core = DOMAIN x.core
  /\ \A i \in Harts(x) : "pc" \in DOMAIN y.core[i] /\ y.core[i].pc = x.core[i].pc
AtRest(x) == \A i \in Harts(x) : ~InCommand(x, i)

LEMMA FreedSafe ==
  ASSUME NEW x, NEW y, Safe(x), AtRest(x), Freed(x, y)
  PROVE  Safe(y) /\ AtRest(y)
<1>1. Harts(y) = Harts(x)
  BY DEF Freed, Harts
<1>2. Shape(y)
  BY <1>1 DEF Freed, Safe, Shape
<1>3. ASSUME NEW i \in Harts(x) PROVE HartSafe(y, i) /\ ~InCommand(y, i)
  BY <1>3 DEF Freed, Safe, AtRest, HartSafe, CommandSafe, InCommand, HaltSafe, ResumeSafe
<1> QED BY <1>1, <1>2, <1>3 DEF Safe, AtRest, Freed

LEMMA ResetFreed ==
  ASSUME NEW x, NEW ch, Safe(x)
  PROVE  Freed(x, reset(x, ch))
<1> DEFINE y == reset(x, ch)
<1>1. /\ DOMAIN y = DOMAIN x /\ y.nprocs = x.nprocs
      /\ y.autoexecprogbuf = {} /\ y.flags = x.flags /\ y.hart_state = x.hart_state
      /\ y.core = [i \in DOMAIN x.core |-> [x.core[i] EXCEPT !.halt_request = "NONE"]]
  BY DEF Safe, Shape, Tracked, reset
<1> HIDE DEF y
<1>2. ASSUME NEW i \in Harts(x) PROVE "pc" \in DOMAIN y.core[i] /\ y.core[i].pc = x.core[i].pc
  BY <1>1 DEF Safe, Shape
<1> QED BY <1>1, <1>2 DEF Freed, y

LEMMA ProcResetSafe ==
  ASSUME NEW x, NEW harts, Safe(x), AtRest(x)
  PROVE  Safe(proc_reset(x, harts)) /\ AtRest(proc_reset(x, harts))
<1> DEFINE y == proc_reset(x, harts)
<1>1. /\ DOMAIN y = DOMAIN x /\ y.flags = x.flags /\ y.busy = x.busy
      /\ y.hartsel = x.hartsel /\ y.nprocs = x.nprocs /\ y.autoexecprogbuf = x.autoexecprogbuf
      /\ y.abstract_command_completed = x.abstract_command_completed
      /\ y.core = [i \in DOMAIN x.core |-> IF i \in harts THEN ResetCore(x.core[i]) ELSE x.core[i]]
      /\ y.hart_state = [i \in DOMAIN x.hart_state |->
            IF i \in harts
            THEN [x.hart_state[i] EXCEPT !.havereset = TRUE, !.halted = FALSE, !.haltgroup = 0]
            ELSE x.hart_state[i]]
  BY DEF Safe, Shape, Tracked, proc_reset
<1> HIDE DEF y
<1>2. Harts(y) = Harts(x)
  BY <1>1 DEF Harts
<1>3. ASSUME NEW i \in Harts(x)
      PROVE  /\ i \in DOMAIN y.core /\ i \in DOMAIN y.hart_state
             /\ "pc" \in DOMAIN y.core[i] /\ DOMAIN y.hart_state[i] = DOMAIN x.hart_state[i]
             /\ i \in harts => y.core[i].pc = "user" /\ y.hart_state[i].halted = FALSE
             /\ i \notin harts => y.core[i] = x.core[i] /\ y.hart_state[i] = x.hart_state[i]
  <2>1. /\ i \in DOMAIN x.core /\ i \in DOMAIN x.hart_state
        /\ "pc" \in DOMAIN x.core[i] /\ "halted" \in DOMAIN x.hart_state[i]
    BY DEF Safe, Shape, HartFields
  <2>2. CASE i \in harts
    <3>1. /\ y.core[i] = ResetCore(x.core[i])
          /\ y.hart_state[i] = [x.hart_state[i] EXCEPT !.havereset = TRUE, !.halted = FALSE, !.haltgroup = 0]
      BY <1>1, <2>1, <2>2
    <3>2. "pc" \in DOMAIN y.core[i] /\ y.core[i].pc = "user"
      BY <2>1, <3>1 DEF ResetCore
    <3>3. DOMAIN y.hart_state[i] = DOMAIN x.hart_state[i] /\ y.hart_state[i].halted = FALSE
      BY <2>1, <3>1
    <3> QED BY <1>1, <2>1, <2>2, <3>2, <3>3
  <2>3. CASE i \notin harts
    BY <1>1, <2>1, <2>3
  <2> QED BY <2>2, <2>3
<1>4. Shape(y)
  BY <1>1, <1>2, <1>3 DEF Safe, Shape
<1>5. ASSUME NEW i \in Harts(x) PROVE HartSafe(y, i) /\ ~InCommand(y, i)
  <2>1. HartSafe(x, i) /\ ~InCommand(x, i)
    BY DEF Safe, AtRest
  <2>2. CASE i \in harts
    BY <1>1, <1>3, <2>1, <2>2 DEF HartSafe, CommandSafe, InCommand, HaltSafe, ResumeSafe, Running, Places
  <2>3. CASE i \notin harts
    BY <1>1, <1>3, <2>1, <2>3 DEF HartSafe, CommandSafe, InCommand, HaltSafe, ResumeSafe
  <2> QED BY <2>2, <2>3
<1>6. Safe(y) /\ AtRest(y)
  BY <1>1, <1>2, <1>4, <1>5 DEF Safe, AtRest
<1> QED BY <1>6 DEF y

LEMMA AskSafe ==
  ASSUME NEW x, NEW v, Safe(x), AtRest(x)
  PROVE  Safe(AskHarts(x, v)) /\ AtRest(AskHarts(x, v))
<1> DEFINE sel == Selected(x)
           y == [x EXCEPT
        !.hart_state = [i \in DOMAIN x.hart_state |->
           IF i \in sel
           THEN [x.hart_state[i] EXCEPT !.havereset = @ /\ ~v.ackhavereset, !.resumeack = @ /\ ~v.resumereq]
           ELSE x.hart_state[i]],
        !.core = [i \in DOMAIN @ |->
           IF i \in sel THEN [@[i] EXCEPT !.halt_request = IF v.haltreq THEN "REGULAR" ELSE "NONE"] ELSE @[i]],
        !.flags = [i \in DOMAIN @ |-> IF i \in sel /\ v.resumereq THEN @[i] \union {"RESUME"} ELSE @[i]]]
<1> HIDE DEF sel
<1>1. /\ DOMAIN y = DOMAIN x /\ y.busy = x.busy
      /\ y.hartsel = x.hartsel /\ y.nprocs = x.nprocs /\ y.autoexecprogbuf = x.autoexecprogbuf
      /\ y.abstract_command_completed = x.abstract_command_completed
      /\ DOMAIN y.core = DOMAIN x.core /\ DOMAIN y.hart_state = DOMAIN x.hart_state
      /\ DOMAIN y.flags = DOMAIN x.flags
  BY DEF Safe, Shape, Tracked
<1>2. Harts(y) = Harts(x)
  BY <1>1 DEF Harts
<1>3. ASSUME NEW i \in Harts(x)
      PROVE  /\ "pc" \in DOMAIN y.core[i] /\ y.core[i].pc = x.core[i].pc
  BY DEF Safe, Shape, Tracked
<1>4. ASSUME NEW i \in Harts(x)
      PROVE  /\ DOMAIN y.hart_state[i] = DOMAIN x.hart_state[i]
             /\ y.hart_state[i].halted = x.hart_state[i].halted
  BY DEF Safe, Shape, Tracked, HartFields
<1>5. ASSUME NEW i \in Harts(x)
      PROVE  /\ "GO" \in y.flags[i] => "GO" \in x.flags[i]
             /\ "RESUME" \in x.flags[i] => "RESUME" \in y.flags[i]
  BY DEF Safe, Shape, Tracked
<1> HIDE DEF y
<1>6. Shape(y)
  BY <1>1, <1>2, <1>3, <1>4 DEF Safe, Shape
<1>7. ASSUME NEW i \in Harts(x) PROVE HartSafe(y, i) /\ ~InCommand(y, i)
  <2>1. HartSafe(x, i) /\ ~InCommand(x, i)
    BY DEF Safe, AtRest
  <2> QED BY <1>1, <1>3, <1>4, <1>5, <2>1 DEF HartSafe, CommandSafe, InCommand, HaltSafe, ResumeSafe
<1>8. Safe(y) /\ AtRest(y)
  BY <1>1, <1>2, <1>6, <1>7 DEF Safe, AtRest
<1>9. AskHarts(x, v) = IF v.hartreset THEN proc_reset(y, sel) ELSE y
  BY DEF AskHarts, y, sel
<1> QED BY <1>8, <1>9, ProcResetSafe

LEMMA DmcontrolSafe ==
  ASSUME NEW x, NEW v, NEW ch, Safe(x), AtRest(x)
  PROVE  Safe(WriteDmcontrol(x, v, ch))
<1> DEFINE base == IF ~x.dmactive /\ v.dmactive THEN reset(x, ch) ELSE x
           active == [base EXCEPT !.dmactive = v.dmactive]
           taken == [active EXCEPT
                  !.haltreq = v.haltreq, !.resumereq = v.resumereq,
                  !.hartreset = v.hartreset, !.ndmreset = v.ndmreset,
                  !.hasel = x.config.support_hasel /\ v.hasel,
                  !.hartsel = v.hartsel % 2^field_width(x.nprocs)]
<1>1. Freed(x, x)
  BY DEF Freed, Safe, Shape
<1>2. Safe(base) /\ AtRest(base)
  BY <1>1, ResetFreed, FreedSafe
<1> HIDE DEF base
<1>3. Freed(base, active)
  BY <1>2 DEF Freed, Safe, Shape, Tracked
<1>4. Safe(active) /\ AtRest(active)
  BY <1>2, <1>3, FreedSafe
<1> HIDE DEF active
<1>5. Freed(active, taken)
  BY <1>4 DEF Freed, Safe, Shape, Tracked
<1>6. Safe(taken) /\ AtRest(taken)
  BY <1>4, <1>5, FreedSafe
<1>7. WriteDmcontrol(x, v, ch) =
        IF ~active.authenticated \/ ~v.dmactive THEN active ELSE NdmReset(AskHarts(taken, v), v)
  BY DEF WriteDmcontrol, active, base
<1> HIDE DEF taken
<1>8. Safe(AskHarts(taken, v)) /\ AtRest(AskHarts(taken, v))
  BY <1>6, AskSafe
<1>9. Safe(NdmReset(AskHarts(taken, v), v))
  BY <1>8, ProcResetSafe DEF NdmReset
<1> QED BY <1>4, <1>7, <1>9

----------------------------------------------------------------------------
(* The harts.                                                              *)
Goes(x, y, i, pc) ==
  /\ DOMAIN y = DOMAIN x
  /\ y.hart_state = x.hart_state /\ y.flags = x.flags /\ y.busy = x.busy
  /\ y.hartsel = x.hartsel /\ y.nprocs = x.nprocs /\ y.autoexecprogbuf = x.autoexecprogbuf
  /\ y.abstract_command_completed = x.abstract_command_completed /\ Steady(x, y)
  /\ DOMAIN y.core = DOMAIN x.core
  /\ \A j \in DOMAIN x.core : j # i => y.core[j] = x.core[j]
  /\ "pc" \in DOMAIN y.core[i] /\ y.core[i].pc = pc

LEMMA ToGoes ==
  ASSUME NEW x, NEW y, NEW i \in Harts(x), NEW c, NEW pc, NEW at, Shape(x), Same(x, y), Steady(x, y),
         "pc" \in DOMAIN c
  PROVE  Goes(x, To(y, i, c, At(pc, at)), i, pc)
<1> DEFINE z == To(y, i, c, At(pc, at))
<1>1. /\ DOMAIN z = DOMAIN y
      /\ z.hart_state = y.hart_state /\ z.flags = y.flags /\ z.busy = y.busy
      /\ z.hartsel = y.hartsel /\ z.nprocs = y.nprocs /\ z.autoexecprogbuf = y.autoexecprogbuf
      /\ z.abstract_command_completed = y.abstract_command_completed /\ Steady(y, z)
      /\ z.core = [y.core EXCEPT ![i] = [c EXCEPT !.pc = pc, !.at = at]]
  BY DEF To, At, Same, Steady, Shape, Tracked
<1> HIDE DEF z
<1>2. i \in DOMAIN x.core
  BY DEF Shape
<1>3. z.core[i] = [c EXCEPT !.pc = pc, !.at = at]
  BY <1>1, <1>2 DEF Same
<1>4. "pc" \in DOMAIN z.core[i] /\ z.core[i].pc = pc
  BY <1>3
<1> QED BY <1>1, <1>2, <1>4 DEF Goes, Same, Steady, z

LEMMA ToSameGoes ==
  ASSUME NEW x, NEW i \in Harts(x), NEW c, NEW pc, NEW at, Shape(x), "pc" \in DOMAIN c
  PROVE  Goes(x, To(x, i, c, At(pc, at)), i, pc)
BY ToGoes DEF Same, Steady

LEMMA TrapsGoes ==
  ASSUME NEW x, NEW i \in Harts(x), Shape(x)
  PROVE  Goes(x, Traps(x, i), i, "exception")
<1> DEFINE z == Traps(x, i)
<1>1. /\ DOMAIN z = DOMAIN x
      /\ z.hart_state = x.hart_state /\ z.flags = x.flags /\ z.busy = x.busy
      /\ z.hartsel = x.hartsel /\ z.nprocs = x.nprocs /\ z.autoexecprogbuf = x.autoexecprogbuf
      /\ z.abstract_command_completed = x.abstract_command_completed /\ Steady(x, z)
  BY DEF Traps, Steady, Shape, Tracked
<1>2. i \in DOMAIN x.core /\ "pc" \in DOMAIN x.core[i]
  BY DEF Shape
<1>3. z.core = [x.core EXCEPT ![i] = [x.core[i] EXCEPT !.pc = "exception", !.at = 0]]
  BY <1>2 DEF Traps, Shape, Tracked
<1> HIDE DEF z
<1>4. z.core[i] = [x.core[i] EXCEPT !.pc = "exception", !.at = 0]
  BY <1>2, <1>3
<1>5. "pc" \in DOMAIN z.core[i] /\ z.core[i].pc = "exception"
  BY <1>2, <1>4
<1> QED BY <1>1, <1>2, <1>3, <1>5 DEF Goes, z

LEMMA SetRegPc ==
  ASSUME NEW c, NEW r, NEW v, "pc" \in DOMAIN c
  PROVE  "pc" \in DOMAIN SetReg(c, r, v) /\ "pc" \in DOMAIN [c EXCEPT ![r] = v]
BY DEF SetReg

\* where an instruction of a command can lead
Leads(x, y, i) == \E pc \in {"entry", "progbuf", "exception", x.core[i].pc} : Goes(x, y, i, pc)

LEMMA ExecuteLeads ==
  ASSUME NEW x, NEW i \in Harts(x), Shape(x)
  PROVE  Leads(x, Execute(x, i), i)
<1> DEFINE c == x.core[i]
           insn == Insn(x, c)
           next_ == At(c.pc, c.at + 1)
<1>1. "pc" \in DOMAIN c
  BY DEF Shape
<1>2. ASSUME NEW y, NEW d, NEW n, Same(x, y), Steady(x, y), "pc" \in DOMAIN d, n = next_ \/ \E at : n = At(c.pc, at)
      PROVE  Leads(x, To(y, i, d, n), i)
  <2>1. PICK at : n = At(c.pc, at)
    BY <1>2
  <2>2. Goes(x, To(y, i, d, n), i, c.pc)
    BY <1>2, <2>1, ToGoes
  <2> QED BY <2>2 DEF Leads
<1>3. Leads(x, Traps(x, i), i)
  BY TrapsGoes DEF Leads
<1>4. Same(x, x) /\ Steady(x, x)
  BY DEF Same, Steady
<1>5. ASSUME NEW v PROVE Same(x, [x EXCEPT !.dmdata = v]) /\ Steady(x, [x EXCEPT !.dmdata = v])
  BY DEF Same, Steady, Shape, Tracked
<1>6. ASSUME NEW a, NEW u, NEW a2, NEW v
      PROVE  /\ Same(x, [x EXCEPT !.memory[a] = u, !.memory[a2] = v])
             /\ Steady(x, [x EXCEPT !.memory[a] = u, !.memory[a2] = v])
  BY DEF Same, Steady, Shape, Tracked
<1> HIDE DEF c, insn, next_
<1>7. Leads(x, DataLoad(x, i, c, insn, next_), i)
  BY <1>1, <1>2, <1>3, <1>4, SetRegPc DEF DataLoad
<1>8. Leads(x, DataStore(x, i, c, insn, next_), i)
  BY <1>1, <1>2, <1>3, <1>5 DEF DataStore
<1>9. Leads(x, Load(x, i, c, insn, next_), i)
  BY <1>1, <1>2, <1>3, <1>4, SetRegPc DEF Load
<1>10. Leads(x, Store(x, i, c, insn, next_), i)
  BY <1>1, <1>2, <1>3, <1>6 DEF Store
<1>11. ASSUME insn[1] \in {"csrr", "csrw", "csrrs", "csrrx"}
       PROVE  Leads(x, CsrAccess(x, i, c, insn, next_), i)
  <2>1. ASSUME NEW r, NEW v, NEW w, NEW q
        PROVE  Leads(x, To(x, i, SetReg([c EXCEPT ![r] = v], q, w), next_), i)
    BY <1>1, <1>2, <1>4, SetRegPc
  <2>2. ASSUME NEW r, NEW v
        PROVE  /\ Leads(x, To(x, i, [c EXCEPT ![r] = v], next_), i)
               /\ Leads(x, To(x, i, SetReg(c, r, v), next_), i)
    BY <1>1, <1>2, <1>4, SetRegPc
  <2>3. CASE ~Accessible(c, insn[3])
    BY <1>3, <2>3 DEF CsrAccess
  <2>4. CASE Accessible(c, insn[3])
    BY <1>11, <2>1, <2>2, <2>4 DEF CsrAccess
  <2> QED BY <2>3, <2>4
<1>12. Leads(x, To(x, i, c, At("entry", 0)), i) /\ Leads(x, To(x, i, c, At("progbuf", 1)), i)
  BY <1>1, ToSameGoes DEF Leads
<1>13. ASSUME NEW r, NEW v PROVE Leads(x, To(x, i, SetReg(c, r, v), next_), i)
  BY <1>1, <1>2, <1>4, SetRegPc
<1>14. Leads(x, To(x, i, c, IF c.s0 # c.s1 THEN At(c.pc, insn[2]) ELSE next_), i)
       /\ Leads(x, To(x, i, c, next_), i)
  BY <1>1, <1>2, <1>4
<1>15. Execute(x, i) =
  CASE insn[1] = "ebreak" -> To(x, i, c, At("entry", 0))
    [] insn[1] = "jal_progbuf" -> To(x, i, c, At("progbuf", 1))
    [] insn[1] \in {"lw", "ld"} -> DataLoad(x, i, c, insn, next_)
    [] insn[1] \in {"sw", "sd"} -> DataStore(x, i, c, insn, next_)
    [] insn[1] \in {"csrr", "csrw", "csrrs", "csrrx"} -> CsrAccess(x, i, c, insn, next_)
    [] insn[1] = "lui_fs" -> To(x, i, SetReg(c, insn[2], <<1, 0>>), next_)
    [] insn[1] = "load" -> Load(x, i, c, insn, next_)
    [] insn[1] = "store" -> Store(x, i, c, insn, next_)
    [] insn[1] = "addi" -> To(x, i, SetReg(c, insn[2], Add(GetReg(c, insn[2]), insn[3])), next_)
    [] insn[1] = "bne" -> To(x, i, c, IF c.s0 # c.s1 THEN At(c.pc, insn[2]) ELSE next_)
    [] insn[1] = "fence_i" -> To(x, i, c, next_)
    [] OTHER -> Traps(x, i)
  BY DEF Execute, c, insn, next_
<1> QED BY <1>3, <1>7, <1>8, <1>9, <1>10, <1>11, <1>12, <1>13, <1>14, <1>15

LEMMA GoesSafe ==
  ASSUME NEW x, NEW y, NEW i \in Harts(x), NEW pc, Safe(x), Goes(x, y, i, pc),
         pc \in Running => InCommand(x, i),
         pc \in Places, x.hart_state[i].halted = TRUE => pc \notin {"user", "dret"},
         pc = "resuming" => "RESUME" \in x.flags[i]
  PROVE  Safe(y)
<1>1. Harts(y) = Harts(x)
  BY DEF Goes, Harts
<1>2. Shape(y)
  BY <1>1 DEF Goes, Safe, Shape
<1>3. ASSUME NEW j \in Harts(x) PROVE HartSafe(y, j)
  <2>1. HartSafe(x, j) /\ j \in DOMAIN x.core
    BY DEF Safe, Shape
  <2>2. CASE j = i
    BY <2>1, <2>2 DEF Goes, HartSafe, CommandSafe, InCommand, HaltSafe, ResumeSafe
  <2>3. CASE j # i
    BY <2>1, <2>3 DEF Goes, HartSafe, CommandSafe, InCommand, HaltSafe, ResumeSafe
  <2> QED BY <2>2, <2>3
<1> QED BY <1>1, <1>2, <1>3 DEF Goes, Safe

(* Of what is asked, a hart only takes away: a command ends, a request to  *)
(* resume is answered.                                                     *)
Drifts(x, y) ==
  /\ y.nprocs = x.nprocs /\ y.hartsel = x.hartsel /\ Steady(x, y) /\ (y.busy => x.busy)
  /\ \A i \in Harts(x) : "RESUME" \in y.flags[i] =>
       "RESUME" \in x.flags[i] /\ y.hart_state[i].resumeack = x.hart_state[i].resumeack

LEMMA DriftsTrans ==
  ASSUME NEW x, NEW y, NEW z, Drifts(x, y), Drifts(y, z)
  PROVE  Drifts(x, z)
BY DEF Drifts, Steady, Harts

LEMMA GoesDrifts ==
  ASSUME NEW x, NEW y, NEW i, NEW pc, Goes(x, y, i, pc)
  PROVE  Drifts(x, y)
BY DEF Goes, Drifts

LEMMA StoresDrift ==
  ASSUME NEW x, NEW i \in Harts(x), Shape(x)
  PROVE  /\ Drifts(x, StoreGoing(x, i)) /\ Drifts(x, StoreHalted(x, i))
         /\ Drifts(x, StoreResuming(x, i))
<1>1. Tracked \subseteq DOMAIN x /\ i \in DOMAIN x.flags /\ i \in DOMAIN x.hart_state
      /\ HartFields \subseteq DOMAIN x.hart_state[i]
  BY DEF Shape
<1>2. Drifts(x, StoreGoing(x, i))
  <2> DEFINE y == StoreGoing(x, i)
  <2>1. /\ y.nprocs = x.nprocs /\ y.hartsel = x.hartsel /\ y.busy = x.busy /\ y.hart_state = x.hart_state
        /\ y.flags = [x.flags EXCEPT ![i] = @ \ {"GO"}] /\ Steady(x, y)
    BY <1>1 DEF StoreGoing, Steady, Tracked
  <2> HIDE DEF y
  <2>2. \A j \in Harts(x) : "RESUME" \in y.flags[j] => "RESUME" \in x.flags[j]
    BY <1>1, <2>1 DEF Shape
  <2>3. Drifts(x, y)
    BY <2>1, <2>2 DEF Drifts
  <2> QED BY <2>3 DEF y
<1>3. Drifts(x, StoreResuming(x, i))
  <2> DEFINE y == StoreResuming(x, i)
             state == [x.hart_state[i] EXCEPT !.halted = FALSE, !.resumeack = TRUE]
  <2>1. /\ y.nprocs = x.nprocs /\ y.hartsel = x.hartsel /\ y.busy = x.busy
        /\ y.hart_state = [x.hart_state EXCEPT ![i] = state]
        /\ y.flags = [x.flags EXCEPT ![i] = @ \ {"RESUME"}] /\ Steady(x, y)
    BY <1>1 DEF StoreResuming, Steady, Tracked
  <2> HIDE DEF y, state
  <2>2. \A j \in Harts(x) : "RESUME" \in y.flags[j] =>
           "RESUME" \in x.flags[j] /\ y.hart_state[j].resumeack = x.hart_state[j].resumeack
    BY <1>1, <2>1 DEF Shape
  <2>3. Drifts(x, y)
    BY <2>1, <2>2 DEF Drifts
  <2> QED BY <2>3 DEF y
<1>4. Drifts(x, StoreHalted(x, i))
  <2> DEFINE halted == [x EXCEPT !.hart_state[i].halted = TRUE]
             told == IF x.hart_state[i].halted THEN x ELSE HaltGroup(halted, i)
             y == StoreHalted(x, i)
  <2>1. /\ DOMAIN halted = DOMAIN x /\ halted.nprocs = x.nprocs /\ halted.hartsel = x.hartsel
        /\ halted.busy = x.busy /\ halted.flags = x.flags /\ Steady(x, halted)
        /\ halted.hart_state = [x.hart_state EXCEPT ![i] = [x.hart_state[i] EXCEPT !.halted = TRUE]]
    BY <1>1 DEF Steady, Tracked
  <2> HIDE DEF halted
  <2>2. \A j \in Harts(x) : halted.hart_state[j].resumeack = x.hart_state[j].resumeack
    BY <1>1, <2>1 DEF Shape, HartFields
  <2>3. /\ DOMAIN HaltGroup(halted, i) = DOMAIN x
        /\ HaltGroup(halted, i).nprocs = x.nprocs /\ HaltGroup(halted, i).hartsel = x.hartsel
        /\ HaltGroup(halted, i).busy = x.busy /\ HaltGroup(halted, i).flags = x.flags
        /\ HaltGroup(halted, i).hart_state = halted.hart_state /\ Steady(x, HaltGroup(halted, i))
    BY <1>1, <2>1 DEF HaltGroup, Steady, Tracked
  <2>4. /\ DOMAIN told = DOMAIN x
        /\ told.nprocs = x.nprocs /\ told.hartsel = x.hartsel /\ told.busy = x.busy
        /\ told.flags = x.flags /\ Steady(x, told)
        /\ \A j \in Harts(x) : told.hart_state[j].resumeack = x.hart_state[j].resumeack
    BY <2>2, <2>3 DEF Steady
  <2> HIDE DEF told
  <2>5. /\ y.nprocs = told.nprocs /\ y.hartsel = told.hartsel /\ y.busy = told.busy
        /\ y.flags = told.flags /\ y.hart_state = told.hart_state /\ Steady(told, y)
    BY <1>1, <2>4 DEF StoreHalted, told, halted, Steady, Tracked
  <2> HIDE DEF y
  <2>6. Drifts(x, y)
    BY <2>4, <2>5 DEF Drifts, Steady
  <2> QED BY <2>6 DEF y
<1> QED BY <1>2, <1>3, <1>4

LEMMA StoreGoingSafe ==
  ASSUME NEW x, NEW i \in Harts(x), Safe(x)
  PROVE  Safe(StoreGoing(x, i)) /\ StoreGoing(x, i).core = x.core /\ Harts(StoreGoing(x, i)) = Harts(x)
<1> DEFINE y == StoreGoing(x, i)
<1>1. /\ DOMAIN y = DOMAIN x /\ y.core = x.core /\ y.hart_state = x.hart_state /\ y.busy = x.busy
      /\ y.hartsel = x.hartsel /\ y.nprocs = x.nprocs /\ y.autoexecprogbuf = x.autoexecprogbuf
      /\ y.abstract_command_completed = x.abstract_command_completed
      /\ y.flags = [x.flags EXCEPT ![i] = @ \ {"GO"}]
  BY DEF StoreGoing, Safe, Shape, Tracked
<1> HIDE DEF y
<1>2. Harts(y) = Harts(x)
  BY <1>1 DEF Harts
<1>3. Shape(y)
  BY <1>1, <1>2 DEF Safe, Shape
<1>4. ASSUME NEW j \in Harts(x) PROVE HartSafe(y, j)
  <2>1. HartSafe(x, j) /\ j \in DOMAIN x.flags
    BY DEF Safe, Shape
  <2>2. /\ "RESUME" \in y.flags[j] <=> "RESUME" \in x.flags[j]
        /\ "GO" \in y.flags[j] => "GO" \in x.flags[j]
    BY <1>1, <2>1
  <2> QED BY <1>1, <2>1, <2>2 DEF HartSafe, CommandSafe, InCommand, HaltSafe, ResumeSafe
<1> QED BY <1>1, <1>2, <1>3, <1>4 DEF Safe, y

LEMMA StoreHaltedSafe ==
  ASSUME NEW x, NEW i \in Harts(x), Safe(x), x.core[i].pc = "halted"
  PROVE  /\ Safe(StoreHalted(x, i)) /\ Harts(StoreHalted(x, i)) = Harts(x)
         /\ StoreHalted(x, i).core[i].pc = "halted"
<1> DEFINE halted == [x EXCEPT !.hart_state[i].halted = TRUE]
           told == IF x.hart_state[i].halted THEN x ELSE HaltGroup(halted, i)
           y == StoreHalted(x, i)
<1>1. /\ DOMAIN halted = DOMAIN x /\ halted.core = x.core /\ halted.flags = x.flags /\ halted.busy = x.busy
      /\ halted.hartsel = x.hartsel /\ halted.nprocs = x.nprocs
      /\ halted.autoexecprogbuf = x.autoexecprogbuf
      /\ halted.abstract_command_completed = x.abstract_command_completed
      /\ DOMAIN halted.hart_state = DOMAIN x.hart_state
      /\ halted.hart_state = [x.hart_state EXCEPT ![i].halted = TRUE]
  BY DEF Safe, Shape, Tracked
<1>2. ASSUME NEW j \in Harts(x)
      PROVE  /\ DOMAIN halted.hart_state[j] = DOMAIN x.hart_state[j]
             /\ j # i => halted.hart_state[j].halted = x.hart_state[j].halted
  <2>1. j \in DOMAIN x.hart_state
    BY DEF Safe, Shape
  <2>2. CASE j = i
    <3>1. halted.hart_state[j] = [x.hart_state[j] EXCEPT !.halted = TRUE]
      BY <1>1, <2>1, <2>2
    <3> QED BY <2>2, <3>1
  <2>3. CASE j # i
    <3>1. halted.hart_state[j] = x.hart_state[j]
      BY <1>1, <2>1, <2>3
    <3> QED BY <3>1
  <2> QED BY <2>2, <2>3
<1>3. halted.hart_state[i].halted = TRUE
  BY <1>1 DEF Safe, Shape, HartFields
<1> HIDE DEF halted
<1>4. /\ DOMAIN HaltGroup(halted, i) = DOMAIN x
      /\ HaltGroup(halted, i).flags = x.flags /\ HaltGroup(halted, i).busy = x.busy
      /\ HaltGroup(halted, i).hartsel = x.hartsel /\ HaltGroup(halted, i).nprocs = x.nprocs
      /\ HaltGroup(halted, i).autoexecprogbuf = x.autoexecprogbuf
      /\ HaltGroup(halted, i).abstract_command_completed = x.abstract_command_completed
      /\ HaltGroup(halted, i).hart_state = halted.hart_state
      /\ DOMAIN HaltGroup(halted, i).core = DOMAIN x.core
  BY <1>1 DEF HaltGroup, Safe, Shape, Tracked
<1>5. ASSUME NEW j \in Harts(x)
      PROVE  "pc" \in DOMAIN HaltGroup(halted, i).core[j] /\ HaltGroup(halted, i).core[j].pc = x.core[j].pc
  BY <1>1 DEF HaltGroup, Safe, Shape, Tracked
<1>6. /\ DOMAIN told = DOMAIN x
      /\ told.flags = x.flags /\ told.busy = x.busy /\ told.hartsel = x.hartsel /\ told.nprocs = x.nprocs
      /\ told.autoexecprogbuf = x.autoexecprogbuf
      /\ told.abstract_command_completed = x.abstract_command_completed
      /\ DOMAIN told.hart_state = DOMAIN x.hart_state /\ DOMAIN told.core = DOMAIN x.core
  BY <1>1, <1>4
<1>7. ASSUME NEW j \in Harts(x)
      PROVE  /\ "pc" \in DOMAIN told.core[j] /\ told.core[j].pc = x.core[j].pc
             /\ DOMAIN told.hart_state[j] = DOMAIN x.hart_state[j]
             /\ j # i => told.hart_state[j].halted = x.hart_state[j].halted
  BY <1>2, <1>4, <1>5 DEF Safe, Shape
<1>8. told.hart_state[i].halted = TRUE
  <2>1. CASE x.hart_state[i].halted
    <3>1. told = x
      BY <2>1
    <3> QED BY <2>1, <3>1
  <2>2. CASE ~x.hart_state[i].halted
    <3>1. told.hart_state = halted.hart_state
      BY <1>4, <2>2
    <3> QED BY <1>3, <3>1
  <2> QED BY <2>1, <2>2
<1> HIDE DEF told
<1>9. /\ DOMAIN y = DOMAIN told /\ y.core = told.core /\ y.hart_state = told.hart_state
      /\ y.flags = told.flags /\ y.busy = told.busy /\ y.hartsel = told.hartsel /\ y.nprocs = told.nprocs
      /\ y.autoexecprogbuf = told.autoexecprogbuf
      /\ y.abstract_command_completed =
           (told.abstract_command_completed \/ (x.hartsel = i /\ "GO" \notin x.flags[i]))
  BY <1>6 DEF StoreHalted, told, halted, Safe, Shape, Tracked
<1> HIDE DEF y
<1>10. Harts(y) = Harts(x)
  BY <1>6, <1>9 DEF Harts
<1>11. Shape(y)
  BY <1>6, <1>7, <1>9, <1>10 DEF Safe, Shape
<1>12. ASSUME NEW j \in Harts(x) PROVE HartSafe(y, j)
  <2>1. HartSafe(x, j)
    BY DEF Safe
  <2>2. y.core[j].pc = x.core[j].pc /\ y.flags = x.flags /\ y.busy = x.busy /\ y.hartsel = x.hartsel
    BY <1>6, <1>7, <1>9
  <2>3. InCommand(y, j) <=> InCommand(x, j)
    BY <2>2 DEF InCommand
  <2>4. x.hart_state[j].halted = TRUE => y.hart_state[j].halted = TRUE
    BY <1>7, <1>8, <1>9
  <2>5. InCommand(x, j) => y.abstract_command_completed = FALSE
    <3>1. SUFFICES ASSUME InCommand(x, j) PROVE y.abstract_command_completed = FALSE
      OBVIOUS
    <3>2. told.abstract_command_completed = FALSE /\ x.hartsel = j
      BY <1>6, <2>1, <3>1 DEF HartSafe, CommandSafe
    <3>3. j = i => "GO" \in x.flags[i]
      BY <3>1 DEF InCommand, Running, Places
    <3> QED BY <1>9, <3>2, <3>3
  <2>6. CommandSafe(y, j)
    BY <2>1, <2>2, <2>3, <2>4, <2>5 DEF HartSafe, CommandSafe
  <2>7. HaltSafe(y, j)
    <3>1. CASE j = i
      BY <2>2, <3>1 DEF HaltSafe
    <3>2. CASE j # i
      BY <1>7, <1>9, <2>1, <2>2, <3>2 DEF HartSafe, HaltSafe
    <3> QED BY <3>1, <3>2
  <2> QED BY <2>1, <2>2, <2>6, <2>7 DEF HartSafe, ResumeSafe
<1>13. Safe(y) /\ y.core[i].pc = "halted"
  BY <1>6, <1>7, <1>9, <1>10, <1>11, <1>12 DEF Safe
<1> QED BY <1>10, <1>13 DEF y

LEMMA ResumingSafe ==
  ASSUME NEW x, NEW i \in Harts(x), Safe(x), x.core[i].pc = "resuming"
  PROVE  Safe(Resuming(x, i))
<1> DEFINE told == StoreResuming(x, i)
           c == [x.core[i] EXCEPT !.s0 = x.core[i].dscratch0]
           y == To(told, i, c, At("dret", 0))
<1>1. /\ DOMAIN told = DOMAIN x /\ told.core = x.core /\ told.busy = x.busy
      /\ told.hartsel = x.hartsel /\ told.nprocs = x.nprocs
      /\ told.autoexecprogbuf = x.autoexecprogbuf
      /\ told.abstract_command_completed = x.abstract_command_completed
  BY DEF Safe, Shape, Tracked, StoreResuming
<1>2. /\ told.flags = [x.flags EXCEPT ![i] = @ \ {"RESUME"}]
      /\ told.hart_state =
           [x.hart_state EXCEPT ![i] = [x.hart_state[i] EXCEPT !.halted = FALSE, !.resumeack = TRUE]]
  BY DEF Safe, Shape, Tracked, StoreResuming
<1>3. ASSUME NEW j \in Harts(x)
      PROVE  /\ DOMAIN told.hart_state[j] = DOMAIN x.hart_state[j]
             /\ j # i => told.hart_state[j] = x.hart_state[j] /\ told.flags[j] = x.flags[j]
             /\ j = i => told.hart_state[j].halted = FALSE /\ ("GO" \in told.flags[j] => "GO" \in x.flags[j])
  BY <1>2 DEF Safe, Shape, HartFields
<1> HIDE DEF told
<1>4. Harts(told) = Harts(x)
  BY <1>1 DEF Harts
<1>5. Shape(told)
  BY <1>1, <1>2, <1>3, <1>4 DEF Safe, Shape
<1>6. Goes(told, y, i, "dret")
  BY <1>1, <1>4, <1>5, ToSameGoes DEF Shape
<1> HIDE DEF y
<1>7. Harts(y) = Harts(x)
  BY <1>4, <1>6 DEF Goes, Harts
<1>8. Shape(y)
  BY <1>4, <1>5, <1>6, <1>7 DEF Goes, Shape
<1>9. ~InCommand(x, i)
  BY DEF Safe, HartSafe, CommandSafe, ResumeSafe
<1>10. ASSUME NEW j \in Harts(x) PROVE HartSafe(y, j)
  <2>1. HartSafe(x, j) /\ j \in DOMAIN told.core
    BY <1>1 DEF Safe, Shape
  <2>2. CASE j = i
    BY <1>3, <1>6, <1>9, <2>2 DEF Goes, HartSafe, CommandSafe, InCommand, HaltSafe, ResumeSafe, Running, Places
  <2>3. CASE j # i
    <3>1. /\ y.core[j] = x.core[j] /\ y.flags[j] = x.flags[j] /\ y.hart_state[j] = x.hart_state[j]
          /\ y.busy = x.busy /\ y.hartsel = x.hartsel
          /\ y.abstract_command_completed = x.abstract_command_completed
      BY <1>1, <1>3, <1>6, <2>1, <2>3 DEF Goes
    <3> QED BY <2>1, <3>1 DEF HartSafe, CommandSafe, InCommand, HaltSafe, ResumeSafe
  <2> QED BY <2>2, <2>3
<1>11. Safe(y)
  BY <1>1, <1>6, <1>7, <1>8, <1>10 DEF Goes, Safe
<1> QED BY <1>11 DEF Resuming, y, told, c

LEMMA ResumingShape ==
  ASSUME NEW x, NEW i \in Harts(x), Shape(x)
  PROVE  Shape(StoreResuming(x, i))
<1> DEFINE y == StoreResuming(x, i)
<1>1. /\ DOMAIN y = DOMAIN x /\ y.core = x.core /\ y.nprocs = x.nprocs
      /\ DOMAIN y.flags = DOMAIN x.flags
      /\ y.hart_state =
           [x.hart_state EXCEPT ![i] = [x.hart_state[i] EXCEPT !.halted = FALSE, !.resumeack = TRUE]]
  BY DEF Shape, Tracked, StoreResuming
<1> HIDE DEF y
<1>2. \A j \in Harts(x) : DOMAIN y.hart_state[j] = DOMAIN x.hart_state[j]
  BY <1>1 DEF Shape
<1>3. Shape(y)
  BY <1>1, <1>2 DEF Shape, Harts
<1> QED BY <1>3 DEF y

LEMMA RomStepSafe ==
  ASSUME NEW x, NEW i \in Harts(x), Safe(x), x.core[i].pc # "user"
  PROVE  Safe(RomStep(x, i)) /\ Drifts(x, RomStep(x, i))
<1>1. /\ Shape(x) /\ HartSafe(x, i) /\ "pc" \in DOMAIN x.core[i]
      /\ \A v, w : "pc" \in DOMAIN [x.core[i] EXCEPT !.s0 = v, !.halt_request = w]
      /\ \A v : /\ "pc" \in DOMAIN [x.core[i] EXCEPT !.s0 = v]
                /\ "pc" \in DOMAIN [x.core[i] EXCEPT !.dscratch0 = v]
                /\ "pc" \in DOMAIN [x.core[i] EXCEPT !.upc = v]
  BY DEF Safe, Shape
<1>2. Safe(Entry(x, i)) /\ Drifts(x, Entry(x, i))
  <2>1. Goes(x, Entry(x, i), i, "halted")
    <3> DEFINE c == [x.core[i] EXCEPT !.dscratch0 = x.core[i].s0]
    <3>1. "pc" \in DOMAIN c
      BY <1>1
    <3>2. Entry(x, i) = To(x, i, c, At("halted", 0))
      BY DEF Entry
    <3> HIDE DEF c
    <3> QED BY <1>1, <3>1, <3>2, ToSameGoes
  <2> QED BY <2>1, GoesSafe, GoesDrifts DEF Running, Places
<1>3. ASSUME x.core[i].pc = "halted" PROVE Safe(TellHalted(x, i)) /\ Drifts(x, TellHalted(x, i))
  <2> DEFINE told == StoreHalted(x, i)
  <2>1. Safe(told) /\ Harts(told) = Harts(x) /\ told.core[i].pc = "halted" /\ Shape(told) /\ Drifts(x, told)
    BY <1>1, <1>3, StoreHaltedSafe, StoresDrift DEF Safe
  <2> HIDE DEF told
  <2>2. TellHalted(x, i) = To(told, i, [x.core[i] EXCEPT !.s0 = <<i, 0>>,
                                       !.halt_request = told.core[i].halt_request], At("go", 0))
    BY DEF TellHalted, told
  <2>3. Goes(told, TellHalted(x, i), i, "go")
    BY <1>1, <2>1, <2>2, ToSameGoes
  <2> QED BY <2>1, <2>3, GoesSafe, GoesDrifts, DriftsTrans DEF Running, Places
<1>4. ASSUME x.core[i].pc = "go" PROVE Safe(TestGo(x, i)) /\ Drifts(x, TestGo(x, i))
  <2>1. Goes(x, TestGo(x, i), i, IF "GO" \in x.flags[i] THEN "going" ELSE "resume")
    BY <1>1, ToSameGoes DEF TestGo
  <2> QED BY <1>1, <2>1, GoesSafe, GoesDrifts DEF InCommand, Running, Places
<1>5. ASSUME x.core[i].pc = "resume" PROVE Safe(TestResume(x, i)) /\ Drifts(x, TestResume(x, i))
  <2>1. Goes(x, TestResume(x, i), i, IF "RESUME" \in x.flags[i] THEN "resuming" ELSE "halted")
    BY <1>1, ToSameGoes DEF TestResume
  <2> QED BY <1>1, <2>1, GoesSafe, GoesDrifts DEF Running, Places
<1>6. ASSUME x.core[i].pc = "going" PROVE Safe(Going(x, i)) /\ Drifts(x, Going(x, i))
  <2> DEFINE told == StoreGoing(x, i)
  <2>1. Safe(told) /\ Harts(told) = Harts(x) /\ told.core = x.core /\ Shape(told)
         /\ Drifts(x, told)
    BY <1>1, StoreGoingSafe, StoresDrift DEF Safe
  <2> HIDE DEF told
  <2>2. Goes(told, Going(x, i), i, "abstract")
    BY <1>1, <2>1, ToSameGoes DEF Going, told
  <2> QED BY <1>6, <2>1, <2>2, GoesSafe, GoesDrifts, DriftsTrans DEF InCommand, Running, Places
<1>7. ASSUME x.core[i].pc \in {"abstract", "progbuf"} PROVE Safe(Execute(x, i)) /\ Drifts(x, Execute(x, i))
  <2>1. PICK pc \in {"entry", "progbuf", "exception", x.core[i].pc} : Goes(x, Execute(x, i), i, pc)
    BY <1>1, ExecuteLeads DEF Leads
  <2>2. InCommand(x, i) /\ pc \in Places \ {"user", "dret", "resuming"}
    BY <1>7, <2>1 DEF InCommand, Running, Places
  <2> QED BY <2>1, <2>2, GoesSafe, GoesDrifts
<1>8. Safe(Exception(x, i)) /\ Drifts(x, Exception(x, i))
  <2>1. Same(x, StoreException(x)) /\ Steady(x, StoreException(x))
    BY <1>1 DEF StoreException, Same, Steady, Shape, Tracked
  <2>2. Goes(x, Exception(x, i), i, "entry")
    BY <1>1, <2>1, ToGoes DEF Exception
  <2> QED BY <2>2, GoesSafe, GoesDrifts DEF Running, Places
<1>9. ASSUME x.core[i].pc = "dret" PROVE Safe(Dret(x, i)) /\ Drifts(x, Dret(x, i))
  <2>1. Goes(x, Dret(x, i), i, "user")
    BY <1>1, ToSameGoes DEF Dret
  <2> QED BY <1>1, <1>9, <2>1, GoesSafe, GoesDrifts DEF HartSafe, HaltSafe, Running, Places
<1>11. Drifts(x, Resuming(x, i))
  <2> DEFINE told == StoreResuming(x, i)
  <2>1. Drifts(x, told) /\ Harts(told) = Harts(x) /\ Shape(told)
    BY <1>1, StoresDrift, ResumingShape DEF Drifts, Harts
  <2> HIDE DEF told
  <2>2. Goes(told, Resuming(x, i), i, "dret")
    BY <1>1, <2>1, ToSameGoes DEF Resuming, told
  <2> QED BY <2>1, <2>2, GoesDrifts, DriftsTrans
<1> DEFINE pc == x.core[i].pc
<1>10. \/ pc = "entry" /\ RomStep(x, i) = Entry(x, i)
       \/ pc = "halted" /\ RomStep(x, i) = TellHalted(x, i)
       \/ pc = "go" /\ RomStep(x, i) = TestGo(x, i)
       \/ pc = "resume" /\ RomStep(x, i) = TestResume(x, i)
       \/ pc = "going" /\ RomStep(x, i) = Going(x, i)
       \/ pc \in {"abstract", "progbuf"} /\ RomStep(x, i) = Execute(x, i)
       \/ pc = "exception" /\ RomStep(x, i) = Exception(x, i)
       \/ pc = "resuming" /\ RomStep(x, i) = Resuming(x, i)
       \/ pc = "dret" /\ RomStep(x, i) = Dret(x, i)
  <2>1. pc \in Places /\ pc # "user"
    BY <1>1 DEF HartSafe
  <2> HIDE DEF pc
  <2> QED BY <2>1 DEF RomStep, pc, Places, Running
<1> QED BY <1>2, <1>3, <1>4, <1>5, <1>6, <1>7, <1>8, <1>9, <1>10, <1>11, ResumingSafe

----------------------------------------------------------------------------
(* The steps of the system.                                                *)
LEMMA DmiWrites ==
  ASSUME NEW x, NEW a, NEW v, NEW ch
  PROVE  dmi_write(x, a, v, ch).s = x \/ dmi_write(x, a, v, ch).s = WriteRegister(x, a, v, ch)
BY DEF dmi_write

LEMMA WordWrites ==
  ASSUME NEW x, NEW v, NEW ch, NEW i
  PROVE  /\ WriteRegister(x, Data(i), v, ch) = WriteData(x, i, v)
         /\ WriteRegister(x, Progbuf(i), v, ch) = WriteProgbuf(x, i, v)
BY DEF WriteRegister, Data, Progbuf

LEMMA ControlWrites ==
  ASSUME NEW x, NEW v, NEW ch
  PROVE  WriteRegister(x, Reg("dmcontrol"), v, ch) = WriteDmcontrol(x, v, ch)
BY DEF WriteRegister, Reg

LEMMA CommandWrites ==
  ASSUME NEW x, NEW v, NEW ch
  PROVE  WriteRegister(x, Reg("command"), v, ch) = perform_abstract_command([x EXCEPT !.command = v])
BY DEF WriteRegister, Reg

LEMMA OtherWrites ==
  ASSUME NEW x, NEW v, NEW ch
  PROVE  /\ WriteRegister(x, Reg("hawindow"), v, ch) = WriteHawindow(x, v)
         /\ WriteRegister(x, Reg("authdata"), v, ch) = WriteAuthdata(x, v, ch)
         /\ WriteRegister(x, Reg("dmcs2"), v, ch) = WriteHaltgroup(x, v)
BY DEF WriteRegister, Reg

LEMMA IdleSafe ==
  ASSUME NEW x, Safe(x)
  PROVE  /\ Safe(run_test_idle(x)) /\ (Unasked(x) => Unasked(run_test_idle(x)))
         /\ Drifts(x, run_test_idle(x))
<1> DEFINE y == run_test_idle(x)
           left == IF x.rti_remaining > 0 THEN x.rti_remaining - 1 ELSE 0
<1>1. /\ DOMAIN y = DOMAIN x /\ y.core = x.core /\ y.hart_state = x.hart_state /\ y.flags = x.flags
      /\ y.hartsel = x.hartsel /\ y.nprocs = x.nprocs
      /\ y.autoexecdata = x.autoexecdata /\ y.autoexecprogbuf = x.autoexecprogbuf
      /\ y.abstract_command_completed = x.abstract_command_completed
      /\ y.busy = (x.busy /\ ~(left = 0 /\ x.abstract_command_completed)) /\ Steady(x, y)
  BY DEF Safe, Shape, Steady, Tracked, run_test_idle
<1> HIDE DEF y, left
<1>2. Harts(y) = Harts(x)
  BY <1>1 DEF Harts
<1>3. Shape(y)
  BY <1>1, <1>2 DEF Safe, Shape
<1>4. x.busy = TRUE /\ x.abstract_command_completed = FALSE => y.busy = TRUE
  BY <1>1
<1>5. ASSUME NEW i \in Harts(x) PROVE HartSafe(y, i)
  BY <1>1, <1>4 DEF Safe, HartSafe, CommandSafe, InCommand, HaltSafe, ResumeSafe
<1>6. Safe(y)
  BY <1>1, <1>2, <1>3, <1>5 DEF Safe
<1>7. Unasked(x) => Unasked(y)
  BY <1>1, <1>2 DEF Unasked
<1>8. Drifts(x, y)
  BY <1>1 DEF Drifts
<1> QED BY <1>6, <1>7, <1>8 DEF y

LEMMA SameUnasked ==
  ASSUME NEW x, NEW y, Same(x, y), Unasked(x)
  PROVE  Unasked(y)
BY DEF Same, Unasked, Harts

LEMMA InitSafe ==
  ASSUME NEW kd \in Kinds, NEW config \in Configs[kd], NEW ch,
         s = debug_module_t(config.module, config.nprocs, [i \in 0..(config.nprocs - 1) |-> ResetRegs(i)],
                            Memory, [type |-> 1], ch)
  PROVE  /\ Safe(s) /\ Unasked(s)
         /\ ~s.busy /\ ~s.resumereq /\ \A i \in Harts(s) : s.flags[i] = {}
<1> DEFINE cores == [i \in 0..(config.nprocs - 1) |-> ResetRegs(i)]
           base == Constructed(config.module, config.nprocs, cores, Memory, [type |-> 1], ch)
<1>1. /\ Tracked \subseteq DOMAIN base /\ base.nprocs = config.nprocs
      /\ base.flags = [i \in HartIds(config.nprocs) |-> {}]
      /\ base.hart_state = [i \in HartIds(config.nprocs) |->
                [halted |-> FALSE, resumeack |-> FALSE, havereset |-> FALSE, haltgroup |-> 0]]
      /\ base.core = cores
  BY DEF Constructed, Tracked
<1>2. s = reset(base, ch)
  BY DEF debug_module_t
<1> HIDE DEF base
<1>3. /\ DOMAIN s = DOMAIN base /\ s.nprocs = base.nprocs /\ s.autoexecprogbuf = {} /\ s.autoexecdata = {}
      /\ ~s.busy /\ ~s.resumereq
      /\ s.flags = base.flags /\ s.hart_state = base.hart_state
      /\ s.core = [i \in DOMAIN base.core |-> [base.core[i] EXCEPT !.halt_request = "NONE"]]
  BY <1>1, <1>2 DEF reset, Tracked
<1>4. Harts(s) = 0..(config.nprocs - 1) /\ 0..(config.nprocs - 1) \subseteq HartIds(config.nprocs)
  BY <1>1, <1>3, ConfigAssumption DEF Harts
<1>5. ASSUME NEW i \in Harts(s)
      PROVE  /\ i \in DOMAIN s.core /\ "pc" \in DOMAIN s.core[i]
             /\ s.core[i].pc = "user" /\ s.core[i].halt_request = "NONE"
  <2>1. cores[i] = ResetRegs(i) /\ i \in DOMAIN cores
    BY <1>4
  <2> HIDE DEF cores
  <2>2. s.core = [k \in DOMAIN cores |-> [cores[k] EXCEPT !.halt_request = "NONE"]]
    BY <1>1, <1>3
  <2>3. s.core[i] = [ResetRegs(i) EXCEPT !.halt_request = "NONE"] /\ i \in DOMAIN s.core
    BY <2>1, <2>2
  <2> QED BY <2>3 DEF ResetRegs
<1>6. ASSUME NEW i \in Harts(s)
      PROVE  /\ i \in DOMAIN s.flags /\ s.flags[i] = {}
             /\ i \in DOMAIN s.hart_state /\ HartFields \subseteq DOMAIN s.hart_state[i]
             /\ s.hart_state[i].halted = FALSE
  <2>1. i \in HartIds(config.nprocs)
    BY <1>4
  <2>2. s.hart_state = [k \in HartIds(config.nprocs) |->
               [halted |-> FALSE, resumeack |-> FALSE, havereset |-> FALSE, haltgroup |-> 0]]
    BY <1>1, <1>3
  <2>3. s.hart_state[i] = [halted |-> FALSE, resumeack |-> FALSE, havereset |-> FALSE, haltgroup |-> 0]
    BY <2>1, <2>2
  <2>4. i \in DOMAIN s.hart_state
    BY <2>1, <2>2
  <2>5. s.flags = [k \in HartIds(config.nprocs) |-> {}]
    BY <1>1, <1>3
  <2>6. i \in DOMAIN s.flags /\ s.flags[i] = {}
    BY <2>1, <2>5
  <2> QED BY <2>3, <2>4, <2>6 DEF HartFields
<1>7. Shape(s)
  BY <1>1, <1>3, <1>5, <1>6 DEF Shape
<1>8. ASSUME NEW i \in Harts(s) PROVE HartSafe(s, i)
  BY <1>5, <1>6 DEF HartSafe, CommandSafe, InCommand, HaltSafe, ResumeSafe, Running, Places
<1> QED BY <1>3, <1>5, <1>6, <1>7, <1>8 DEF Safe, Unasked

(* The data words may be made to run commands.                             *)
LEMMA AutoSafe ==
  ASSUME NEW x, NEW on, Safe(x)
  PROVE  Safe([x EXCEPT !.autoexecdata = on, !.autoexecprogbuf = {}])
<1> DEFINE y == [x EXCEPT !.autoexecdata = on, !.autoexecprogbuf = {}]
<1>1. /\ DOMAIN y = DOMAIN x /\ y.core = x.core /\ y.hart_state = x.hart_state /\ y.flags = x.flags
      /\ y.busy = x.busy /\ y.hartsel = x.hartsel /\ y.nprocs = x.nprocs /\ y.autoexecprogbuf = {}
      /\ y.abstract_command_completed = x.abstract_command_completed
  BY DEF Safe, Shape, Tracked
<1> HIDE DEF y
<1>2. Harts(y) = Harts(x)
  BY <1>1 DEF Harts
<1>3. Shape(y)
  BY <1>1, <1>2 DEF Safe, Shape
<1>4. ASSUME NEW i \in Harts(x) PROVE HartSafe(y, i)
  BY <1>1 DEF Safe, HartSafe, CommandSafe, InCommand, HaltSafe, ResumeSafe
<1>5. Safe(y)
  BY <1>1, <1>2, <1>3, <1>4 DEF Safe
<1> QED BY <1>5 DEF y

\* a debugger that uses the registers as it likes
LEMMA FreeStep ==
  ASSUME kind = "free", Safe(s), FreeNext
  PROVE  Safe(s')
<1>1. Tracked \subseteq DOMAIN s
  BY DEF Safe, Shape
<1>2. ~ResumePending => NoResume(s)
  BY DEF ResumePending, NoResume
<1>3. ~s.busy => AtRest(s)
  BY DEF AtRest, Safe, HartSafe, CommandSafe
<1>4. ASSUME NEW v, FreeControls(v) PROVE Safe(s')
  <2>1. AtRest(s) /\ s' = dmi_write(s, Reg("dmcontrol"), v, 1).s
    BY <1>3, <1>4 DEF FreeControls, Debugs
  <2>2. Safe(WriteRegister(s, Reg("dmcontrol"), v, 1))
    BY <2>1, ControlWrites, DmcontrolSafe
  <2> QED BY <2>1, <2>2, DmiWrites
<1>5. ASSUME NEW c, FreeCommands(c) PROVE Safe(s')
  <2> DEFINE x == [s EXCEPT !.command = c]
  <2>1. NoResume(s) /\ s' = dmi_write(s, Reg("command"), c, 1).s
    BY <1>2, <1>5 DEF FreeCommands, Debugs
  <2>2. Same(s, x)
    BY <1>1, CommandSame
  <2> HIDE DEF x
  <2>3. Safe(perform_abstract_command(x))
    BY <2>1, <2>2, SameSafe, SameNoResume, PerformSafe
  <2>4. WriteRegister(s, Reg("command"), c, 1) = perform_abstract_command(x)
    BY CommandWrites DEF x
  <2> QED BY <2>1, <2>3, <2>4, DmiWrites
<1>6. ASSUME NEW prog, FreeProgram(prog) PROVE Safe(s')
  <2> DEFINE first == dmi_write(s, Progbuf(0), prog[1], 1).s
  <2>1. s' = dmi_write(first, Progbuf(1), prog[2], 1).s
    BY <1>6 DEF FreeProgram, Debugs
  <2>2. Safe(first)
    BY DmiWrites, WordWrites, ProgbufSame, SameSafe
  <2> HIDE DEF first
  <2> QED BY <2>1, <2>2, DmiWrites, WordWrites, ProgbufSame, SameSafe
<1>7. ASSUME NEW v, FreeData(v) PROVE Safe(s')
  <2>1. NoResume(s)
    BY <1>2, <1>7 DEF FreeData
  <2>2. s' = dmi_write(s, Data(0), v, 1).s \/ s' = dmi_read(s, Data(0)).s
    BY <1>7 DEF FreeData, Debugs
  <2>3. dmi_read(s, Data(0)).s = ReadData(s, 0).s
    BY DEF dmi_read, Data, RegisterNames
  <2>4. Safe(ReadData(s, 0).s) /\ Safe(WriteData(s, 0, v))
    BY <2>1, DataSafe
  <2> QED BY <2>2, <2>3, <2>4, DmiWrites, WordWrites
<1>8. ASSUME FreeGroups PROVE Safe(s')
  <2>1. \E v : \/ s' = dmi_write(s, Reg("dmcs2"), v, 1).s
               \/ s' = dmi_write(s, Reg("hawindow"), v, 1).s
               \/ s' = dmi_write(s, Reg("authdata"), v, 1).s
    BY <1>8 DEF FreeGroups, Debugs
  <2> QED BY <2>1, DmiWrites, OtherWrites, OtherRegistersSafe
<1>9. ASSUME FreeClears PROVE Safe(s')
  <2>1. CASE s' = dmi_write(s, Reg("abstractcs"), 7, 1).s
    <3>1. WriteRegister(s, Reg("abstractcs"), 7, 1) = [s EXCEPT !.cmderr = BitsOff(s.cmderr, 7)]
      BY DEF WriteRegister, Reg
    <3>2. Safe([s EXCEPT !.cmderr = BitsOff(s.cmderr, 7)])
      BY OtherRegistersSafe
    <3> QED BY <2>1, <3>1, <3>2, DmiWrites
  <2>2. ASSUME NEW on, s' = dmi_write(s, Reg("abstractauto"), [data |-> on, progbuf |-> {}], 1).s
        PROVE  Safe(s')
    <3> DEFINE y == [s EXCEPT !.autoexecdata = on, !.autoexecprogbuf = {}]
    <3>1. s' = s \/ s' = y
      <4>1. WriteRegister(s, Reg("abstractauto"), [data |-> on, progbuf |-> {}], 1) = y
        BY DEF WriteRegister, Reg
      <4> HIDE DEF y
      <4> QED BY <2>2, <4>1, DmiWrites
    <3>2. Safe(y)
      BY AutoSafe
    <3> HIDE DEF y
    <3> QED BY <3>1, <3>2
  <2> QED BY <1>9, <2>1, <2>2 DEF FreeClears, Debugs
<1> QED BY <1>4, <1>5, <1>6, <1>7, <1>8, <1>9 DEF FreeNext

\* one that uses the system bus
LEMMA BusSame ==
  ASSUME Safe(s), BusSetsUp \/ BusMoves
  PROVE  Same(s, s')
<1>1. ASSUME NEW x, Same(s, x), NEW v
      PROVE  /\ Same(s, WriteSbcs(x, v)) /\ Same(s, WriteSbaddress0(x, v)) /\ Same(s, WriteSbdata0(x, v))
             /\ Same(s, ReadSbdata0(x).s)
             /\ Same(s, [x EXCEPT !.sbaddress[2] = v]) /\ Same(s, [x EXCEPT !.sbdata[2] = v])
  <2>1. Tracked \subseteq DOMAIN x
    BY <1>1 DEF Same, Safe, Shape
  <2>2. /\ Same(x, WriteSbcs(x, v)) /\ Same(x, WriteSbaddress0(x, v)) /\ Same(x, WriteSbdata0(x, v))
        /\ Same(x, ReadSbdata0(x).s)
    BY <2>1, SbdataSame
  <2>3. Same(x, [x EXCEPT !.sbaddress[2] = v]) /\ Same(x, [x EXCEPT !.sbdata[2] = v])
    BY <2>1 DEF Same, Tracked
  <2> QED BY <1>1, <2>2, <2>3, SameTrans
<1>2. Same(s, s)
  BY DEF Same
<1>3. CASE BusSetsUp
  <2> DEFINE x == WriteRegister(s, Reg("sbcs"), stream.sbcs, 0)
             y == WriteRegister(x, Reg("sbaddress1"), stream.address \div WordSize, 0)
  <2>1. Same(s, x)
    <3>1. x = WriteSbcs(s, stream.sbcs)
      BY DEF WriteRegister, Reg
    <3> QED BY <1>1, <1>2, <3>1
  <2> HIDE DEF x
  <2>2. Same(s, y)
    <3>1. y = [x EXCEPT !.sbaddress[2] = stream.address \div WordSize]
      BY DEF WriteRegister, Reg
    <3> HIDE DEF y
    <3> QED BY <1>1, <2>1, <3>1
  <2> HIDE DEF y
  <2>3. s' = WriteRegister(y, Reg("sbaddress0"), stream.address % WordSize, 0)
    BY <1>3 DEF BusSetsUp, x, y
  <2>4. s' = WriteSbaddress0(y, stream.address % WordSize)
    BY <2>3 DEF WriteRegister, Reg
  <2> QED BY <1>1, <2>2, <2>4
<1>4. CASE BusMoves
  <2> DEFINE v == stream.values[Len(moved) + 1]
             high == IF Wide THEN dmi_write(s, Reg("sbdata1"), v[2], 0).s ELSE s
  <2>1. Same(s, high)
    <3>1. WriteRegister(s, Reg("sbdata1"), v[2], 0) = [s EXCEPT !.sbdata[2] = v[2]]
      BY DEF WriteRegister, Reg
    <3>2. Same(s, [s EXCEPT !.sbdata[2] = v[2]])
      BY <1>1, <1>2
    <3>3. Same(s, dmi_write(s, Reg("sbdata1"), v[2], 0).s)
      BY <1>2, <3>1, <3>2, DmiWrites
    <3> QED BY <1>2, <3>3
  <2>2. s' = dmi_read(s, Reg("sbdata0")).s \/ s' = dmi_write(high, Reg("sbdata0"), v[1], 0).s
    BY <1>4 DEF BusMoves
  <2> HIDE DEF high, v
  <2>3. dmi_read(s, Reg("sbdata0")).s = ReadSbdata0(s).s
    BY DEF dmi_read, Reg, RegisterNames
  <2>4. WriteRegister(high, Reg("sbdata0"), v[1], 0) = WriteSbdata0(high, v[1])
    BY DEF WriteRegister, Reg
  <2>5. Same(s, dmi_write(high, Reg("sbdata0"), v[1], 0).s)
    <3>1. Same(s, WriteSbdata0(high, v[1]))
      BY <1>1, <2>1
    <3>2. \/ dmi_write(high, Reg("sbdata0"), v[1], 0).s = high
          \/ dmi_write(high, Reg("sbdata0"), v[1], 0).s = WriteSbdata0(high, v[1])
      BY <2>4, DmiWrites
    <3> QED BY <2>1, <3>1, <3>2
  <2> QED BY <1>1, <1>2, <2>2, <2>3, <2>5
<1> QED BY <1>3, <1>4

\* one that scans the data words
LEMMA AccessSame ==
  ASSUME NEW x, NEW dr, Safe(x), x.autoexecdata = {}
  PROVE  Same(x, Access(x, dr).s)
<1>1. PICK a \in {Data(0), Data(1), Reg("sbaddress1"), Reg("none")} : a = DmiAddress(AddressIn(dr))
  BY DEF DmiAddress
<1>2. Same(x, x)
  BY DEF Same
<1>3. Same(x, dmi_read(x, a).s)
  <2>1. ASSUME NEW i PROVE dmi_read(x, Data(i)).s = ReadData(x, i).s
    BY DEF dmi_read, Data, RegisterNames
  <2>2. dmi_read(x, Reg("sbaddress1")).s = x /\ dmi_read(x, Reg("none")).s = x
    BY DEF dmi_read, Reg, RegisterNames
  <2> QED BY <1>1, <1>2, <2>1, <2>2, DataSafe
<1>4. ASSUME NEW v PROVE Same(x, dmi_write(x, a, v, 0).s)
  <2>1. dmi_write(x, Reg("none"), v, 0).s = x
    BY DEF dmi_write, Reg, WritableNames
  <2>2. Same(x, [x EXCEPT !.sbaddress[2] = v])
    BY DEF Same, Tracked, Safe, Shape
  <2>3. WriteRegister(x, Reg("sbaddress1"), v, 0) = [x EXCEPT !.sbaddress[2] = v]
    BY DEF WriteRegister, Reg
  <2> QED BY <1>1, <1>2, <2>1, <2>2, <2>3, DataSafe, DmiWrites, WordWrites
<1>5. \/ Access(x, dr).s = dmi_read(x, a).s
      \/ Access(x, dr).s = dmi_write(x, a, DataOf(dr), 0).s
      \/ Access(x, dr).s = x
  BY <1>1 DEF Access
<1> QED BY <1>2, <1>3, <1>4, <1>5

Carries(x, y) == y = x \/ y = run_test_idle(x) \/ \E dr : y = Access(x, dr).s

LEMMA CarryCarries ==
  ASSUME NEW x, NEW tr, NEW lg, NEW command
  PROVE  Carries(x, Carry([t |-> tr, s |-> x, log |-> lg], command).s)
<1> DEFINE j == [t |-> tr, s |-> x, log |-> lg]
           Of(k) == DOMAIN k = {"t", "s", "log"} /\ k.s = x
<1>1. ASSUME NEW k, Of(k) PROVE Carries(x, Enter(k).s)
  <2>1. Carries(x, update_dr(k).s)
    <3>1. DbusUpdate(k).s = Access(x, k.t.dr).s /\ DtmcontrolUpdate(k).s = x
      BY <1>1 DEF DbusUpdate, DtmcontrolUpdate
    <3> QED BY <1>1, <3>1 DEF update_dr, Carries
  <2>2. [k EXCEPT !.t.rti_remaining = IF @ > 0 THEN @ - 1 ELSE 0, !.s = run_test_idle(@)].s = run_test_idle(x)
    BY <1>1
  <2>3. /\ \A v : [k EXCEPT !.t.ir = v].s = x /\ [k EXCEPT !.t.tdo = v].s = x
        /\ [k EXCEPT !.t = capture_dr(@)].s = x
    BY <1>1
  <2> QED BY <1>1, <2>1, <2>2, <2>3 DEF Enter, Carries
<1>2. ASSUME NEW a, NEW b1, NEW c PROVE Carries(x, set_pins(j, a, b1, c).s)
  <2> DEFINE shifted == Shift(j.t)
             moved_ == [j EXCEPT !.t = [shifted EXCEPT !.state = next[shifted.state][shifted.tms + 1]]]
             edge == Enter(moved_)
             after == IF j.t.tck = 0 /\ a = 1 THEN edge ELSE j
  <2>1. Of(moved_)
    OBVIOUS
  <2>2. Carries(x, edge.s)
    BY <1>1, <2>1
  <2>3. Carries(x, after.s)
    BY <2>2 DEF Carries
  <2> HIDE DEF after
  <2>4. [after EXCEPT !.t.tck = a, !.t.tms = b1, !.t.tdi = c].s = after.s
    OBVIOUS
  <2>5. set_pins(j, a, b1, c) = [after EXCEPT !.t.tck = a, !.t.tms = b1, !.t.tdi = c]
    BY DEF set_pins, after
  <2> QED BY <2>3, <2>4, <2>5
<1>3. j.s = x /\ [j EXCEPT !.t = jtag_reset(@)].s = x
  OBVIOUS
<1> HIDE DEF j
<1>4. Carries(x, Carry(j, command).s)
  BY <1>2, <1>3 DEF Carry, Carries
<1> QED BY <1>4 DEF j

LEMMA CommandsSafe ==
  ASSUME kind = "jtag", Safe(s), Unasked(s), ServerCommands
  PROVE  Safe(s') /\ Unasked(s')
<1> DEFINE after == Carry(Transport, Head(b.recv_buf))
<1>1. s' = s \/ s' = after.s
  BY DEF ServerCommands
<1>2. Carries(s, after.s)
  BY CarryCarries DEF Transport
<1> HIDE DEF after
<1>3. s' = s \/ s' = run_test_idle(s) \/ \E dr : s' = Access(s, dr).s
  BY <1>1, <1>2 DEF Carries
<1>4. ASSUME NEW dr PROVE Safe(Access(s, dr).s) /\ Unasked(Access(s, dr).s)
  BY AccessSame, SameSafe, SameUnasked DEF Unasked
<1> QED BY <1>3, <1>4, IdleSafe

----------------------------------------------------------------------------
(* The host thread.  What it knows of the module between two requests is   *)
(* its mode: idle, no command runs; off, one may; running, the data words  *)
(* run commands; asked, it has asked a hart to resume; acked, that hart    *)
(* has answered.                                                           *)
NoFlags(x) == \A i \in Harts(x) : "RESUME" \notin x.flags[i]
Asking(x) == \A i \in Harts(x) : "RESUME" \in x.flags[i] => hart_selected(x, i) /\ ~x.hart_state[i].resumeack
InMode(x, m) ==
  /\ ~x.authenticated => x.autoexecdata = {} /\ ~x.busy /\ ~x.resumereq
  /\ m # "running" => x.autoexecdata = {}
  /\ m \notin {"running", "off"} => ~x.busy
  /\ IF m = "asked" THEN Asking(x) ELSE NoFlags(x)
  /\ m \notin {"asked", "acked"} => ~x.resumereq

\* what a request of a script does to the mode, once it has its answer
StatusRegisters == {Reg("dmcontrol"), Reg("dmstatus"), Reg("abstractcs"), Reg("hartinfo")}
Looks(e) ==
  \/ \E a \in StatusRegisters, do \in {"nothing", "poll_active", "poll_halted", "max_hart"} : e = Read(a, do)
  \/ \E hart : \/ e = Settled(hart)
               \/ e = [op |-> "read", a |-> Reg("dmstatus"), do |-> "probe", hart |-> hart]
Moves(e) ==
  \E i : \/ \E do \in {"low", "s0", "s1", "buffer", "csr"} : e = Read(Data(i), do)
         \/ \E v : e = Write(Data(i), v)
         \/ \E name : e = WriteSaved(i, name)
Selecting(hart, do) == [op |-> "write", a |-> Reg("dmcontrol"), select |-> hart, do |-> do]
Selects(e) == \E hart : e = Selecting(hart, "select") \/ e = Selecting(hart, "nothing")
Loops(e, body) == \E k, last, values : <<e>> = Loop(body, k, last, values)
Pseudo(e) == e = [op |-> "running", do |-> "nothing"] \/ \E xlen : <<e>> = Known(xlen)
Step(e, m, n) ==
  \/ Looks(e) /\ (e.do = "probe" => m = "idle") /\ n = m
  \/ e = Read(Reg("dmcontrol"), "control") /\ m = "idle" /\ n = m
  \/ Selects(e) /\ m = "idle" /\ n = m
  \/ \E v : /\ e = WriteControl(v) /\ v.dmactive = TRUE /\ v.resumereq = FALSE
            /\ m \in {"idle", "acked"} /\ n = "idle"
  \/ \E v : /\ e = WriteControl(v) /\ v.dmactive = TRUE /\ v.resumereq = TRUE /\ v.hartreset = FALSE
            /\ v.ndmreset = FALSE /\ m = "idle" /\ n = "asked"
  \/ e = Read(Reg("dmstatus"), "poll_resumed") /\ m = "asked" /\ n = "acked"
  \/ Moves(e) /\ m \in {"idle", "off", "running"} /\ n = m
  \/ (\E i, v : e = Write(Progbuf(i), v)) /\ m \in {"idle", "off"} /\ n = m
  \/ (\E v : e = Write(Reg("command"), v)) /\ m \in {"idle", "off"} /\ n = "off"
  \/ e = WaitNotBusy /\ m \in {"idle", "off"} /\ n = "idle"
  \/ e = WaitNotBusy /\ m = "running" /\ n = m
  \/ (e = Die \/ e = Write(Reg("abstractcs"), 7)) /\ m \in {"idle", "running"} /\ n = m
  \/ (\E on : <<e>> = AutoExecData(on)) /\ m = "idle" /\ n = "running"
  \/ <<e>> = AutoExecData({}) /\ m = "running" /\ n = "off"
  \/ Pseudo(e) /\ m = "idle" /\ n = m
  \/ Loops(e, "write") /\ m = "running" /\ n = m
  \/ (Loops(e, "read") \/ Loops(e, "reset")) /\ m = "idle" /\ n = m

\* a script that begins in one mode and ends in another
Listed(q) == \E S : q \in Seq(S)
Path(q, m, n) ==
  /\ Listed(q)
  /\ \E tr : /\ tr[1] = m /\ tr[Len(q) + 1] = n
             /\ \A k \in 1..Len(q) : Step(q[k], tr[k], tr[k + 1])

\* a script of requests that each keep the mode
LEMMA PathSame ==
  ASSUME NEW q, NEW m, Listed(q), \A k \in 1..Len(q) : Step(q[k], m, m)
  PROVE  Path(q, m, m)
<1>1. Len(q) \in Nat
  BY DEF Listed
<1> DEFINE tr == [k \in 1..(Len(q) + 1) |-> m]
<1>2. tr[1] = m /\ tr[Len(q) + 1] = m
  BY <1>1
<1>3. \A k \in 1..Len(q) : tr[k] = m /\ tr[k + 1] = m
  BY <1>1
<1> HIDE DEF tr
<1> QED BY <1>2, <1>3 DEF Path

LEMMA PathEmpty ==
  ASSUME NEW m
  PROVE  Path(<<>>, m, m)
<1>1. Listed(<<>>) /\ 1..Len(<<>>) = {}
  BY DEF Listed
<1> QED BY <1>1, PathSame

LEMMA PathEmptyIs ==
  ASSUME NEW m, NEW n, Path(<<>>, m, n)
  PROVE  m = n
BY DEF Path

LEMMA PathConcat ==
  ASSUME NEW p, NEW q, NEW l, NEW m, NEW n, Path(p, l, m), Path(q, m, n)
  PROVE  Path(p \o q, l, n)
<1>1. PICK S : p \in Seq(S)
  BY DEF Path, Listed
<1>2. PICK T : q \in Seq(T)
  BY DEF Path, Listed
<1>3. p \in Seq(S \union T) /\ q \in Seq(S \union T)
  BY <1>1, <1>2
<1>4. p \o q \in Seq(S \union T) /\ Len(p \o q) = Len(p) + Len(q)
      /\ \A k \in 1..(Len(p) + Len(q)) : (p \o q)[k] = IF k <= Len(p) THEN p[k] ELSE q[k - Len(p)]
  BY <1>3
<1>5. PICK tp : tp[1] = l /\ tp[Len(p) + 1] = m /\ \A k \in 1..Len(p) : Step(p[k], tp[k], tp[k + 1])
  BY DEF Path
<1>6. PICK tq : tq[1] = m /\ tq[Len(q) + 1] = n /\ \A k \in 1..Len(q) : Step(q[k], tq[k], tq[k + 1])
  BY DEF Path
<1> DEFINE tr == [k \in 1..(Len(p) + Len(q) + 1) |-> IF k <= Len(p) THEN tp[k] ELSE tq[k - Len(p)]]
<1>7. Len(p) \in Nat /\ Len(q) \in Nat
  BY <1>3
<1>8. /\ \A k \in 1..Len(p) : tr[k] = tp[k]
      /\ \A k \in 1..(Len(q) + 1) : tr[Len(p) + k] = tq[k]
  BY <1>7
<1>9. tr[1] = l
  BY <1>5, <1>6, <1>7
<1>10. tr[Len(p) + Len(q) + 1] = n
  BY <1>6, <1>7
<1> HIDE DEF tr
<1>11. ASSUME NEW k \in 1..(Len(p) + Len(q)) PROVE Step((p \o q)[k], tr[k], tr[k + 1])
  <2>1. CASE k < Len(p)
    <3>1. (p \o q)[k] = p[k] /\ tr[k] = tp[k] /\ tr[k + 1] = tp[k + 1] /\ k \in 1..Len(p)
      BY <1>4, <1>7, <1>8, <2>1
    <3> QED BY <1>5, <3>1
  <2>2. CASE k = Len(p)
    <3>1. (p \o q)[k] = p[k] /\ tr[k] = tp[k] /\ tr[k + 1] = m /\ k \in 1..Len(p)
      BY <1>4, <1>6, <1>7, <1>8, <2>2
    <3> QED BY <1>5, <2>2, <3>1
  <2>3. CASE k > Len(p)
    <3>1. PICK j \in 1..Len(q) : k = Len(p) + j
      <4>1. k - Len(p) \in 1..Len(q) /\ k = Len(p) + (k - Len(p))
        BY <1>7, <2>3
      <4> QED BY <4>1
    <3>2. (p \o q)[k] = q[j]
      BY <1>4, <1>7, <2>3, <3>1
    <3>3. tr[k] = tq[j] /\ k + 1 = Len(p) + (j + 1) /\ j + 1 \in 1..(Len(q) + 1)
      BY <1>7, <1>8, <3>1
    <3>4. tr[k + 1] = tq[j + 1]
      BY <1>8, <3>3
    <3> QED BY <1>6, <3>2, <3>3, <3>4
  <2> QED BY <1>7, <2>1, <2>2, <2>3
<1> QED BY <1>4, <1>9, <1>10, <1>11 DEF Path, Listed

LEMMA PathOne ==
  ASSUME NEW e, NEW m, NEW n, Step(e, m, n)
  PROVE  Path(<<e>>, m, n)
<1>1. <<e>> \in Seq({e}) /\ Len(<<e>>) = 1
  OBVIOUS
<1> DEFINE tr == [k \in 1..2 |-> IF k = 1 THEN m ELSE n]
<1>2. tr[1] = m /\ tr[2] = n
  OBVIOUS
<1> HIDE DEF tr
<1>3. \A k \in 1..1 : Step(<<e>>[k], tr[k], tr[k + 1])
  BY <1>2
<1>4. \E ts : ts[1] = m /\ ts[1 + 1] = n /\ \A k \in 1..1 : Step(<<e>>[k], ts[k], ts[k + 1])
  BY <1>2, <1>3
<1> QED BY <1>1, <1>4 DEF Path, Listed

LEMMA PathTwo ==
  ASSUME NEW d, NEW e, NEW l, NEW m, NEW n, Step(d, l, m), Step(e, m, n)
  PROVE  Path(<<d, e>>, l, n)
<1> DEFINE q == <<d, e>>
           tr == [k \in 1..3 |-> IF k = 1 THEN l ELSE IF k = 2 THEN m ELSE n]
<1>1. q \in Seq({d, e}) /\ Len(q) = 2 /\ q[1] = d /\ q[2] = e
  OBVIOUS
<1>2. tr[1] = l /\ tr[2] = m /\ tr[3] = n
  OBVIOUS
<1> HIDE DEF q, tr
<1>3. \A k \in 1..2 : Step(q[k], tr[k], tr[k + 1])
  BY <1>1, <1>2
<1>4. \E ts : ts[1] = l /\ ts[2 + 1] = n /\ \A k \in 1..2 : Step(q[k], ts[k], ts[k + 1])
  BY <1>2, <1>3
<1>5. Path(q, l, n)
  BY <1>1, <1>4 DEF Path, Listed
<1> QED BY <1>5 DEF q

\* the first request and the rest
LEMMA PathHead ==
  ASSUME NEW q, NEW m, NEW n, Path(q, m, n), q # <<>>
  PROVE  \E l : Step(Head(q), m, l) /\ Path(Tail(q), l, n)
<1>1. PICK S : q \in Seq(S)
  BY DEF Path, Listed
<1>2. PICK tr : tr[1] = m /\ tr[Len(q) + 1] = n /\ \A k \in 1..Len(q) : Step(q[k], tr[k], tr[k + 1])
  BY DEF Path
<1>3. /\ Len(q) \in Nat \ {0} /\ Head(q) = q[1] /\ Tail(q) \in Seq(S) /\ Len(Tail(q)) = Len(q) - 1
      /\ \A k \in 1..(Len(q) - 1) : Tail(q)[k] = q[k + 1]
  BY <1>1
<1>4. Step(Head(q), m, tr[2])
  <2>1. Step(q[1], tr[1], tr[1 + 1])
    BY <1>2, <1>3
  <2> QED BY <1>2, <1>3, <2>1
<1> DEFINE ts == [k \in 1..Len(q) |-> tr[k + 1]]
<1>5. ts[1] = tr[2] /\ ts[Len(q)] = n
  BY <1>2, <1>3
<1>6. \A k \in 1..(Len(q) - 1) : ts[k] = tr[k + 1] /\ ts[k + 1] = tr[(k + 1) + 1]
  BY <1>3
<1> HIDE DEF ts
<1>7. ASSUME NEW k \in 1..(Len(q) - 1) PROVE Step(Tail(q)[k], ts[k], ts[k + 1])
  <2>1. k + 1 \in 1..Len(q)
    BY <1>3
  <2> QED BY <1>2, <1>3, <1>6, <2>1
<1>8. Len(Tail(q)) + 1 = Len(q)
  BY <1>3
<1>9. Path(Tail(q), tr[2], n)
  BY <1>3, <1>5, <1>7, <1>8 DEF Path, Listed
<1> QED BY <1>4, <1>9

LEMMA PathFrom ==
  ASSUME NEW q, NEW l, NEW m, NEW n, Listed(q), q # <<>>, Step(Head(q), l, m), Path(Tail(q), m, n)
  PROVE  Path(q, l, n)
<1>1. q = <<Head(q)>> \o Tail(q)
  BY DEF Listed
<1>2. Path(<<Head(q)>>, l, m)
  BY PathOne
<1> QED BY <1>1, <1>2, PathConcat
LEMMA PathFour ==
  ASSUME NEW c, NEW d, NEW e, NEW f, NEW i, NEW j, NEW k, NEW l, NEW m,
         Step(c, i, j), Step(d, j, k), Step(e, k, l), Step(f, l, m)
  PROVE  Path(<<c, d, e, f>>, i, m)
<1> DEFINE q == <<c, d, e, f>>
           tr == [a \in 1..5 |-> IF a = 1 THEN i ELSE IF a = 2 THEN j ELSE IF a = 3 THEN k ELSE IF a = 4 THEN l ELSE m]
<1>1. q \in Seq({c, d, e, f}) /\ Len(q) = 4 /\ q[1] = c /\ q[2] = d /\ q[3] = e /\ q[4] = f
  OBVIOUS
<1>2. tr[1] = i /\ tr[2] = j /\ tr[3] = k /\ tr[4] = l /\ tr[5] = m
  OBVIOUS
<1> HIDE DEF q, tr
<1>3. \A a \in 1..4 : Step(q[a], tr[a], tr[a + 1])
  BY <1>1, <1>2
<1>4. \E ts : ts[1] = i /\ ts[4 + 1] = m /\ \A a \in 1..4 : Step(q[a], ts[a], ts[a + 1])
  BY <1>2, <1>3
<1>5. Path(q, i, m)
  BY <1>1, <1>4 DEF Path, Listed
<1> QED BY <1>5 DEF q

----------------------------------------------------------------------------
(* The requests of the scripts.                                            *)
LEMMA LooksStep ==
  ASSUME NEW m, NEW hart
  PROVE  /\ Step(ReadStatus, m, m) /\ Step(Settled(hart), m, m)
         /\ Step(Read(Reg("dmstatus"), "poll_halted"), m, m)
         /\ Step(Read(Reg("dmcontrol"), "poll_active"), m, m)
         /\ Step(Read(Reg("dmcontrol"), "max_hart"), m, m)
         /\ Step(Read(Reg("abstractcs"), "nothing"), m, m)
         /\ Step(Read(Reg("hartinfo"), "nothing"), m, m)
         /\ Step([op |-> "read", a |-> Reg("dmstatus"), do |-> "probe", hart |-> hart], "idle", "idle")
<1>1. /\ Looks(ReadStatus) /\ Looks(Settled(hart))
      /\ Looks(Read(Reg("dmstatus"), "poll_halted")) /\ Looks(Read(Reg("dmcontrol"), "poll_active"))
      /\ Looks(Read(Reg("dmcontrol"), "max_hart")) /\ Looks(Read(Reg("abstractcs"), "nothing"))
      /\ Looks(Read(Reg("hartinfo"), "nothing"))
  BY DEF Looks, ReadStatus, StatusRegisters
<1>2. Looks([op |-> "read", a |-> Reg("dmstatus"), do |-> "probe", hart |-> hart])
  BY DEF Looks
<1>3. /\ ReadStatus.do # "probe" /\ Settled(hart).do # "probe"
      /\ \A a, do : Read(a, do).do = do
  BY DEF ReadStatus, Settled, Read
<1> QED BY <1>1, <1>2, <1>3 DEF Step

LEMMA SelectStep ==
  ASSUME NEW hart
  PROVE  /\ Path(select_hart(hart), "idle", "idle")
         /\ Step([op |-> "write", a |-> Reg("dmcontrol"), select |-> hart, do |-> "nothing"], "idle", "idle")
<1>1. ASSUME NEW do \in {"select", "nothing"}
      PROVE  Step([op |-> "write", a |-> Reg("dmcontrol"), select |-> hart, do |-> do], "idle", "idle")
  <2>1. Selects(Selecting(hart, do))
    BY DEF Selects
  <2>2. Step(Selecting(hart, do), "idle", "idle")
    BY <2>1 DEF Step
  <2> QED BY <2>2 DEF Selecting
<1>2. Step(Read(Reg("dmcontrol"), "control"), "idle", "idle")
  BY DEF Step
<1>3. Step([op |-> "write", a |-> Reg("dmcontrol"), select |-> hart, do |-> "select"], "idle", "idle")
  BY <1>1
<1>4. Path(select_hart(hart), "idle", "idle")
  BY <1>2, <1>3, PathTwo DEF select_hart
<1> QED BY <1>1, <1>4

LEMMA ControlStep ==
  ASSUME NEW hart
  PROVE  /\ \A m \in {"idle", "acked"} :
              /\ Step(WriteControl(Control), m, "idle")
              /\ Step(WriteControl([Control EXCEPT !.hartsel = hart]), m, "idle")
              /\ Step(WriteControl([Control EXCEPT !.haltreq = TRUE, !.hartsel = hart]), m, "idle")
         /\ Step(WriteControl([Control EXCEPT !.resumereq = TRUE, !.hartsel = hart]), "idle", "asked")
         /\ Step(Read(Reg("dmstatus"), "poll_resumed"), "asked", "acked")
<1>1. ASSUME NEW v \in {Control, [Control EXCEPT !.hartsel = hart],
                        [Control EXCEPT !.haltreq = TRUE, !.hartsel = hart]},
             NEW m \in {"idle", "acked"}
      PROVE  Step(WriteControl(v), m, "idle")
  <2>1. /\ Control.dmactive = TRUE /\ Control.resumereq = FALSE
        /\ [Control EXCEPT !.hartsel = hart].dmactive = TRUE
        /\ [Control EXCEPT !.hartsel = hart].resumereq = FALSE
        /\ [Control EXCEPT !.haltreq = TRUE, !.hartsel = hart].dmactive = TRUE
        /\ [Control EXCEPT !.haltreq = TRUE, !.hartsel = hart].resumereq = FALSE
    BY DEF Control
  <2>2. v.dmactive = TRUE /\ v.resumereq = FALSE
    BY <2>1
  <2> QED BY <2>2 DEF Step
<1>2. Step(WriteControl([Control EXCEPT !.resumereq = TRUE, !.hartsel = hart]), "idle", "asked")
  <2> DEFINE v == [Control EXCEPT !.resumereq = TRUE, !.hartsel = hart]
  <2>1. v.dmactive = TRUE /\ v.resumereq = TRUE /\ v.hartreset = FALSE /\ v.ndmreset = FALSE
    BY DEF Control
  <2> HIDE DEF v
  <2>2. Step(WriteControl(v), "idle", "asked")
    BY <2>1 DEF Step
  <2> QED BY <2>2 DEF v
<1>3. Step(Read(Reg("dmstatus"), "poll_resumed"), "asked", "acked")
  BY DEF Step
<1> QED BY <1>1, <1>2, <1>3

LEMMA DataStep ==
  ASSUME NEW m \in {"idle", "off", "running"}, NEW i
  PROVE  /\ \A do \in {"low", "s0", "s1", "buffer", "csr"} : Step(Read(Data(i), do), m, m)
         /\ \A v : Step(Write(Data(i), v), m, m)
         /\ \A name : Step(WriteSaved(i, name), m, m)
BY DEF Step, Moves

LEMMA CommandStep ==
  ASSUME NEW v, NEW i
  PROVE  /\ \A m \in {"idle", "off"} :
              /\ Step(Write(Progbuf(i), v), m, m) /\ Step(Write(Reg("command"), v), m, "off")
              /\ Step(WaitNotBusy, m, "idle")
         /\ Step(Die, "idle", "idle") /\ Step(Die, "running", "running")
         /\ Step(Write(Reg("abstractcs"), 7), "idle", "idle")
         /\ Step(WaitNotBusy, "running", "running")
BY DEF Step

LEMMA PseudoStep ==
  ASSUME NEW k, NEW last, NEW values
  PROVE  /\ Path(Loop("write", k, last, values), "running", "running")
         /\ Path(Loop("read", k, last, values), "idle", "idle")
         /\ Path(Loop("reset", k, last, values), "idle", "idle")
<1>1. ASSUME NEW body, NEW m, <<body, m>> \in {<<"write", "running">>, <<"read", "idle">>, <<"reset", "idle">>}
      PROVE  Path(Loop(body, k, last, values), m, m)
  <2> DEFINE e == [op |-> "loop", body |-> body, k |-> k, last |-> last, values |-> values, do |-> "nothing"]
  <2>1. <<e>> = Loop(body, k, last, values)
    BY DEF Loop
  <2> HIDE DEF e
  <2>2. Step(e, m, m)
    <3>1. Loops(e, body)
      BY <2>1 DEF Loops
    <3>2. \/ body = "write" /\ m = "running"
          \/ body \in {"read", "reset"} /\ m = "idle"
      BY <1>1
    <3> QED BY <3>1, <3>2 DEF Step
  <2>3. Path(<<e>>, m, m)
    BY <2>2, PathOne
  <2> QED BY <2>1, <2>3
<1>2. Path(Loop("write", k, last, values), "running", "running")
  BY <1>1
<1>3. Path(Loop("read", k, last, values), "idle", "idle")
  BY <1>1
<1>4. Path(Loop("reset", k, last, values), "idle", "idle")
  BY <1>1
<1> QED BY <1>2, <1>3, <1>4

LEMMA KnownPath ==
  ASSUME NEW xlen
  PROVE  Path(Known(xlen), "idle", "idle") /\ Path(<< [op |-> "running", do |-> "nothing"] >>, "idle", "idle")
<1> DEFINE e == [op |-> "width", xlen |-> xlen, do |-> "nothing"]
           f == [op |-> "running", do |-> "nothing"]
<1>1. <<e>> = Known(xlen)
  BY DEF Known
<1>2. Pseudo(f)
  BY DEF Pseudo
<1> HIDE DEF e, f
<1>3. Pseudo(e)
  BY <1>1 DEF Pseudo
<1>4. Path(<<e>>, "idle", "idle") /\ Path(<<f>>, "idle", "idle")
  BY <1>2, <1>3, PathOne DEF Step
<1> QED BY <1>1, <1>4 DEF f

LEMMA AutoPath ==
  ASSUME NEW on
  PROVE  Path(AutoExecData(on), "idle", "running") /\ Path(AutoExecData({}), "running", "off")
<1>1. ASSUME NEW set, NEW e, <<e>> = AutoExecData(set)
      PROVE  Path(<<e>>, "idle", "running") /\ (set = {} => Path(<<e>>, "running", "off"))
  <2>1. Step(e, "idle", "running") /\ (set = {} => Step(e, "running", "off"))
    BY <1>1 DEF Step
  <2> QED BY <2>1, PathOne
<1>2. ASSUME NEW set PROVE \E e : <<e>> = AutoExecData(set)
  BY DEF AutoExecData
<1> QED BY <1>1, <1>2

----------------------------------------------------------------------------
(* The operations of the transport begin and end idle.                     *)
LEMMA ListedTuples ==
  ASSUME NEW a, NEW c, NEW d, NEW e, NEW f, NEW g
  PROVE  /\ Listed(<<>>) /\ Listed(<<a, c>>) /\ Listed(<<a, c, d>>) /\ Listed(<<a, c, d, e>>)
         /\ Listed(<<a, c, d, e, f, g>>)
<1>1. /\ <<>> \in Seq({}) /\ <<a, c>> \in Seq({a, c}) /\ <<a, c, d>> \in Seq({a, c, d})
      /\ <<a, c, d, e>> \in Seq({a, c, d, e}) /\ <<a, c, d, e, f, g>> \in Seq({a, c, d, e, f, g})
  OBVIOUS
<1> QED BY <1>1 DEF Listed

LEMMA ProgramPath ==
  ASSUME NEW prog, Listed(prog), NEW m \in {"idle", "off"}
  PROVE  Path(WriteProgram(prog), m, m)
<1> DEFINE q == WriteProgram(prog)
           T == {Write(Progbuf(k - 1), prog[k]) : k \in 1..Len(prog)}
<1>1. Len(prog) \in Nat
  BY DEF Listed
<1>2. q \in [1..Len(prog) -> T]
  BY DEF WriteProgram
<1>3. q \in Seq(T) /\ Len(q) = Len(prog)
  BY <1>1, <1>2
<1>4. ASSUME NEW k \in 1..Len(prog) PROVE Step(q[k], m, m)
  <2>1. q[k] = Write(Progbuf(k - 1), prog[k])
    BY DEF WriteProgram
  <2> QED BY <2>1, CommandStep
<1> HIDE DEF q, T
<1>5. Path(q, m, m)
  BY <1>3, <1>4, PathSame DEF Listed
<1> QED BY <1>5 DEF q

LEMMA ValuePath ==
  ASSUME NEW m \in {"idle", "off"}, NEW v, NEW name
  PROVE  /\ Path(WriteValue(v), m, m)
         /\ Path(<< WriteSaved(1, name), WriteSaved(2, name) >>, m, m)
         /\ \A to \in {"s0", "s1", "buffer", "csr"} : Path(ReadValue(to), m, m)
<1>1. Path(WriteValue(v), m, m)
  BY DataStep, PathTwo DEF WriteValue
<1>2. Path(<< WriteSaved(1, name), WriteSaved(2, name) >>, m, m)
  BY DataStep, PathTwo
<1>3. ASSUME NEW to \in {"s0", "s1", "buffer", "csr"} PROVE Path(ReadValue(to), m, m)
  BY DataStep, PathTwo DEF ReadValue
<1> QED BY <1>1, <1>2, <1>3

LEMMA CommandPath ==
  ASSUME NEW prog, Listed(prog), NEW m \in {"idle", "off"}, NEW before, Path(before, m, m),
         NEW command, NEW after, Path(after, "idle", "idle")
  PROVE  Path(RunCommand(prog, before, command, after), m, "idle")
<1>1. Path(WriteProgram(prog), m, m)
  BY ProgramPath
<1>2. Path(WriteProgram(prog) \o before, m, m)
  BY <1>1, PathConcat
<1>3. Path(<< Write(Reg("command"), command), WaitNotBusy >>, m, "idle")
  BY CommandStep, PathTwo
<1>4. Path(WriteProgram(prog) \o before \o << Write(Reg("command"), command), WaitNotBusy >>, m, "idle")
  BY <1>2, <1>3, PathConcat
<1>5. Path(WriteProgram(prog) \o before \o << Write(Reg("command"), command), WaitNotBusy >> \o after, m, "idle")
  BY <1>4, PathConcat
<1>6. Path(<<Die>>, "idle", "idle")
  BY CommandStep, PathOne
<1> QED BY <1>5, <1>6, PathConcat DEF RunCommand

LEMMA SavePath ==
  ASSUME NEW regno \in {"s0", "s1"}, NEW m \in {"idle", "off"}
  PROVE  Path(save_reg(regno), "idle", "idle") /\ Path(restore_reg(regno), m, "idle")
<1>1. /\ Path(<<>>, "idle", "idle") /\ Listed(<<>>) /\ Path(ReadValue(regno), "idle", "idle")
      /\ Path(<< WriteSaved(1, regno), WriteSaved(2, regno) >>, m, m)
  BY PathEmpty, ListedTuples, ValuePath
<1>2. Path(save_reg(regno), "idle", "idle")
  BY <1>1, CommandPath DEF save_reg
<1>3. Path(restore_reg(regno), m, "idle")
  BY <1>1, CommandPath DEF restore_reg
<1> QED BY <1>2, <1>3

LEMMA HaltPath ==
  ASSUME NEW hart, NEW running
  PROVE  Path(halt(hart, running), "idle", "idle") /\ Path(resume(hart, running), "idle", "idle")
<1>1. Path(Deselect(running), "idle", "idle")
  <2>1. Path(<< WriteControl(Control), ReadStatus >>, "idle", "idle")
    BY ControlStep, LooksStep, PathTwo
  <2> QED BY <2>1, PathEmpty DEF Deselect
<1>2. /\ Step(WriteControl([Control EXCEPT !.haltreq = TRUE, !.hartsel = hart]), "idle", "idle")
      /\ Step(Read(Reg("dmstatus"), "poll_halted"), "idle", "idle")
      /\ Step(WriteControl([Control EXCEPT !.hartsel = hart]), "idle", "idle")
      /\ Step(WriteControl([Control EXCEPT !.hartsel = hart]), "acked", "idle")
      /\ Step(Settled(hart), "idle", "idle")
      /\ Step(WriteControl([Control EXCEPT !.resumereq = TRUE, !.hartsel = hart]), "idle", "asked")
      /\ Step(Read(Reg("dmstatus"), "poll_resumed"), "asked", "acked")
  BY ControlStep, LooksStep
<1>3. Path(<< WriteControl([Control EXCEPT !.haltreq = TRUE, !.hartsel = hart]),
              Read(Reg("dmstatus"), "poll_halted"),
              WriteControl([Control EXCEPT !.hartsel = hart]), Settled(hart) >>, "idle", "idle")
  BY <1>2, PathFour
<1>4. Path(<< WriteControl([Control EXCEPT !.resumereq = TRUE, !.hartsel = hart]),
              Read(Reg("dmstatus"), "poll_resumed"),
              WriteControl([Control EXCEPT !.hartsel = hart]), Settled(hart) >>, "idle", "idle")
  BY <1>2, PathFour
<1>5. Path(halt(hart, running), "idle", "idle")
  BY <1>1, <1>3, PathConcat DEF halt
<1>6. Path(resume(hart, running), "idle", "idle")
  BY <1>1, <1>4, PathConcat DEF resume
<1> QED BY <1>5, <1>6

LEMMA SavedPath ==
  ASSUME NEW hart, NEW running, NEW body, NEW m \in {"idle", "off"}, Path(body, "idle", m)
  PROVE  Path(Saved(hart, running, body), "idle", "idle")
<1>1. /\ Path(halt(hart, running), "idle", "idle") /\ Path(resume(hart, running), "idle", "idle")
      /\ Path(save_reg("s0"), "idle", "idle") /\ Path(save_reg("s1"), "idle", "idle")
      /\ Path(restore_reg("s0"), m, "idle") /\ Path(restore_reg("s1"), "idle", "idle")
  BY HaltPath, SavePath
<1>2. Path(halt(hart, running) \o save_reg("s0"), "idle", "idle")
  BY <1>1, PathConcat
<1>3. Path(halt(hart, running) \o save_reg("s0") \o save_reg("s1"), "idle", "idle")
  BY <1>1, <1>2, PathConcat
<1>4. Path(halt(hart, running) \o save_reg("s0") \o save_reg("s1") \o body, "idle", m)
  BY <1>3, PathConcat
<1>5. Path(halt(hart, running) \o save_reg("s0") \o save_reg("s1") \o body \o restore_reg("s0"), "idle", "idle")
  BY <1>1, <1>4, PathConcat
<1>6. Path(halt(hart, running) \o save_reg("s0") \o save_reg("s1") \o body \o restore_reg("s0")
             \o restore_reg("s1"), "idle", "idle")
  BY <1>1, <1>5, PathConcat
<1> QED BY <1>1, <1>6, PathConcat DEF Saved

LEMMA ChunkPath ==
  ASSUME NEW hart, NEW taddr, NEW len, NEW values
  PROVE  /\ Path(read_chunk(hart, taddr, len), "idle", "idle")
         /\ Path(write_chunk(hart, taddr, values), "idle", "idle")
         /\ Path(clear_chunk(hart, taddr, len), "idle", "idle")
<1>1. ASSUME NEW v PROVE Path(WriteValue(v), "idle", "idle")
  BY ValuePath
<1>2. Path(<<>>, "idle", "idle") /\ Listed(<<>>)
  BY PathEmpty, ListedTuples
<1>3. ASSUME NEW prog, Listed(prog), NEW v, NEW command
      PROVE  Path(RunCommand(prog, WriteValue(v), command, <<>>), "idle", "idle")
  BY <1>1, <1>2, <1>3, CommandPath
<1>4. ASSUME NEW a, NEW c, NEW d, NEW e PROVE Listed(<<a, c, d>>) /\ Listed(<<a, c, d, e>>)
  BY ListedTuples
<1>5. Path(read_chunk(hart, taddr, len), "idle", "idle")
  <2> DEFINE p == RunCommand(<< <<"load", "s1", "s0">>, <<"addi", "s0", 2>>, <<"ebreak">> >>,
               WriteValue(Address(taddr)), Command("s0", TRUE, TRUE), <<>>)
  <2>1. Path(p, "idle", "idle")
    BY <1>3, <1>4
  <2>2. read_chunk(hart, taddr, len) = Saved(hart, TRUE, p \o Loop("read", 1, len, <<>>))
    BY DEF read_chunk
  <2> HIDE DEF p
  <2>3. Path(p \o Loop("read", 1, len, <<>>), "idle", "idle")
    BY <2>1, PseudoStep, PathConcat
  <2> QED BY <2>2, <2>3, SavedPath
<1>6. Path(write_chunk(hart, taddr, values), "idle", "idle")
  <2> DEFINE p == RunCommand(<< <<"store", "s1", "s0">>, <<"addi", "s0", 2>>, <<"ebreak">> >>,
               WriteValue(Address(taddr)), Command("s0", TRUE, FALSE), <<>>)
             q == RunCommand(<<>>, WriteValue(values[1]), Command("s1", TRUE, TRUE), <<>>)
             more == AutoExecData({0}) \o Loop("write", 2, Len(values), values) \o AutoExecData({})
             last == IF Len(values) = 1 THEN <<>> ELSE more
  <2>1. Path(p, "idle", "idle") /\ Path(q, "idle", "idle")
    BY <1>2, <1>3, <1>4
  <2>2. write_chunk(hart, taddr, values) = Saved(hart, TRUE, p \o q \o last)
    BY DEF write_chunk
  <2>3. Path(more, "idle", "off")
    <3>1. Path(AutoExecData({0}) \o Loop("write", 2, Len(values), values), "idle", "running")
      BY AutoPath, PseudoStep, PathConcat
    <3> QED BY <3>1, AutoPath, PathConcat
  <2>4. \E m \in {"idle", "off"} : Path(last, "idle", m)
    <3> HIDE DEF more
    <3>1. last = <<>> \/ last = more
      OBVIOUS
    <3> HIDE DEF last
    <3> QED BY <1>2, <2>3, <3>1
  <2> HIDE DEF p, q, last, more
  <2>5. PICK m \in {"idle", "off"} : Path(last, "idle", m)
    BY <2>4
  <2>6. Path(p \o q, "idle", "idle")
    BY <2>1, PathConcat
  <2>7. Path(p \o q \o last, "idle", m)
    BY <2>5, <2>6, PathConcat
  <2> QED BY <2>2, <2>7, SavedPath
<1>7. Path(clear_chunk(hart, taddr, len), "idle", "idle")
  <2> DEFINE p == RunCommand(<<>>, WriteValue(Address(taddr)), Command("s0", TRUE, FALSE), <<>>)
             q == RunCommand(<< <<"store", "x0", "s0">>, <<"addi", "s0", 2>>, <<"bne", 1>>, <<"ebreak">> >>,
                  WriteValue(Address(taddr + 2 * len)), Command("s1", TRUE, TRUE), <<>>)
  <2>1. Path(p, "idle", "idle") /\ Path(q, "idle", "idle")
    BY <1>2, <1>3, <1>4
  <2>2. clear_chunk(hart, taddr, len) = Saved(hart, TRUE, p \o q)
    BY DEF clear_chunk
  <2> HIDE DEF p, q
  <2>3. Path(p \o q, "idle", "idle")
    BY <2>1, PathConcat
  <2> QED BY <2>2, <2>3, SavedPath
<1> QED BY <1>5, <1>6, <1>7

LEMMA ResetPath ==
  ASSUME NEW hart, NEW which, NEW v, NEW type
  PROVE  /\ Path(modify_csr(hart, which, v, type), "idle", "idle")
         /\ Path(ResetHart(hart), "idle", "idle") /\ Path(dtm_reset(hart), "idle", "idle")
<1>1. Path(<<>>, "idle", "idle")
  BY PathEmpty
<1>2. ASSUME NEW w, NEW u, NEW x PROVE Path(modify_csr(hart, w, u, x), "idle", "idle")
  <2> DEFINE prog == << <<"csrrx", "s0", "dscratch0", "WRITE">>, <<"ld", "s0">>, <<"csrrx", "s0", w, x>>,
                     <<"sd", "s0">>, <<"csrrx", "s0", "dscratch0", "WRITE">>, <<"ebreak">> >>
             p == RunCommand(prog, WriteValue(u), Command("x0", TRUE, TRUE), <<>>)
  <2>1. Listed(prog)
    BY ListedTuples
  <2>2. modify_csr(hart, w, u, x) = halt(hart, TRUE) \o p \o ReadValue("csr") \o resume(hart, TRUE)
    BY DEF modify_csr
  <2> HIDE DEF prog
  <2>3. Path(p, "idle", "idle")
    BY <1>1, <2>1, ValuePath, CommandPath
  <2> HIDE DEF p
  <2>4. Path(halt(hart, TRUE) \o p, "idle", "idle")
    BY <2>3, HaltPath, PathConcat
  <2>5. Path(halt(hart, TRUE) \o p \o ReadValue("csr"), "idle", "idle")
    BY <2>4, ValuePath, PathConcat
  <2> QED BY <2>2, <2>5, HaltPath, PathConcat
<1>3. Path(fence_i(hart), "idle", "idle")
  <2> DEFINE prog == << <<"fence_i">>, <<"ebreak">> >>
             p == RunCommand(prog, <<>>, Command("x0", TRUE, TRUE), <<>>)
  <2>1. Listed(prog)
    BY ListedTuples
  <2>2. fence_i(hart) = halt(hart, TRUE) \o p \o resume(hart, TRUE)
    BY DEF fence_i
  <2> HIDE DEF prog
  <2>3. Path(p, "idle", "idle")
    BY <1>1, <2>1, CommandPath
  <2> HIDE DEF p
  <2>4. Path(halt(hart, TRUE) \o p, "idle", "idle")
    BY <2>3, HaltPath, PathConcat
  <2> QED BY <2>2, <2>4, HaltPath, PathConcat
<1>4. Path(select_hart(hart) \o fence_i(hart), "idle", "idle")
  BY <1>3, SelectStep, PathConcat
<1>5. Path(ResetHart(hart), "idle", "idle")
  BY <1>2, <1>4, PathConcat DEF ResetHart
<1>6. Path(Loop("reset", 0, hart - 1, <<>>) \o select_hart(0), "idle", "idle")
  BY PseudoStep, SelectStep, PathConcat
<1>7. Path(<< ReadStatus >>, "idle", "idle")
  BY LooksStep, PathOne
<1>8. Path(dtm_reset(hart), "idle", "idle")
  BY <1>6, <1>7, PathConcat DEF dtm_reset
<1> QED BY <1>2, <1>5, <1>8

LEMMA ProbePath ==
  ASSUME NEW hart
  PROVE  Path(Probe(hart), "idle", "idle")
<1> DEFINE e == [op |-> "read", a |-> Reg("dmstatus"), do |-> "probe", hart |-> hart]
<1>1. Step(e, "idle", "idle")
  BY LooksStep
<1>2. Probe(hart) = select_hart(hart) \o <<e>>
  BY DEF Probe
<1> HIDE DEF e
<1> QED BY <1>1, <1>2, SelectStep, PathOne, PathConcat

LEMMA TryPath ==
  ASSUME NEW size
  PROVE  Path(Try(size), "idle", "idle")
BY CommandStep, PathTwo DEF Try

LEMMA NarrowerPath ==
  ASSUME NEW xlen
  PROVE  Path(Narrower(xlen), "idle", "idle")
<1>1. Path(<<>>, "idle", "idle") /\ Path(ClearError, "idle", "idle")
  BY CommandStep, PathEmpty, PathOne DEF ClearError
<1>2. ASSUME NEW size, NEW w PROVE Path(ClearError \o Try(size) \o Known(w), "idle", "idle")
  <2>1. Path(ClearError \o Try(size), "idle", "idle")
    BY <1>1, TryPath, PathConcat
  <2> QED BY <2>1, KnownPath, PathConcat
<1> QED BY <1>1, <1>2 DEF Narrower

LEMMA ProducerPath == Path(producer_thread, "idle", "idle")
<1>1. Path(<< WriteControl(Control), Read(Reg("dmcontrol"), "poll_active"),
              Read(Reg("abstractcs"), "nothing"), Read(Reg("hartinfo"), "nothing") >>, "idle", "idle")
  BY ControlStep, LooksStep, PathFour
<1>2. Path(enumerate_harts, "idle", "idle")
  <2> DEFINE first == << Read(Reg("dmcontrol"), "control"), Selecting(MaxHartsel, "nothing"),
                        ReadStatus, Read(Reg("dmcontrol"), "max_hart") >>
  <2>1. Step(Read(Reg("dmcontrol"), "control"), "idle", "idle")
    BY DEF Step
  <2>2. Step(Selecting(MaxHartsel, "nothing"), "idle", "idle")
    BY SelectStep DEF Selecting
  <2>3. Step(ReadStatus, "idle", "idle") /\ Step(Read(Reg("dmcontrol"), "max_hart"), "idle", "idle")
    BY LooksStep
  <2>4. Path(first, "idle", "idle")
    BY <2>1, <2>2, <2>3, PathFour
  <2>5. enumerate_harts = first \o Probe(0)
    BY DEF enumerate_harts, Selecting
  <2> HIDE DEF first
  <2> QED BY <2>4, <2>5, ProbePath, PathConcat
<1>3. Path(get_xlen, "idle", "idle")
  BY TryPath, KnownPath, PathConcat DEF get_xlen
<1>4. Path(<< [op |-> "running", do |-> "nothing"] >>, "idle", "idle")
  BY KnownPath
<1> DEFINE first == << WriteControl(Control), Read(Reg("dmcontrol"), "poll_active"),
              Read(Reg("abstractcs"), "nothing"), Read(Reg("hartinfo"), "nothing") >>
           last == << [op |-> "running", do |-> "nothing"] >>
<1>5. producer_thread = first \o enumerate_harts \o halt(0, FALSE) \o get_xlen \o resume(0, FALSE) \o last
  BY DEF producer_thread
<1>6. Path(first, "idle", "idle") /\ Path(last, "idle", "idle")
  BY <1>1, <1>4
<1> HIDE DEF first, last
<1>7. Path(first \o enumerate_harts, "idle", "idle")
  BY <1>2, <1>6, PathConcat
<1>8. Path(first \o enumerate_harts \o halt(0, FALSE), "idle", "idle")
  BY <1>7, HaltPath, PathConcat
<1>9. Path(first \o enumerate_harts \o halt(0, FALSE) \o get_xlen, "idle", "idle")
  BY <1>3, <1>8, PathConcat
<1>10. Path(first \o enumerate_harts \o halt(0, FALSE) \o get_xlen \o resume(0, FALSE), "idle", "idle")
  BY <1>9, HaltPath, PathConcat
<1> QED BY <1>5, <1>6, <1>10, PathConcat

LEMMA KindShape ==
  ASSUME NEW e
  PROVE  /\ Looks(e) => e.op = "read" /\ e.do \in {"nothing", "poll_active", "poll_halted", "max_hart", "current", "probe"}
         /\ Moves(e) => e.op \in {"read", "write"} /\ e.do \in {"nothing", "low", "s0", "s1", "buffer", "csr"}
         /\ Selects(e) => e.op = "write" /\ e.do \in {"select", "nothing"}
         /\ \A on : <<e>> = AutoExecData(on) => e.op = "write" /\ e.do = "nothing"
         /\ Pseudo(e) => e.op \in {"running", "width"} /\ e.do = "nothing"
         /\ \A body : Loops(e, body) => e.op = "loop" /\ e.do = "nothing"
<1>1. Looks(e) => e.op = "read" /\ e.do \in {"nothing", "poll_active", "poll_halted", "max_hart", "current", "probe"}
  BY DEF Looks, Read, Settled
<1>2. Moves(e) => e.op \in {"read", "write"} /\ e.do \in {"nothing", "low", "s0", "s1", "buffer", "csr"}
  BY DEF Moves, Read, Write, WriteSaved
<1>3. Selects(e) => e.op = "write" /\ e.do \in {"select", "nothing"}
  BY DEF Selects, Selecting
<1>4. ASSUME NEW on, <<e>> = AutoExecData(on) PROVE e.op = "write" /\ e.do = "nothing"
  BY <1>4 DEF AutoExecData, Write
<1>5. Pseudo(e) => e.op \in {"running", "width"} /\ e.do = "nothing"
  BY DEF Pseudo, Known
<1>6. ASSUME NEW body, Loops(e, body) PROVE e.op = "loop" /\ e.do = "nothing"
  BY <1>6 DEF Loops, Loop
<1> QED BY <1>1, <1>2, <1>3, <1>4, <1>5, <1>6

LEMMA StepShape ==
  ASSUME NEW e, NEW m, NEW n, Step(e, m, n)
  PROVE  /\ e.op \in {"running", "width"} => m = "idle" /\ n = "idle"
         /\ e.do = "died" => n = m
         /\ e.do = "probe" => n = "idle"
<1>1. e.op \in {"running", "width"} => m = "idle" /\ n = "idle"
  BY KindShape DEF Step, Read, Write, WriteControl, WaitNotBusy, Die
<1>2. e.do = "died" => n = m
  BY KindShape DEF Step, Read, Write, WriteControl, WaitNotBusy, Die
<1>3. e.do = "probe" => n = "idle"
  BY KindShape DEF Step, Read, Write, WriteControl, WaitNotBusy, Die
<1> QED BY <1>1, <1>2, <1>3

\* what a loop puts in front of the script
LEMMA AutoWritePath ==
  ASSUME NEW v
  PROVE  Path(AutoWrite(v), "running", "running")
BY DataStep, CommandStep, PathFour DEF AutoWrite

LEMMA ReadElementPath ==
  ASSUME NEW k, NEW len
  PROVE  Path(ReadElement(k, len), "idle", "idle")
BY ListedTuples, PathEmpty, ValuePath, CommandPath DEF ReadElement

LEMMA LoopStep ==
  ASSUME NEW e, NEW m, NEW n, Step(e, m, n), e.op = "loop"
  PROVE  /\ n = m
         /\ Path(Element(e) \o Loop(e.body, e.k + 1, e.last, e.values), m, m)
<1>1. \/ Loops(e, "write") /\ m = "running" /\ n = m
      \/ (Loops(e, "read") \/ Loops(e, "reset")) /\ m = "idle" /\ n = m
  BY KindShape DEF Step, Read, Write, WriteControl, WaitNotBusy, Die
<1>2. ASSUME NEW body, Loops(e, body)
      PROVE  e.body = body
  BY <1>2 DEF Loops, Loop
<1>3. ASSUME Loops(e, "write")
      PROVE  /\ Path(Element(e), "running", "running")
             /\ Path(Loop(e.body, e.k + 1, e.last, e.values), "running", "running")
  <2>1. e.body = "write"
    BY <1>2, <1>3
  <2> QED BY <2>1, AutoWritePath, PseudoStep DEF Element
<1>4. ASSUME Loops(e, "read") \/ Loops(e, "reset")
      PROVE  /\ Path(Element(e), "idle", "idle")
             /\ Path(Loop(e.body, e.k + 1, e.last, e.values), "idle", "idle")
  <2>1. e.body = "read" \/ e.body = "reset"
    BY <1>2, <1>4
  <2> QED BY <2>1, ReadElementPath, ResetPath, PseudoStep DEF Element
<1> QED BY <1>1, <1>3, <1>4, PathConcat

LEMMA UnrolledPath ==
  ASSUME NEW q, NEW m, NEW n, Path(q, m, n)
  PROVE  Path(Unrolled(q), m, n)
<1>1. CASE q = <<>> \/ Head(q).op # "loop"
  BY <1>1 DEF Unrolled
<1>2. CASE q # <<>> /\ Head(q).op = "loop"
  <2>1. PICK l : Step(Head(q), m, l) /\ Path(Tail(q), l, n)
    BY <1>2, PathHead
  <2> DEFINE e == Head(q)
             body == Element(e) \o Loop(e.body, e.k + 1, e.last, e.values)
  <2>2. l = m /\ Path(body, m, m)
    BY <1>2, <2>1, LoopStep
  <2>3. Unrolled(q) = Tail(q) \/ Unrolled(q) = body \o Tail(q)
    BY <1>2 DEF Unrolled
  <2> HIDE DEF body
  <2> QED BY <2>1, <2>2, <2>3, PathConcat
<1> QED BY <1>1, <1>2

\* what the thread keeps besides its script
HostFields == {"script", "dmcontrol", "req_wait", "resp_wait"}
Wired(g) ==
  /\ HostFields \subseteq DOMAIN g
  /\ "resumereq" \in DOMAIN g.dmcontrol /\ ~g.dmcontrol.resumereq
  /\ g.req_wait \in BOOLEAN /\ g.resp_wait \in BOOLEAN

LEMMA SettlePath ==
  ASSUME NEW g, NEW m, Wired(g), Path(g.script, m, "idle")
  PROVE  /\ Path(Settle(g).script, m, "idle") /\ Wired(Settle(g))
         /\ Settle(g).req_wait = g.req_wait /\ Settle(g).resp_wait = g.resp_wait
<1>1. CASE g.script = <<>>
  BY <1>1 DEF Settle
<1>2. CASE g.script # <<>>
  <2> DEFINE e == Head(g.script)
             rest == Tail(g.script)
             Keeps(x, q) == /\ x.script = q /\ Wired(x)
                            /\ x.req_wait = g.req_wait /\ x.resp_wait = g.resp_wait
  <2>1. PICK l : Step(e, m, l) /\ Path(rest, l, "idle")
    BY <1>2, PathHead
  <2>2. ASSUME e.op \in {"running", "width"} PROVE m = "idle" /\ l = "idle"
    BY <2>1, <2>2, StepShape
  <2>3. ASSUME e.do = "died" PROVE l = m
    BY <2>1, <2>3, StepShape
  <2>4. \/ e.op = "running" /\ Keeps(Settle(g), <<>>)
        \/ e.op = "width" /\ Keeps(Settle(g), rest)
        \/ e.op = "width" /\ Keeps(Settle(g), Narrower(e.xlen) \o rest)
        \/ e.do = "died" /\ Keeps(Settle(g), Unrolled(rest))
        \/ Keeps(Settle(g), Unrolled(g.script))
    BY <1>2 DEF Settle, Wired, HostFields
  <2> HIDE DEF e, rest
  <2>5. Path(<<>>, "idle", "idle")
    BY PathEmpty
  <2>6. ASSUME e.op = "width" PROVE Path(Narrower(e.xlen) \o rest, m, "idle")
    BY <2>1, <2>2, <2>6, NarrowerPath, PathConcat
  <2>7. Path(Unrolled(g.script), m, "idle") /\ Path(Unrolled(rest), l, "idle")
    BY <2>1, UnrolledPath
  <2> QED BY <2>1, <2>2, <2>3, <2>4, <2>5, <2>6, <2>7
<1> QED BY <1>1, <1>2

----------------------------------------------------------------------------
(* What the module does with a request.                                    *)
LEMMA InModeDrifts ==
  ASSUME NEW x, NEW y, NEW m, InMode(x, m), Drifts(x, y)
  PROVE  InMode(y, m)
<1>1. Harts(y) = Harts(x)
  BY DEF Drifts, Harts
<1>2. NoFlags(x) => NoFlags(y)
  BY <1>1 DEF NoFlags, Drifts
<1>3. Asking(x) => Asking(y)
  BY <1>1 DEF Asking, Drifts, Steady, hart_selected
<1> QED BY <1>2, <1>3 DEF InMode, Drifts, Steady

\* a command may start
Commanded(x, y) ==
  /\ y.nprocs = x.nprocs /\ Steady(x, y)
  /\ \A i \in Harts(x) : "RESUME" \in y.flags[i] => "RESUME" \in x.flags[i]

LEMMA InModeCommanded ==
  ASSUME NEW x, NEW y, NEW m \in {"off", "running"}, InMode(x, m), Commanded(x, y), x.authenticated
  PROVE  InMode(y, m)
<1>1. Harts(y) = Harts(x)
  BY DEF Commanded, Harts
<1>2. NoFlags(y)
  BY <1>1 DEF InMode, NoFlags, Commanded
<1> QED BY <1>2 DEF InMode, Commanded, Steady

LEMMA PerformCommanded ==
  ASSUME NEW x, Shape(x)
  PROVE  Commanded(x, perform_abstract_command(x))
<1> DEFINE y == perform_abstract_command(x)
<1>1. \/ y = x \/ \E e : y = [x EXCEPT !.cmderr = e] \/ y = CustomTransfer(x, x.command)
      \/ \E code : y = Issue(x, code)
  BY DEF perform_abstract_command
<1>2. ASSUME NEW e PROVE Commanded(x, [x EXCEPT !.cmderr = e])
  BY DEF Commanded, Steady, Shape, Tracked
<1>3. Commanded(x, CustomTransfer(x, x.command)) /\ Commanded(x, x)
  BY DEF Commanded, Steady, Shape, Tracked, CustomTransfer
<1>4. ASSUME NEW code PROVE Commanded(x, Issue(x, code))
  <2> DEFINE z == Issue(x, code)
  <2>1. z.nprocs = x.nprocs /\ Steady(x, z) /\ z.flags = [x.flags EXCEPT ![x.hartsel] = @ \union {"GO"}]
    BY DEF Issue, Steady, Shape, Tracked
  <2> HIDE DEF z
  <2>2. \A i \in Harts(x) : "RESUME" \in z.flags[i] => "RESUME" \in x.flags[i]
    BY <2>1 DEF Shape
  <2>3. Commanded(x, z)
    BY <2>1, <2>2 DEF Commanded
  <2> QED BY <2>3 DEF z
<1> HIDE DEF y
<1>5. Commanded(x, y)
  BY <1>1, <1>2, <1>3, <1>4
<1> QED BY <1>5 DEF y

\* what is written without a command changes nothing that is asked
Plain(x, y) == Same(x, y) /\ Drifts(x, y)

LEMMA PlainKeeps ==
  ASSUME NEW x, NEW y, NEW m, Plain(x, y), Safe(x), InMode(x, m)
  PROVE  Safe(y) /\ InMode(y, m)
BY SameSafe, InModeDrifts DEF Plain

LEMMA PlainWrites ==
  ASSUME NEW x, NEW v, NEW i, Safe(x)
  PROVE  /\ Plain(x, x) /\ Plain(x, [x EXCEPT !.cmderr = v]) /\ Plain(x, [x EXCEPT !.command = v])
         /\ Plain(x, BusyError(x)) /\ Plain(x, BusyError(IF x.busy THEN x ELSE [x EXCEPT !.dmdata[i + 1] = v]))
         /\ Plain(x, WriteProgbuf(x, i, v))
<1>1. Tracked \subseteq DOMAIN x /\ x.autoexecprogbuf = {}
  BY DEF Safe, Shape
<1>2. /\ Plain(x, x) /\ Plain(x, [x EXCEPT !.cmderr = v]) /\ Plain(x, [x EXCEPT !.command = v])
      /\ Plain(x, [x EXCEPT !.dmdata[i + 1] = v])
  BY <1>1 DEF Plain, Same, Drifts, Steady, Tracked
<1>3. Plain(x, BusyError(x))
  BY <1>1 DEF Plain, Same, Drifts, Steady, Tracked, BusyError
<1>4. Plain(x, BusyError(IF x.busy THEN x ELSE [x EXCEPT !.dmdata[i + 1] = v]))
  <2>1. x.busy => BusyError(IF x.busy THEN x ELSE [x EXCEPT !.dmdata[i + 1] = v]) = BusyError(x)
    OBVIOUS
  <2>2. ~x.busy => BusyError(IF x.busy THEN x ELSE [x EXCEPT !.dmdata[i + 1] = v]) = [x EXCEPT !.dmdata[i + 1] = v]
    BY <1>1 DEF BusyError, Tracked
  <2> QED BY <1>2, <1>3, <2>1, <2>2
<1>5. Plain(x, WriteProgbuf(x, i, v))
  BY <1>1 DEF Plain, Same, Drifts, Steady, Tracked, WriteProgbuf, AutoExec
<1> QED BY <1>2, <1>3, <1>4, <1>5

LEMMA DataKeeps ==
  ASSUME NEW x, NEW m \in {"idle", "off", "running"}, NEW i, NEW v, Safe(x), InMode(x, m)
  PROVE  /\ Safe(ReadData(x, i).s) /\ InMode(ReadData(x, i).s, m)
         /\ Safe(WriteData(x, i, v)) /\ InMode(WriteData(x, i, v), m)
<1>1. NoFlags(x) /\ NoResume(x)
  BY DEF InMode, NoFlags, NoResume
<1>2. Safe(ReadData(x, i).s) /\ Safe(WriteData(x, i, v))
  BY <1>1, DataSafe
<1>3. ASSUME NEW y, Plain(x, y) PROVE InMode(AutoExec(y, i \in x.autoexecdata), m)
  <2>1. Safe(y) /\ InMode(y, m)
    BY <1>3, PlainKeeps
  <2>2. CASE i \in x.autoexecdata /\ ~y.busy
    <3>1. m = "running" /\ x.authenticated
      BY <2>2 DEF InMode
    <3>2. y.authenticated = x.authenticated
      BY <1>3 DEF Plain, Drifts, Steady
    <3>3. Commanded(y, perform_abstract_command(y))
      BY <2>1, PerformCommanded DEF Safe
    <3>4. InMode(perform_abstract_command(y), m)
      BY <2>1, <3>1, <3>2, <3>3, InModeCommanded
    <3> QED BY <2>2, <3>4 DEF AutoExec
  <2>3. CASE ~(i \in x.autoexecdata /\ ~y.busy)
    BY <2>1, <2>3 DEF AutoExec
  <2> QED BY <2>2, <2>3
<1>4. ReadData(x, i).s = AutoExec(BusyError(x), i \in x.autoexecdata)
  BY DEF ReadData
<1>5. WriteData(x, i, v) =
        AutoExec(BusyError(IF x.busy THEN x ELSE [x EXCEPT !.dmdata[i + 1] = v]), i \in x.autoexecdata)
  BY DEF WriteData
<1> QED BY <1>2, <1>3, <1>4, <1>5, PlainWrites

LEMMA CommandKeeps ==
  ASSUME NEW x, NEW m \in {"idle", "off"}, NEW v, Safe(x), InMode(x, m), x.authenticated
  PROVE  /\ Safe(perform_abstract_command([x EXCEPT !.command = v]))
         /\ InMode(perform_abstract_command([x EXCEPT !.command = v]), "off")
<1> DEFINE y == [x EXCEPT !.command = v]
<1>1. Plain(x, y)
  BY PlainWrites
<1> HIDE DEF y
<1>2. Safe(y) /\ InMode(y, m) /\ y.authenticated
  BY <1>1, PlainKeeps DEF Plain, Drifts, Steady
<1>3. NoResume(y) /\ InMode(y, "off")
  BY <1>2 DEF InMode, NoFlags, NoResume
<1>4. Safe(perform_abstract_command(y))
  BY <1>2, <1>3, PerformSafe
<1>5. Commanded(y, perform_abstract_command(y))
  BY <1>2, PerformCommanded DEF Safe
<1>6. InMode(perform_abstract_command(y), "off")
  BY <1>2, <1>3, <1>5, InModeCommanded
<1> QED BY <1>4, <1>6 DEF y

LEMMA AutoKeeps ==
  ASSUME NEW x, NEW m, NEW n, NEW on, Safe(x), InMode(x, m), x.authenticated,
         (m = "idle" /\ n = "running") \/ (m = "running" /\ n = "off" /\ on = {})
  PROVE  /\ Safe([x EXCEPT !.autoexecdata = on, !.autoexecprogbuf = {}])
         /\ InMode([x EXCEPT !.autoexecdata = on, !.autoexecprogbuf = {}], n)
<1> DEFINE y == [x EXCEPT !.autoexecdata = on, !.autoexecprogbuf = {}]
<1>1. /\ y.nprocs = x.nprocs /\ y.flags = x.flags /\ y.busy = x.busy /\ y.resumereq = x.resumereq
      /\ y.authenticated = x.authenticated /\ y.autoexecdata = on
  BY DEF Safe, Shape, Tracked
<1>2. Safe(y)
  BY AutoSafe
<1> HIDE DEF y
<1>3. NoFlags(x)
  BY DEF InMode
<1>4. NoFlags(y)
  BY <1>1, <1>3 DEF NoFlags, Harts
<1>5. InMode(y, n)
  BY <1>1, <1>4 DEF InMode
<1> QED BY <1>2, <1>5 DEF y

\* a write of dmcontrol asks the selected harts to resume, or no hart
Asks(x, y, v) ==
  /\ y.nprocs = x.nprocs /\ Steady(x, y) /\ y.busy = x.busy /\ y.hartsel = x.hartsel
  /\ \A i \in Harts(x) : "RESUME" \in y.flags[i] =>
       "RESUME" \in x.flags[i] \/ (v.resumereq /\ i \in Selected(x))

LEMMA AskAsks ==
  ASSUME NEW x, NEW v, Shape(x)
  PROVE  /\ Asks(x, AskHarts(x, v), v) /\ Asks(x, NdmReset(AskHarts(x, v), v), v)
         /\ v.resumereq = TRUE /\ v.hartreset = FALSE /\ v.ndmreset = FALSE =>
              \A i \in Selected(x) : ~NdmReset(AskHarts(x, v), v).hart_state[i].resumeack
<1> DEFINE sel == Selected(x)
           y == [x EXCEPT
        !.hart_state = [i \in DOMAIN x.hart_state |->
           IF i \in sel
           THEN [x.hart_state[i] EXCEPT !.havereset = @ /\ ~v.ackhavereset, !.resumeack = @ /\ ~v.resumereq]
           ELSE x.hart_state[i]],
        !.core = [i \in DOMAIN @ |->
           IF i \in sel THEN [@[i] EXCEPT !.halt_request = IF v.haltreq THEN "REGULAR" ELSE "NONE"] ELSE @[i]],
        !.flags = [i \in DOMAIN @ |-> IF i \in sel /\ v.resumereq THEN @[i] \union {"RESUME"} ELSE @[i]]]
<1>1. sel \subseteq Harts(x)
  BY DEF Selected
<1> HIDE DEF sel
<1>2. /\ DOMAIN y = DOMAIN x /\ y.nprocs = x.nprocs /\ Steady(x, y) /\ y.busy = x.busy /\ y.hartsel = x.hartsel
  BY DEF Shape, Tracked, Steady
<1>3. y.flags = [i \in DOMAIN x.flags |-> IF i \in sel /\ v.resumereq THEN x.flags[i] \union {"RESUME"} ELSE x.flags[i]]
  BY DEF Shape, Tracked
<1>4. ASSUME v.resumereq = TRUE, NEW i \in sel PROVE ~y.hart_state[i].resumeack
  <2> DEFINE one == [x.hart_state[i] EXCEPT !.havereset = @ /\ ~v.ackhavereset, !.resumeack = @ /\ ~v.resumereq]
             state == [k \in DOMAIN x.hart_state |->
              IF k \in sel
              THEN [x.hart_state[k] EXCEPT !.havereset = @ /\ ~v.ackhavereset, !.resumeack = @ /\ ~v.resumereq]
              ELSE x.hart_state[k]]
  <2>1. i \in DOMAIN x.hart_state /\ HartFields \subseteq DOMAIN x.hart_state[i] /\ "hart_state" \in DOMAIN x
    BY <1>1 DEF Shape, Tracked
  <2>2. state[i] = one
    BY <1>4, <2>1
  <2>3. one.resumeack = (x.hart_state[i].resumeack /\ ~v.resumereq)
    BY <2>1 DEF HartFields
  <2>4. y.hart_state = state
    BY <2>1
  <2> HIDE DEF y, state, one
  <2> QED BY <1>4, <2>2, <2>3, <2>4
<1>5. AskHarts(x, v) = IF v.hartreset THEN proc_reset(y, sel) ELSE y
  BY DEF AskHarts, sel
<1> HIDE DEF y
<1>6. ASSUME NEW z, DOMAIN z = DOMAIN x, NEW harts
      PROVE  LET w == proc_reset(z, harts) IN
             /\ DOMAIN w = DOMAIN x /\ w.nprocs = z.nprocs /\ Steady(z, w) /\ w.busy = z.busy
             /\ w.hartsel = z.hartsel /\ w.flags = z.flags
  BY <1>6 DEF proc_reset, Shape, Tracked, Steady
<1>7. Asks(x, y, v)
  BY <1>2, <1>3 DEF Asks, Shape, sel
<1>8. ASSUME NEW z, Asks(x, z, v), DOMAIN z = DOMAIN x, NEW harts
      PROVE  Asks(x, proc_reset(z, harts), v) /\ DOMAIN proc_reset(z, harts) = DOMAIN x
  <2> DEFINE w == proc_reset(z, harts)
  <2>1. /\ DOMAIN w = DOMAIN x /\ w.nprocs = z.nprocs /\ Steady(z, w) /\ w.busy = z.busy
        /\ w.hartsel = z.hartsel /\ w.flags = z.flags
    BY <1>6, <1>8
  <2> HIDE DEF w
  <2>2. Asks(x, w, v)
    BY <1>8, <2>1 DEF Asks, Steady
  <2> QED BY <2>1, <2>2 DEF w
<1>9. Asks(x, AskHarts(x, v), v) /\ DOMAIN AskHarts(x, v) = DOMAIN x
  BY <1>2, <1>5, <1>7, <1>8
<1>10. Asks(x, NdmReset(AskHarts(x, v), v), v)
  BY <1>8, <1>9 DEF NdmReset
<1>11. v.hartreset = FALSE /\ v.ndmreset = FALSE => NdmReset(AskHarts(x, v), v) = y
  BY <1>5 DEF NdmReset
<1> QED BY <1>4, <1>9, <1>10, <1>11 DEF sel

LEMMA ControlKeeps ==
  ASSUME NEW x, NEW v, NEW ch, NEW m \in {"idle", "acked"}, Safe(x), InMode(x, m)
  PROVE  /\ Safe(WriteDmcontrol(x, v, ch))
         /\ ~v.resumereq /\ (v.dmactive = TRUE \/ m = "idle") => InMode(WriteDmcontrol(x, v, ch), "idle")
         /\ m = "idle" /\ v.dmactive = TRUE /\ v.resumereq = TRUE /\ v.hartreset = FALSE /\ v.ndmreset = FALSE
              => InMode(WriteDmcontrol(x, v, ch), "asked")
<1> DEFINE base == IF ~x.dmactive /\ v.dmactive THEN reset(x, ch) ELSE x
           active == [base EXCEPT !.dmactive = v.dmactive]
           taken == [active EXCEPT
                  !.haltreq = v.haltreq, !.resumereq = v.resumereq,
                  !.hartreset = v.hartreset, !.ndmreset = v.ndmreset,
                  !.hasel = x.config.support_hasel /\ v.hasel,
                  !.hartsel = v.hartsel % 2^field_width(x.nprocs)]
           z == NdmReset(AskHarts(taken, v), v)
<1>1. AtRest(x) /\ ~x.busy /\ NoFlags(x) /\ x.autoexecdata = {} /\ Shape(x)
  <2>1. ~x.busy /\ NoFlags(x) /\ x.autoexecdata = {}
    BY DEF InMode
  <2> QED BY <2>1 DEF AtRest, Safe, HartSafe, CommandSafe
<1>2. Safe(WriteDmcontrol(x, v, ch))
  BY <1>1, DmcontrolSafe
<1>3. /\ DOMAIN base = DOMAIN x /\ base.nprocs = x.nprocs /\ base.flags = x.flags
      /\ ~base.busy /\ base.autoexecdata = {} /\ (~base.authenticated => ~base.resumereq)
      /\ (m = "idle" => ~base.resumereq)
  <2>1. CASE ~x.dmactive /\ v.dmactive
    <3>1. base = reset(x, ch)
      BY <2>1
    <3> HIDE DEF base
    <3> QED BY <1>1, <3>1 DEF reset, Shape, Tracked
  <2>2. CASE ~(~x.dmactive /\ v.dmactive)
    <3>1. base = x
      BY <2>2
    <3> HIDE DEF base
    <3> QED BY <1>1, <3>1 DEF InMode
  <2> QED BY <2>1, <2>2
<1>4. Shape(base)
  <2>1. Freed(x, x)
    BY <1>1 DEF Freed, Safe, Shape
  <2> QED BY <1>1, <2>1, ResetFreed, FreedSafe DEF Safe
<1> HIDE DEF base
<1>5. /\ DOMAIN active = DOMAIN base /\ active.nprocs = base.nprocs /\ active.flags = base.flags
      /\ active.busy = base.busy /\ active.autoexecdata = base.autoexecdata
      /\ active.authenticated = base.authenticated /\ active.resumereq = base.resumereq
      /\ active.core = base.core /\ active.hart_state = base.hart_state
  BY <1>4 DEF Shape, Tracked
<1> HIDE DEF active
<1>6. /\ DOMAIN taken = DOMAIN base /\ taken.nprocs = base.nprocs /\ taken.flags = base.flags
      /\ taken.busy = base.busy /\ taken.autoexecdata = base.autoexecdata
      /\ taken.authenticated = base.authenticated /\ taken.resumereq = v.resumereq
      /\ taken.core = base.core /\ taken.hart_state = base.hart_state
  BY <1>4, <1>5 DEF Shape, Tracked
<1>7. WriteDmcontrol(x, v, ch) = IF ~active.authenticated \/ ~v.dmactive THEN active ELSE z
  BY DEF WriteDmcontrol, active, base
<1> HIDE DEF taken
<1>8. Shape(taken) /\ Harts(taken) = Harts(x) /\ Harts(active) = Harts(x)
  BY <1>3, <1>4, <1>5, <1>6 DEF Shape, Harts
<1>9. /\ Asks(taken, z, v)
      /\ v.resumereq = TRUE /\ v.hartreset = FALSE /\ v.ndmreset = FALSE =>
              \A i \in Selected(taken) : ~z.hart_state[i].resumeack
  BY <1>8, AskAsks
<1> HIDE DEF z
<1>10. /\ ~z.busy /\ z.autoexecdata = {} /\ z.authenticated = active.authenticated /\ z.resumereq = v.resumereq
       /\ Harts(z) = Harts(x)
  BY <1>3, <1>5, <1>6, <1>8, <1>9 DEF Asks, Steady, Harts
<1>11. NoFlags(active) /\ NoFlags(taken)
  BY <1>1, <1>3, <1>5, <1>6, <1>8 DEF NoFlags
<1>12. ASSUME ~v.resumereq, v.dmactive = TRUE \/ m = "idle"
       PROVE  InMode(WriteDmcontrol(x, v, ch), "idle")
  <2>1. NoFlags(z)
    BY <1>8, <1>9, <1>10, <1>11, <1>12 DEF Asks, NoFlags
  <2>2. InMode(z, "idle")
    BY <1>10, <1>12, <2>1 DEF InMode
  <2>3. ~active.authenticated \/ ~v.dmactive => InMode(active, "idle")
    BY <1>3, <1>5, <1>11, <1>12 DEF InMode
  <2> QED BY <1>7, <2>2, <2>3
<1>13. ASSUME m = "idle", v.dmactive = TRUE, v.resumereq = TRUE, v.hartreset = FALSE, v.ndmreset = FALSE
       PROVE  InMode(WriteDmcontrol(x, v, ch), "asked")
  <2>1. \A i \in Selected(taken) : hart_selected(z, i)
    BY <1>9 DEF Selected, hart_selected, Asks, Steady
  <2>2. Asking(z)
    BY <1>8, <1>9, <1>10, <1>11, <1>13, <2>1 DEF Asks, NoFlags, Asking
  <2>3. active.authenticated => InMode(z, "asked")
    BY <1>10, <2>2 DEF InMode
  <2>4. ~active.authenticated => InMode(active, "asked")
    BY <1>3, <1>5, <1>11, <1>13 DEF InMode, NoFlags, Asking
  <2> QED BY <1>7, <1>13, <2>3, <2>4
<1> QED BY <1>2, <1>12, <1>13

(* A request, once done: the mode it ends in when the thread goes on with  *)
(* its answer v, the one it began in when the thread asks again.           *)
Completed(x, e, m, n, v) ==
  /\ Safe(x) /\ InMode(x, IF Polled(e.do, v) THEN n ELSE m)
  /\ e.do = "control" => "resumereq" \in DOMAIN v /\ ~v.resumereq
RequestOf(g, e) ==
  IF "saved" \in DOMAIN e THEN Write(e.a, (IF e.saved[1] = "s0" THEN g.s0 ELSE g.s1)[e.saved[2]])
  ELSE IF "select" \in DOMAIN e THEN WriteControl([g.dmcontrol EXCEPT !.hartsel = e.select])
  ELSE e

LEMMA CompletedSame ==
  ASSUME NEW x, NEW e, NEW m, NEW v, Safe(x), InMode(x, m), e.do # "control"
  PROVE  Completed(x, e, m, m, v)
BY DEF Completed

LEMMA PerformRead ==
  ASSUME NEW a, NEW do
  PROVE  /\ Perform(Read(a, do)) = [s |-> dmi_read(s, a).s, value |-> dmi_read(s, a).value]
         /\ RequestOf(h, Read(a, do)) = Read(a, do) /\ Read(a, do).do = do
BY DEF Perform, Read, RequestOf

LEMMA PerformWrite ==
  ASSUME NEW a, NEW v
  PROVE  /\ Perform(Write(a, v)) = [s |-> dmi_write(s, a, v, 0).s, value |-> 0]
         /\ RequestOf(h, Write(a, v)) = Write(a, v) /\ Write(a, v).do = "nothing"
BY DEF Perform, Write, RequestOf

LEMMA RegisterRead ==
  ASSUME NEW x, NEW name \in RegisterNames
  PROVE  dmi_read(x, Reg(name)).s = x /\ dmi_read(x, Reg(name)).value = RegisterValue(x, name)
BY DEF dmi_read, Reg, RegisterNames

LEMMA LooksCompleted ==
  ASSUME NEW e, NEW m, Looks(e), Safe(s), InMode(s, m)
  PROVE  LET p == Perform(RequestOf(h, e)) IN Completed(p.s, e, m, m, p.value)
<1>1. e.do # "control"
  BY KindShape
<1>2. Perform(RequestOf(h, e)).s = s
  <2>1. ASSUME NEW name \in {"dmcontrol", "dmstatus", "abstractcs", "hartinfo"}, NEW do, e = Read(Reg(name), do)
        PROVE  Perform(RequestOf(h, e)).s = s
    <3>1. dmi_read(s, Reg(name)).s = s
      BY RegisterRead DEF RegisterNames
    <3> QED BY <2>1, <3>1, PerformRead
  <2>2. ASSUME NEW hart, NEW do, e = [op |-> "read", a |-> Reg("dmstatus"), do |-> do, hart |-> hart]
        PROVE  Perform(RequestOf(h, e)).s = s
    <3>1. dmi_read(s, Reg("dmstatus")).s = s
      BY RegisterRead DEF RegisterNames
    <3>2. RequestOf(h, e) = e /\ e.op = "read" /\ e.a = Reg("dmstatus")
      BY <2>2 DEF RequestOf
    <3> QED BY <3>1, <3>2 DEF Perform
  <2> QED BY <2>1, <2>2 DEF Looks, StatusRegisters, Settled
<1> QED BY <1>1, <1>2, CompletedSame

LEMMA WriteUnauthenticated ==
  ASSUME NEW x, NEW a, NEW v, a[1] \notin {"authdata", "dmcontrol"}, a[1] \in WritableNames
  PROVE  /\ ~x.authenticated => dmi_write(x, a, v, 0).s = x
         /\ x.authenticated => dmi_write(x, a, v, 0).s = WriteRegister(x, a, v, 0)
BY DEF dmi_write

LEMMA MovesCompleted ==
  ASSUME NEW e, NEW m \in {"idle", "off", "running"}, Moves(e), Safe(s), InMode(s, m)
  PROVE  LET p == Perform(RequestOf(h, e)) IN Completed(p.s, e, m, m, p.value)
<1>1. e.do # "control"
  BY KindShape
<1>2. ASSUME NEW i, NEW v
      PROVE  Safe(Perform(Write(Data(i), v)).s) /\ InMode(Perform(Write(Data(i), v)).s, m)
  <2>1. dmi_write(s, Data(i), v, 0).s = s \/ dmi_write(s, Data(i), v, 0).s = WriteData(s, i, v)
    BY DmiWrites, WordWrites
  <2>2. Safe(WriteData(s, i, v)) /\ InMode(WriteData(s, i, v), m)
    BY DataKeeps
  <2>3. Perform(Write(Data(i), v)).s = dmi_write(s, Data(i), v, 0).s
    BY PerformWrite
  <2> QED BY <2>1, <2>2, <2>3
<1>3. ASSUME NEW i, NEW do, e = Read(Data(i), do)
      PROVE  Safe(Perform(RequestOf(h, e)).s) /\ InMode(Perform(RequestOf(h, e)).s, m)
  <2>1. dmi_read(s, Data(i)).s = ReadData(s, i).s
    BY DEF dmi_read, Data, RegisterNames
  <2>2. Safe(ReadData(s, i).s) /\ InMode(ReadData(s, i).s, m)
    BY DataKeeps
  <2> QED BY <1>3, <2>1, <2>2, PerformRead
<1>4. ASSUME NEW i, NEW name, e = WriteSaved(i, name)
      PROVE  \E v : RequestOf(h, e) = Write(Data(i - 1), v)
  <2>1. "saved" \in DOMAIN e /\ e.a = Data(i - 1)
    BY <1>4 DEF WriteSaved
  <2> QED BY <2>1 DEF RequestOf
<1>5. Safe(Perform(RequestOf(h, e)).s) /\ InMode(Perform(RequestOf(h, e)).s, m)
  BY <1>2, <1>3, <1>4, PerformWrite DEF Moves
<1> QED BY <1>1, <1>5, CompletedSame

LEMMA ControlCompleted ==
  ASSUME NEW v, NEW m \in {"idle", "acked"}, NEW n, Safe(s), InMode(s, m),
         \/ n = "idle" /\ ~v.resumereq /\ (v.dmactive = TRUE \/ m = "idle")
         \/ /\ n = "asked" /\ m = "idle" /\ v.dmactive = TRUE /\ v.resumereq = TRUE
            /\ v.hartreset = FALSE /\ v.ndmreset = FALSE
  PROVE  Safe(Perform(WriteControl(v)).s) /\ InMode(Perform(WriteControl(v)).s, n)
<1>1. Perform(WriteControl(v)) = [s |-> dmi_write(s, Reg("dmcontrol"), v, 0).s, value |-> 0]
  BY PerformWrite DEF WriteControl
<1>2. dmi_write(s, Reg("dmcontrol"), v, 0).s = WriteDmcontrol(s, v, 0)
  <2>1. Reg("dmcontrol")[1] = "dmcontrol"
    BY DEF Reg
  <2>2. dmi_write(s, Reg("dmcontrol"), v, 0).s = WriteRegister(s, Reg("dmcontrol"), v, 0)
    BY <2>1 DEF dmi_write, WritableNames
  <2> QED BY <2>2, ControlWrites
<1>3. Safe(WriteDmcontrol(s, v, 0)) /\ InMode(WriteDmcontrol(s, v, 0), n)
  BY ControlKeeps
<1> QED BY <1>1, <1>2, <1>3

LEMMA CompletedPlain ==
  ASSUME NEW x, NEW e, NEW m, NEW n, NEW v, Safe(x), InMode(x, n), e.do \in {"nothing", "died", "select"}
  PROVE  Completed(x, e, m, n, v)
BY DEF Completed, Polled

\* the polls and the read of dmcontrol
LEMMA PollsCompleted ==
  ASSUME NEW e, NEW m, NEW n, Safe(s), InMode(s, m),
         \/ e = Read(Reg("dmcontrol"), "control") /\ m = "idle" /\ n = m
         \/ e = Read(Reg("dmstatus"), "poll_resumed") /\ m = "asked" /\ n = "acked"
         \/ e = WaitNotBusy /\ m \in {"idle", "off"} /\ n = "idle"
         \/ e = WaitNotBusy /\ m = "running" /\ n = m
  PROVE  LET p == Perform(RequestOf(h, e)) IN Completed(p.s, e, m, n, p.value)
<1>1. ASSUME NEW name \in RegisterNames, NEW do, e = Read(Reg(name), do)
      PROVE  /\ Perform(RequestOf(h, e)).s = s /\ Perform(RequestOf(h, e)).value = RegisterValue(s, name)
             /\ e.do = do
  BY <1>1, RegisterRead, PerformRead
<1>2. CASE e = Read(Reg("dmcontrol"), "control") /\ m = "idle" /\ n = m
  <2>1. /\ Perform(RequestOf(h, e)).s = s /\ Perform(RequestOf(h, e)).value = dmcontrol(s)
        /\ e.do = "control"
    BY <1>1, <1>2 DEF RegisterNames, RegisterValue
  <2>2. "resumereq" \in DOMAIN dmcontrol(s) /\ ~dmcontrol(s).resumereq
    BY <1>2 DEF dmcontrol, InMode
  <2> QED BY <1>2, <2>1, <2>2 DEF Completed
<1>3. CASE e = Read(Reg("dmstatus"), "poll_resumed") /\ m = "asked" /\ n = "acked"
  <2>1. /\ Perform(RequestOf(h, e)).s = s /\ Perform(RequestOf(h, e)).value = dmstatus(s)
        /\ e.do = "poll_resumed"
    BY <1>1, <1>3 DEF RegisterNames, RegisterValue
  <2>2. ASSUME dmstatus(s).allresumeack PROVE InMode(s, "acked")
    <3>1. \A i \in Selected(s) : s.hart_state[i].resumeack
      BY <2>2 DEF dmstatus
    <3>2. NoFlags(s)
      BY <1>3, <3>1 DEF InMode, Asking, NoFlags, Selected
    <3> QED BY <1>3, <3>2 DEF InMode
  <2>3. Polled(e.do, dmstatus(s)) = dmstatus(s).allresumeack
    BY <2>1 DEF Polled
  <2> QED BY <1>3, <2>1, <2>2, <2>3 DEF Completed
<1>4. CASE e = WaitNotBusy /\ ((m \in {"idle", "off"} /\ n = "idle") \/ (m = "running" /\ n = m))
  <2>1. /\ Perform(RequestOf(h, e)).s = s /\ Perform(RequestOf(h, e)).value = RegisterValue(s, "abstractcs")
        /\ e.do = "poll_busy"
    BY <1>1, <1>4 DEF RegisterNames, WaitNotBusy
  <2>2. RegisterValue(s, "abstractcs").busy = s.busy
    BY DEF RegisterValue
  <2>3. Polled(e.do, RegisterValue(s, "abstractcs")) = ~s.busy
    BY <2>1, <2>2 DEF Polled
  <2>4. ~s.busy => InMode(s, n)
    BY <1>4 DEF InMode
  <2> QED BY <1>4, <2>1, <2>3, <2>4 DEF Completed
<1> QED BY <1>2, <1>3, <1>4

\* the writes
LEMMA WritesCompleted ==
  ASSUME NEW e, NEW m, NEW n, Safe(s), InMode(s, m),
         \/ (\E i, v : e = Write(Progbuf(i), v)) /\ m \in {"idle", "off"} /\ n = m
         \/ (\E v : e = Write(Reg("command"), v)) /\ m \in {"idle", "off"} /\ n = "off"
         \/ (e = Die \/ e = Write(Reg("abstractcs"), 7)) /\ n = m
         \/ (\E on : <<e>> = AutoExecData(on)) /\ m = "idle" /\ n = "running"
         \/ <<e>> = AutoExecData({}) /\ m = "running" /\ n = "off"
  PROVE  LET p == Perform(RequestOf(h, e)) IN Completed(p.s, e, m, n, p.value)
<1> DEFINE p == Perform(RequestOf(h, e))
<1>1. SUFFICES Safe(p.s) /\ InMode(p.s, n) /\ e.do \in {"nothing", "died", "select"}
  BY CompletedPlain
<1>2. ASSUME NEW a, NEW v, e = Write(a, v) PROVE p.s = dmi_write(s, a, v, 0).s /\ e.do = "nothing"
  BY <1>2, PerformWrite
<1>3. ASSUME NEW i, NEW v, e = Write(Progbuf(i), v), n = m
      PROVE  Safe(p.s) /\ InMode(p.s, n) /\ e.do = "nothing"
  <2>1. p.s = dmi_write(s, Progbuf(i), v, 0).s /\ e.do = "nothing"
    BY <1>2, <1>3
  <2>2. dmi_write(s, Progbuf(i), v, 0).s = s \/ dmi_write(s, Progbuf(i), v, 0).s = WriteProgbuf(s, i, v)
    BY DmiWrites, WordWrites
  <2>3. Safe(WriteProgbuf(s, i, v)) /\ InMode(WriteProgbuf(s, i, v), m)
    BY PlainWrites, PlainKeeps
  <2> HIDE DEF p
  <2> QED BY <1>3, <2>1, <2>2, <2>3
<1>4. ASSUME NEW v, e = Write(Reg("command"), v), m \in {"idle", "off"}, n = "off"
      PROVE  Safe(p.s) /\ InMode(p.s, n) /\ e.do = "nothing"
  <2>1. p.s = dmi_write(s, Reg("command"), v, 0).s /\ e.do = "nothing"
    BY <1>2, <1>4
  <2> HIDE DEF p
  <2>2. /\ ~s.authenticated => p.s = s
        /\ s.authenticated => p.s = perform_abstract_command([s EXCEPT !.command = v])
    <3>1. Reg("command")[1] = "command"
      BY DEF Reg
    <3> QED BY <2>1, <3>1, WriteUnauthenticated, CommandWrites DEF WritableNames
  <2>3. InMode(s, "off")
    BY <1>4 DEF InMode
  <2> QED BY <1>4, <2>1, <2>2, <2>3, CommandKeeps
<1>5. ASSUME e = Die \/ e = Write(Reg("abstractcs"), 7), n = m
      PROVE  Safe(p.s) /\ InMode(p.s, n) /\ e.do \in {"nothing", "died"}
  <2>1. p.s = dmi_write(s, Reg("abstractcs"), 7, 0).s /\ e.do \in {"nothing", "died"}
    <3>1. CASE e = Write(Reg("abstractcs"), 7)
      BY <1>2, <3>1
    <3>2. CASE e = Die
      BY <3>2 DEF Die, RequestOf, Perform
    <3> QED BY <1>5, <3>1, <3>2
  <2> HIDE DEF p
  <2>2. WriteRegister(s, Reg("abstractcs"), 7, 0) = [s EXCEPT !.cmderr = BitsOff(s.cmderr, 7)]
    BY DEF WriteRegister, Reg
  <2>3. Safe(s) /\ Plain(s, [s EXCEPT !.cmderr = BitsOff(s.cmderr, 7)])
    BY PlainWrites
  <2>4. /\ Safe([s EXCEPT !.cmderr = BitsOff(s.cmderr, 7)])
        /\ InMode([s EXCEPT !.cmderr = BitsOff(s.cmderr, 7)], m)
    BY <2>3, PlainKeeps
  <2>5. p.s = s \/ p.s = [s EXCEPT !.cmderr = BitsOff(s.cmderr, 7)]
    BY <2>1, <2>2, DmiWrites
  <2> QED BY <1>5, <2>1, <2>4, <2>5
<1>6. ASSUME NEW on, <<e>> = AutoExecData(on),
             (m = "idle" /\ n = "running") \/ (m = "running" /\ n = "off" /\ on = {})
      PROVE  Safe(p.s) /\ InMode(p.s, n) /\ e.do = "nothing"
  <2> DEFINE v == [data |-> on, progbuf |-> {}]
  <2>1. e = Write(Reg("abstractauto"), v)
    BY <1>6 DEF AutoExecData
  <2>2. v.data = on /\ v.progbuf = {}
    OBVIOUS
  <2> HIDE DEF v
  <2>3. p.s = dmi_write(s, Reg("abstractauto"), v, 0).s /\ e.do = "nothing"
    BY <1>2, <2>1
  <2> HIDE DEF p
  <2>4. /\ ~s.authenticated => p.s = s
        /\ s.authenticated => p.s = [s EXCEPT !.autoexecdata = on, !.autoexecprogbuf = {}]
    <3>1. Reg("abstractauto")[1] = "abstractauto"
      BY DEF Reg
    <3>2. WriteRegister(s, Reg("abstractauto"), v, 0) = [s EXCEPT !.autoexecdata = on, !.autoexecprogbuf = {}]
      BY <2>2 DEF WriteRegister, Reg
    <3> QED BY <2>3, <3>1, <3>2, WriteUnauthenticated DEF WritableNames
  <2>5. ~s.authenticated => InMode(s, n)
    BY <1>6 DEF InMode
  <2>6. s.authenticated => Safe(p.s) /\ InMode(p.s, n)
    <3> SUFFICES ASSUME s.authenticated PROVE Safe(p.s) /\ InMode(p.s, n)
      OBVIOUS
    <3>1. CASE m = "idle" /\ n = "running"
      <4>1. InMode(s, "idle") /\ s.authenticated
        BY <3>1
      <4>2. /\ Safe([s EXCEPT !.autoexecdata = on, !.autoexecprogbuf = {}])
            /\ InMode([s EXCEPT !.autoexecdata = on, !.autoexecprogbuf = {}], "running")
        BY <4>1, AutoKeeps
      <4> QED BY <3>1, <2>4, <4>2
    <3>2. CASE m = "running" /\ n = "off" /\ on = {}
      <4>1. /\ Safe([s EXCEPT !.autoexecdata = {}, !.autoexecprogbuf = {}])
            /\ InMode([s EXCEPT !.autoexecdata = {}, !.autoexecprogbuf = {}], n)
        BY <3>2, AutoKeeps
      <4> QED BY <3>2, <2>4, <4>1
    <3> QED BY <1>6, <3>1, <3>2
  <2> QED BY <2>3, <2>4, <2>5, <2>6
<1> HIDE DEF p
<1> QED BY <1>3, <1>4, <1>5, <1>6

LEMMA RequestCompleted ==
  ASSUME NEW e, NEW m, NEW n, Step(e, m, n), Safe(s), InMode(s, m), Wired(h)
  PROVE  LET p == Perform(RequestOf(h, e)) IN Completed(p.s, e, m, n, p.value)
<1> DEFINE p == Perform(RequestOf(h, e))
<1>1. CASE Looks(e) /\ n = m
  BY <1>1, LooksCompleted
<1>2. ASSUME Selects(e), m = "idle", n = m PROVE Completed(p.s, e, m, n, p.value)
  <2>1. PICK hart : e = Selecting(hart, "select") \/ e = Selecting(hart, "nothing")
    BY <1>2 DEF Selects
  <2> DEFINE v == [h.dmcontrol EXCEPT !.hartsel = hart]
  <2>2. RequestOf(h, e) = WriteControl(v) /\ e.do \in {"select", "nothing"}
    BY <2>1 DEF Selecting, RequestOf
  <2>3. ~v.resumereq
    BY DEF Wired
  <2> HIDE DEF v
  <2>4. Safe(p.s) /\ InMode(p.s, n)
    BY <1>2, <2>2, <2>3, ControlCompleted
  <2> QED BY <2>2, <2>4, CompletedPlain
<1>3. ASSUME NEW v, e = WriteControl(v), v.dmactive = TRUE,
             \/ v.resumereq = FALSE /\ m \in {"idle", "acked"} /\ n = "idle"
             \/ /\ v.resumereq = TRUE /\ v.hartreset = FALSE
                /\ v.ndmreset = FALSE /\ m = "idle" /\ n = "asked"
      PROVE  Completed(p.s, e, m, n, p.value)
  <2>1. RequestOf(h, e) = WriteControl(v) /\ e.do = "nothing"
    BY <1>3, PerformWrite DEF WriteControl
  <2>2. Safe(p.s) /\ InMode(p.s, n)
    BY <1>3, <2>1, ControlCompleted
  <2> QED BY <2>1, <2>2, CompletedPlain
<1>4. ASSUME Pseudo(e) \/ \E body : Loops(e, body), n = m PROVE Completed(p.s, e, m, n, p.value)
  <2>1. e.op \in {"running", "width", "loop"} /\ e.do = "nothing"
    BY <1>4, KindShape
  <2>2. RequestOf(h, e) = e
    <3>1. "saved" \notin DOMAIN e /\ "select" \notin DOMAIN e
      BY <1>4 DEF Pseudo, Known, Loops, Loop
    <3> QED BY <3>1 DEF RequestOf
  <2>3. p.s = s
    BY <2>1, <2>2 DEF Perform
  <2> QED BY <1>4, <2>1, <2>3, CompletedPlain
<1>5. CASE Moves(e) /\ m \in {"idle", "off", "running"} /\ n = m
  BY <1>5, MovesCompleted
<1> HIDE DEF p
<1>6. \/ Looks(e) /\ n = m
      \/ Selects(e) /\ m = "idle" /\ n = m
      \/ \E v : /\ e = WriteControl(v) /\ v.dmactive = TRUE
                /\ \/ v.resumereq = FALSE /\ m \in {"idle", "acked"} /\ n = "idle"
                   \/ /\ v.resumereq = TRUE /\ v.hartreset = FALSE
                      /\ v.ndmreset = FALSE /\ m = "idle" /\ n = "asked"
      \/ Moves(e) /\ m \in {"idle", "off", "running"} /\ n = m
      \/ (Pseudo(e) \/ \E body : Loops(e, body)) /\ n = m
      \/ Completed(p.s, e, m, n, p.value)
  BY PollsCompleted, WritesCompleted DEF Step, p
<1> QED BY <1>1, <1>2, <1>3, <1>4, <1>5, <1>6 DEF p

----------------------------------------------------------------------------
(* The steps of the host thread.                                           *)
Pending(g, x, v) ==
  IF g.script = <<>> THEN InMode(x, "idle")
  ELSE /\ Listed(g.script)
       /\ \E m, n : /\ Step(Head(g.script), m, n) /\ Path(Tail(g.script), n, "idle")
                    /\ Completed(x, Head(g.script), m, n, v)
HostSafe(g, an, x) ==
  /\ Safe(x) /\ Wired(g) /\ g.resp_wait = (an # <<>>)
  /\ IF an = <<>> THEN \E m : Path(g.script, m, "idle") /\ InMode(x, m) ELSE Pending(g, x, an[1])

LEMMA HostInit ==
  ASSUME Safe(s), Unasked(s), ~s.busy, ~s.resumereq, \A i \in Harts(s) : s.flags[i] = {},
         h = Host, answer = <<>>
  PROVE  HostSafe(h, answer, s)
<1>1. InMode(s, "idle")
  BY DEF InMode, Unasked, NoFlags
<1>2. Wired(h) /\ h.script = producer_thread /\ h.resp_wait = FALSE
  BY DEF Wired, Host, HostFields, Control
<1> QED BY <1>1, <1>2, ProducerPath DEF HostSafe

\* what the harts and the idle cycles do between two of its steps
LEMMA HostDrifts ==
  ASSUME NEW g, NEW an, NEW x, NEW y, HostSafe(g, an, x), Safe(y), Drifts(x, y)
  PROVE  HostSafe(g, an, y)
<1>1. \A m : InMode(x, m) => InMode(y, m)
  BY InModeDrifts
<1>2. \A e, m, n, v : Completed(x, e, m, n, v) => Completed(y, e, m, n, v)
  BY <1>1 DEF Completed
<1>3. \A v : Pending(g, x, v) => Pending(g, y, v)
  BY <1>1, <1>2 DEF Pending
<1> QED BY <1>1, <1>3 DEF HostSafe

LEMMA HostTakesSafe ==
  ASSUME HostTakes, HostSafe(h, answer, s)
  PROVE  HostSafe(h', answer', s')
<1>1. ~h.resp_wait /\ h.req_wait \in BOOLEAN /\ h.resp_wait = FALSE /\ answer = <<>> /\ Wired(h) /\ Safe(s)
  BY DEF HostTakes, HostSafe, Wired
<1>2. PICK m : Path(h.script, m, "idle") /\ InMode(s, m)
  BY <1>1 DEF HostSafe
<1>3. CASE h.req_wait = FALSE
  <2>1. h' = tick(h, FALSE, FALSE, 0) /\ s' = s /\ answer' = answer
    BY <1>3 DEF HostTakes
  <2>2. h' = [h EXCEPT !.req_wait = TRUE, !.resp_wait = FALSE]
    BY <1>1, <1>3, <2>1 DEF tick
  <2>3. Wired(h') /\ h'.script = h.script /\ h'.resp_wait = FALSE
    BY <1>1, <2>2 DEF Wired, HostFields
  <2> QED BY <1>1, <1>2, <2>1, <2>3 DEF HostSafe
<1>4. CASE h.req_wait = TRUE
  <2> DEFINE p == Perform(Request(h))
  <2>1. h' = tick(h, TRUE, FALSE, 0) /\ s' = p.s /\ answer' = <<p.value>>
    BY <1>4 DEF HostTakes
  <2>2. h' = [h EXCEPT !.req_wait = FALSE, !.resp_wait = TRUE]
    BY <1>1, <1>4, <2>1 DEF tick
  <2>3. Wired(h') /\ h'.script = h.script /\ h'.resp_wait = TRUE
    BY <1>1, <2>2 DEF Wired, HostFields
  <2>4. answer' # <<>> /\ answer'[1] = p.value
    BY <2>1
  <2>5. CASE h.script = <<>>
    <3>1. m = "idle"
      BY <1>2, <2>5, PathEmptyIs
    <3>2. p.s = s
      BY <2>5 DEF Request, Nop, Perform
    <3> HIDE DEF p
    <3> QED BY <1>1, <1>2, <2>1, <2>3, <2>4, <2>5, <3>1, <3>2 DEF HostSafe, Pending
  <2>6. CASE h.script # <<>>
    <3> DEFINE e == Head(h.script)
    <3>1. PICK l : Step(e, m, l) /\ Path(Tail(h.script), l, "idle")
      BY <1>2, <2>6, PathHead
    <3>2. Request(h) = RequestOf(h, e)
      BY <2>6 DEF Request, RequestOf
    <3>3. Completed(p.s, e, m, l, p.value)
      BY <1>1, <1>2, <3>1, <3>2, RequestCompleted
    <3>4. Listed(h.script) /\ Safe(p.s)
      BY <1>2, <3>3 DEF Path, Completed
    <3> HIDE DEF p
    <3> QED BY <2>1, <2>3, <2>4, <2>6, <3>1, <3>3, <3>4 DEF HostSafe, Pending
  <2> QED BY <2>5, <2>6
<1> QED BY <1>1, <1>3, <1>4

LEMMA TakePath ==
  ASSUME NEW g, NEW e, NEW v, NEW n, Wired(g), Path(g.script, n, "idle"), e.do = "probe" => n = "idle",
         e.do = "control" => "resumereq" \in DOMAIN v /\ ~v.resumereq
  PROVE  /\ Path(Take(g, e, v).script, n, "idle") /\ Wired(Take(g, e, v))
         /\ Take(g, e, v).resp_wait = g.resp_wait
<1> DEFINE Keeps(x) == x.script = g.script /\ Wired(x) /\ x.resp_wait = g.resp_wait
<1>1. CASE e.do = "control"
  BY <1>1 DEF Take, Wired, HostFields
<1>2. CASE e.do = "probe"
  <2>1. Take(g, e, v) = Probed(g, e.hart, v)
    BY <1>2 DEF Take
  <2>2. \/ Keeps(Probed(g, e.hart, v))
        \/ /\ Wired(Probed(g, e.hart, v)) /\ Probed(g, e.hart, v).resp_wait = g.resp_wait
           /\ Probed(g, e.hart, v).script = Probe(e.hart + 1) \o g.script
    BY DEF Probed, Wired, HostFields
  <2>3. Path(Probe(e.hart + 1) \o g.script, n, "idle")
    BY <1>2, ProbePath, PathConcat
  <2> QED BY <2>1, <2>2, <2>3
<1>3. CASE e.do \notin {"control", "probe"}
  <2>1. Keeps(Take(g, e, v))
    BY <1>3 DEF Take, Wired, HostFields
  <2> QED BY <2>1
<1> QED BY <1>1, <1>2, <1>3

LEMMA HostAnsweredSafe ==
  ASSUME HostAnswered, HostSafe(h, answer, s)
  PROVE  HostSafe(h', answer', s')
<1>1. /\ answer # <<>> /\ answer' = <<>> /\ s' = s /\ Safe(s) /\ Wired(h) /\ h.resp_wait = TRUE
      /\ h' = tick(h, FALSE, TRUE, answer[1]) /\ Pending(h, s, answer[1])
  BY DEF HostAnswered, HostSafe
<1> DEFINE v == answer[1]
           offered == [h EXCEPT !.req_wait = IF h.resp_wait THEN @ ELSE IF @ THEN ~FALSE ELSE TRUE,
                                !.resp_wait = @ \/ (h.req_wait /\ FALSE)]
           g == [offered EXCEPT !.resp_wait = FALSE]
<1>2. h' = Continue(g, v)
  BY <1>1 DEF tick
<1>3. Wired(g) /\ g.script = h.script /\ g.resp_wait = FALSE
  BY <1>1 DEF Wired, HostFields
<1> HIDE DEF g, v
<1>4. CASE h.script = <<>>
  <2>1. h' = g /\ InMode(s, "idle")
    BY <1>1, <1>2, <1>3, <1>4 DEF Continue, Pending
  <2> QED BY <1>1, <1>3, <1>4, <2>1, PathEmpty DEF HostSafe
<1>5. CASE h.script # <<>>
  <2> DEFINE e == Head(h.script)
             rest == [g EXCEPT !.script = Tail(h.script)]
  <2>1. PICK m, n : /\ Step(e, m, n) /\ Path(Tail(h.script), n, "idle") /\ Completed(s, e, m, n, v)
                    /\ Listed(h.script)
    BY <1>1, <1>5 DEF Pending, v
  <2>2. h' = IF Polled(e.do, v) THEN Settle(Take(rest, e, v)) ELSE g
    BY <1>2, <1>3, <1>5 DEF Continue
  <2>3. Wired(rest) /\ rest.script = Tail(h.script) /\ rest.resp_wait = FALSE
    BY <1>3 DEF Wired, HostFields
  <2>4. /\ e.do = "control" => "resumereq" \in DOMAIN v /\ ~v.resumereq
        /\ e.do = "probe" => n = "idle"
    BY <2>1, StepShape DEF Completed
  <2>5. CASE Polled(e.do, v)
    <3> DEFINE u == Take(rest, e, v)
    <3> HIDE DEF rest, e
    <3>1. Path(u.script, n, "idle") /\ Wired(u) /\ u.resp_wait = FALSE
      BY <2>1, <2>3, <2>4, TakePath
    <3> HIDE DEF u
    <3>2. Path(Settle(u).script, n, "idle") /\ Wired(Settle(u)) /\ Settle(u).resp_wait = FALSE
      BY <3>1, SettlePath
    <3>3. h' = Settle(u) /\ InMode(s, n)
      BY <2>1, <2>2, <2>5 DEF Completed, u
    <3> QED BY <1>1, <3>2, <3>3 DEF HostSafe
  <2>6. CASE ~Polled(e.do, v)
    <3>1. Path(h.script, m, "idle")
      BY <1>5, <2>1, PathFrom
    <3>2. h' = g /\ InMode(s, m)
      BY <2>1, <2>2, <2>6 DEF Completed
    <3> QED BY <1>1, <1>3, <3>1, <3>2 DEF HostSafe
  <2> QED BY <2>5, <2>6
<1> QED BY <1>4, <1>5

LEMMA HostBeginsSafe ==
  ASSUME NEW k \in Tasks, HostBegins(k), HostSafe(h, answer, s)
  PROVE  HostSafe(h', answer', s')
<1>1. /\ h.script = <<>> /\ h.resp_wait = FALSE /\ answer = <<>> /\ answer' = answer /\ s' = s
      /\ Safe(s) /\ Wired(h) /\ h' = Start(h, Script(k))
  BY DEF HostBegins, HostFree, HostSafe, Wired
<1>2. InMode(s, "idle")
  BY <1>1, PathEmptyIs DEF HostSafe
<1>3. Path(Script(k), "idle", "idle")
  <2>1. k.op \in {"read_chunk", "write_chunk", "clear_chunk", "modify_csr", "reset"}
    BY TasksAssumption
  <2> QED BY <2>1, ChunkPath, ResetPath DEF Script
<1> DEFINE g == [h EXCEPT !.script = Script(k), !.buffer = <<>>, !.died = FALSE]
<1>4. Wired(g) /\ g.script = Script(k) /\ g.resp_wait = FALSE
  BY <1>1 DEF Wired, HostFields
<1>5. h' = Settle(g)
  BY <1>1 DEF Start
<1> HIDE DEF g
<1>6. Path(Settle(g).script, "idle", "idle") /\ Wired(Settle(g)) /\ Settle(g).resp_wait = FALSE
  BY <1>3, <1>4, SettlePath
<1> QED BY <1>1, <1>2, <1>5, <1>6 DEF HostSafe

----------------------------------------------------------------------------
(* The theorems.                                                           *)
AccountIInv ==
  /\ Safe(s) /\ (kind \notin {"dtm", "free"} => Unasked(s))
  /\ kind = "dtm" => HostSafe(h, answer, s)

LEMMA AccountInit == Init => AccountIInv
<1> SUFFICES ASSUME Init PROVE AccountIInv
  OBVIOUS
<1>1. PICK config \in Configs[kind] : \E challenge :
        s = debug_module_t(config.module, config.nprocs, [i \in 0..(config.nprocs - 1) |-> ResetRegs(i)],
                           Memory, [type |-> 1], challenge)
  BY DEF Init
<1>2. kind \in Kinds /\ h = Host /\ answer = <<>>
  BY DEF Init
<1>3. /\ Safe(s) /\ Unasked(s)
      /\ ~s.busy /\ ~s.resumereq /\ \A i \in Harts(s) : s.flags[i] = {}
  BY <1>1, <1>2, InitSafe
<1> QED BY <1>2, <1>3, HostInit DEF AccountIInv

LEMMA AccountNext == AccountIInv /\ [Next]_vars => AccountIInv'
<1> SUFFICES ASSUME AccountIInv, [Next]_vars PROVE AccountIInv'
  OBVIOUS
<1> DEFINE New == /\ Safe(s') /\ (kind \notin {"dtm", "free"} => Unasked(s'))
                  /\ kind = "dtm" => HostSafe(h', answer', s')
<1>1. kind' = kind
  BY DEF Next, vars, HartEnters, HartSteps, Idle, HostTakes, HostAnswered, HostBegins,
         FreeNext, FreeControls, FreeCommands, FreeProgram, FreeData, FreeGroups, FreeClears, Debugs,
         BusSetsUp, BusMoves, ServerTicks, ServerCommands, ServerWrites, ServerReads, ClientSends
<1>2. SUFFICES New
  BY <1>1 DEF AccountIInv, Safe, Unasked, HostSafe
<1>3. /\ Safe(s) /\ (kind \notin {"dtm", "free"} => Unasked(s))
      /\ kind = "dtm" => HostSafe(h, answer, s)
  BY DEF AccountIInv
<1>4. ASSUME s' = s, h' = h, answer' = answer PROVE New
  BY <1>3, <1>4
<1>5. ASSUME NEW y, s' = y, h' = h, answer' = answer, Safe(y), Drifts(s, y), kind \in {"dtm", "free"}
      PROVE  New
  BY <1>3, <1>5, HostDrifts
<1>6. ASSUME NEW i \in Harts(s), HartEnters(i) PROVE New
  <2>1. /\ s' = EnterDebugMode(s, i) /\ s.core[i].pc = "user" /\ s.core[i].halt_request # "NONE"
        /\ h' = h /\ answer' = answer
    BY <1>6 DEF HartEnters, InDebug, Requested, hostVars
  <2>2. kind \in {"dtm", "free"}
    BY <1>3, <2>1 DEF Unasked
  <2> DEFINE c == [s.core[i] EXCEPT !.dpc = s.core[i].upc]
  <2>3. "pc" \in DOMAIN c /\ Shape(s)
    BY <1>3 DEF Safe, Shape
  <2>4. s' = To(s, i, c, At("entry", 0))
    BY <2>1 DEF EnterDebugMode
  <2> HIDE DEF c
  <2>5. Goes(s, s', i, "entry")
    BY <2>3, <2>4, ToSameGoes
  <2>6. Safe(s') /\ Drifts(s, s')
    BY <1>3, <2>5, GoesSafe, GoesDrifts DEF Running, Places
  <2> QED BY <1>5, <2>1, <2>2, <2>6
<1>7. ASSUME NEW i \in Harts(s), HartSteps(i) PROVE New
  <2>1. s' = RomStep(s, i) /\ s.core[i].pc # "user" /\ h' = h /\ answer' = answer
    BY <1>7 DEF HartSteps, InDebug, hostVars
  <2>2. kind \in {"dtm", "free"}
    BY <1>3, <2>1 DEF Unasked
  <2>3. Safe(s') /\ Drifts(s, s')
    BY <1>3, <2>1, RomStepSafe
  <2> QED BY <1>5, <2>1, <2>2, <2>3
<1>8. CASE Idle
  <2>1. s' = run_test_idle(s) /\ kind \in {"dtm", "free"} /\ h' = h /\ answer' = answer
    BY <1>8 DEF Idle, hostVars
  <2>2. Safe(s') /\ Drifts(s, s')
    BY <1>3, <2>1, IdleSafe
  <2> QED BY <1>5, <2>1, <2>2
<1>9. CASE HostTakes \/ HostAnswered \/ \E k \in Tasks : HostBegins(k)
  <2>1. kind = "dtm"
    BY <1>9 DEF HostTakes, HostAnswered, HostBegins
  <2>2. HostSafe(h', answer', s')
    BY <1>3, <1>9, <2>1, HostTakesSafe, HostAnsweredSafe, HostBeginsSafe
  <2> QED BY <2>1, <2>2 DEF HostSafe
<1>10. CASE kind = "free" /\ FreeNext
  BY <1>3, <1>10, FreeStep
<1>11. CASE BusSetsUp \/ BusMoves
  <2>1. kind = "bus"
    BY <1>11 DEF BusSetsUp, BusMoves
  <2> QED BY <1>3, <1>11, <2>1, BusSame, SameSafe, SameUnasked
<1>12. CASE ServerCommands
  <2>1. kind = "jtag"
    BY <1>12 DEF ServerCommands
  <2> QED BY <1>3, <1>12, <2>1, CommandsSafe
<1>13. CASE ServerTicks \/ ServerWrites \/ ServerReads \/ ClientSends \/ UNCHANGED vars
  BY <1>4, <1>13 DEF ServerTicks, ServerWrites, ServerReads, ClientSends, vars, hostVars
<1> QED BY <1>6, <1>7, <1>8, <1>9, <1>10, <1>11, <1>12, <1>13 DEF Next

(* With the bookkeeping of module DebugModule, kept by the harts' steps,   *)
(* the idle cycles and each access a debugger may make, and with what the  *)
(* front end's thread knows of the module at each request of its scripts.  *)
THEOREM AccountInductive == Spec => []AccountIInv
BY AccountInit, AccountNext, PTL DEF Spec

(* While no command is running no hart is in one or about to start one,    *)
(* and a halted hart is in the debug ROM, for any number of harts, any     *)
(* commands and programs, and each debugger of DebugSystem: one that       *)
(* follows its rules, the bus, the JTAG server, and the front end's host   *)
(* thread with any operations on any addresses and values.                 *)
THEOREM HartsStayAccounted == Spec => []HartsAccounted
<1>1. AccountIInv => HartsAccounted
  BY DEF AccountIInv, HartsAccounted, Safe, HartSafe, CommandSafe, InCommand, HaltSafe, Running, InDebug
<1> QED BY <1>1, AccountInductive, PTL
=============================================================================
