---------------------------- MODULE ShellProofs ----------------------------
(***************************************************************************)
(* Proofs about Shell, and with it Interrupts, for every keyboard, length  *)
(* of line, timer and set of commands.                                     *)
(***************************************************************************)
EXTENDS Shell, TLAPS

(* Stage 2 puts the stack at a multiple of 64 KB, 0x90000, more than twice *)
(* 64 KB up; a stack with kmain's frame is less than 64 KB deep; and the   *)
(* lowest 64 KB are below the memory that is handed out.                   *)
StacksFit ==
  /\ \E n \in Nat : n >= 2 /\ StackTop = Half * n
  /\ KmainFrame + StackSize < Half
  /\ StackSize + 8 <= Half
  /\ Half <= ReservedTop

---------------------------------------------------------------------------
(* The invariant.                                                          *)

Booting == {"hal", "handlers", "fd_init", "fd_wait", "jmp"}
Reading == {"poll", "discard", "edit"}

\* What kmain has set up so far.
Vectored ==
  /\ idt = [n \in Vectors |-> idt[n]]
  /\ pc = "hal" => ~iflag
  /\ pc = "handlers" => ~iflag /\ pic.base = 32 /\ pic.imr = IRQ
  /\ pc \notin {"hal", "handlers"} =>
       /\ pic.base = 32 /\ pic.imr = {3, 4, 5, 7}
       /\ idt[32] = Gate("timer_irq0_handler", "int")
       /\ idt[33] = Gate("keyboard_irq1_handler", "int")
       /\ idt[38] = Gate("fd_irq6_handler", "int")

Stacked == pc \notin Booting \cup {"hung"} => esp0 = Esp % Half

\* The characters before the index are the line.  With the index below the
\* buffer the line is empty.
Buffered ==
  /\ i >= -3
  /\ i >= 0 => Len(line) = i /\ \A j \in 0 .. (i - 1) : cmd_buf[j] = line[j + 1] /\ cmd_buf[j] # 0
  /\ i < 0 => line = <<>> /\ cmd_buf[0] = 0 /\ beyond
  /\ i = MAX_CMD_LEN => beyond

Edited ==
  /\ line \in Seq(0 .. 255) /\ beyond \in BOOLEAN
  /\ pc \in Reading \cup {"sleep", "terminate"} => Buffered
  /\ pc \in Reading => i < MAX_CMD_LEN
  /\ pc = "command" => CString = line
  /\ pc = "corrupted" => beyond

IInv == TypeOK /\ Vectored /\ Stacked /\ Edited

---------------------------------------------------------------------------
(* The interrupt controller.                                               *)

Pics == [base : {8, 32}, imr : SUBSET IRQ, irr : SUBSET IRQ, isr : SUBSET IRQ]

\* What RaiseLine leaves alone.
LEMMA RaiseKeeps ==
  ASSUME NEW p \in Pics, NEW n \in IRQ
  PROVE  /\ RaiseLine(p, n) \in Pics
         /\ RaiseLine(p, n).base = p.base
         /\ RaiseLine(p, n).imr = p.imr
<1>1. p.irr \cup {n} \in SUBSET IRQ
  BY DEF Pics
<1> QED
  BY <1>1 DEF Pics, RaiseLine

\* What delivering an interrupt and ending it leave alone.
LEMMA ServiceKeeps ==
  ASSUME pic \in Pics, NEW n \in IRQ
  PROVE  /\ send_pic_eoi(Taken(n)) \in Pics
         /\ send_pic_eoi(Taken(n)).base = pic.base
         /\ send_pic_eoi(Taken(n)).imr = pic.imr
<1> DEFINE down == [pic EXCEPT !.irr = pic.irr \ {n}]
           in == [down EXCEPT !.isr = down.isr \cup {n}]
           left == IF in.isr = {} THEN {} ELSE in.isr \ {Min(in.isr)}
<1>1. down \in Pics /\ down.base = pic.base /\ down.imr = pic.imr /\ down.isr = pic.isr
  <2>1. pic.irr \ {n} \in SUBSET IRQ
    BY DEF Pics
  <2> QED
    BY <2>1 DEF Pics
<1>2. Taken(n) = in
  BY DEF Taken, Pics
<1> HIDE DEF down
<1>3. in \in Pics /\ in.base = pic.base /\ in.imr = pic.imr
  <2>1. down.isr \cup {n} \in SUBSET IRQ
    BY <1>1 DEF Pics
  <2> QED
    BY <1>1, <2>1 DEF Pics
<1> HIDE DEF in
<1>4. left \in SUBSET IRQ
  BY <1>3 DEF Pics
<1>5. send_pic_eoi(in) = [in EXCEPT !.isr = left]
  BY <1>3 DEF send_pic_eoi, Pics
<1> HIDE DEF left
<1>6. /\ [in EXCEPT !.isr = left] \in Pics
      /\ [in EXCEPT !.isr = left].base = pic.base
      /\ [in EXCEPT !.isr = left].imr = pic.imr
  BY <1>3, <1>4 DEF Pics
<1> QED
  BY <1>2, <1>5, <1>6

\* hal_init leaves every line masked and the vectors at 32.
LEMMA InitMasks ==
  ASSUME pic \in Pics
  PROVE  /\ pic_init(disable_pic(pic)) \in Pics
         /\ pic_init(disable_pic(pic)).base = 32
         /\ pic_init(disable_pic(pic)).imr = IRQ
<1> DEFINE p == disable_pic(pic)
           q == [p EXCEPT !.base = 32]
           r == [q EXCEPT !.irr = {}]
<1>1. p \in Pics /\ p.imr = IRQ
  BY DEF Pics, disable_pic
<1>2. pic_init(p) = [r EXCEPT !.isr = {}]
  BY <1>1 DEF pic_init, Pics
<1> HIDE DEF p
<1>3. q \in Pics /\ q.imr = IRQ /\ q.base = 32
  BY <1>1 DEF Pics
<1> HIDE DEF q
<1>4. r \in Pics /\ r.imr = IRQ /\ r.base = 32
  BY <1>3 DEF Pics
<1> HIDE DEF r
<1>5. [r EXCEPT !.isr = {}] \in Pics /\ [r EXCEPT !.isr = {}].imr = IRQ /\ [r EXCEPT !.isr = {}].base = 32
  BY <1>4 DEF Pics
<1> QED
  BY <1>2, <1>5 DEF p

\* Unmasking takes one line out of the mask.
LEMMA Unmasks ==
  ASSUME NEW p \in Pics, NEW n
  PROVE  /\ clear_irq_mask(p, n) \in Pics
         /\ clear_irq_mask(p, n).base = p.base
         /\ clear_irq_mask(p, n).imr = p.imr \ {n}
<1>1. p.imr \ {n} \in SUBSET IRQ
  BY DEF Pics
<1> QED
  BY <1>1 DEF Pics, clear_irq_mask

---------------------------------------------------------------------------
(* Arithmetic and sequences.                                               *)

\* The remainder is the only number below the divisor that is a multiple away.
LEMMA Remainder ==
  ASSUME NEW d \in Nat \ {0}, NEW q \in Nat, NEW r \in 0 .. (d - 1), NEW a \in Int, a = d * q + r
  PROVE  a % d = r
<1> DEFINE u == a \div d
           v == a % d
<1>1. a \in Nat
  OBVIOUS
<1>2. u \in Nat /\ v \in 0 .. (d - 1) /\ a = d * u + v
  BY <1>1
<1> HIDE DEF u, v
<1>3. CASE u = q
  <2>1. v = r
    BY <1>2, <1>3
  <2> QED
    BY <2>1 DEF v
<1>4. CASE u < q
  <2>1. d * (u + 1) <= d * q /\ d * (u + 1) = d * u + d
    BY <1>2, <1>4
  <2> QED
    BY <1>2, <2>1
<1>5. CASE q < u
  <2>1. d * (q + 1) <= d * u /\ d * (q + 1) = d * q + d
    BY <1>2, <1>5
  <2> QED
    BY <1>2, <2>1
<1> QED
  BY <1>2, <1>3, <1>4, <1>5

LEMMA PrefixOf ==
  ASSUME NEW S, NEW s \in Seq(S), NEW n \in 0 .. Len(s)
  PROVE  /\ SubSeq(s, 1, n) \in Seq(S) /\ Len(SubSeq(s, 1, n)) = n
         /\ \A j \in 1 .. n : SubSeq(s, 1, n)[j] = s[j]
  OBVIOUS

---------------------------------------------------------------------------
(* What steps that leave a part of the state alone preserve.               *)

\* The line, by a step that does not touch it and does not come to it.
LEMMA EditedKept ==
  ASSUME Edited, UNCHANGED lineVars,
         pc' = pc \/ pc' \notin Reading \cup {"sleep", "terminate", "command", "corrupted"}
  PROVE  Edited'
<1>1. CString' = CString
  BY DEF lineVars, CString
<1>2. Buffered' <=> Buffered
  BY DEF lineVars, typed, Buffered
<1> QED
  BY <1>1, <1>2 DEF Edited, lineVars, typed, Reading

\* The vectors, by a step after setup_interrupt_handlers.
LEMMA VectoredKept ==
  ASSUME Vectored, idt' = idt, pic'.base = pic.base, pic'.imr = pic.imr,
         \/ pc' = pc /\ iflag' = iflag
         \/ pc \notin {"hal", "handlers"} /\ pc' \notin {"hal", "handlers"}
  PROVE  Vectored'
  BY DEF Vectored

\* The stack, by a step after jmp_userspace.
LEMMA StackedKept ==
  ASSUME Stacked, esp0' = esp0,
         pc' = pc \/ pc' \in {"hung"} \cup Booting \/ pc \notin Booting \cup {"hung"}
  PROVE  Stacked'
  BY DEF Stacked, Booting, Esp

---------------------------------------------------------------------------
(* kmain, the devices and the handlers.                                    *)

\* The types of what these steps change.
Wired == /\ pic' \in Pics
         /\ pit_ticks' \in 0 .. (Ticks - 1)
         /\ scancode' \in KEYCODE \cup {0}
         /\ port' \in KEYCODE \cup {None, Release}

LEMMA TypeKept ==
  ASSUME TypeOK, UNCHANGED lineVars, Wired
  PROVE  TypeOK'
  BY DEF TypeOK, Wired, Pics, lineVars

LEMMA KernelHolds ==
  ASSUME IInv, Kernel
  PROVE  IInv'
<1> USE DEF IInv
<1>0. pic \in Pics /\ UNCHANGED lineVars
  BY DEF TypeOK, Pics, Kernel
<1>1. CASE hal_init
  <2>1. pic' \in Pics /\ pic'.base = 32 /\ pic'.imr = IRQ
    BY <1>0, <1>1, InitMasks DEF hal_init
  <2>2. TypeOK'
    BY <1>0, <1>1, <2>1, TypeKept DEF hal_init, shared, devices, Wired, TypeOK
  <2>3. Vectored'
    BY <1>1, <2>1 DEF hal_init, Vectored, idt_init
  <2>4. Stacked'
    BY <1>1 DEF hal_init, Stacked, Booting
  <2>5. Edited'
    BY <1>0, <1>1, EditedKept DEF hal_init, Reading
  <2> QED
    BY <2>2, <2>3, <2>4, <2>5
<1>2. CASE setup_interrupt_handlers
  <2> DEFINE p1 == clear_irq_mask(pic, 0)
             p2 == clear_irq_mask(p1, 1)
             p3 == clear_irq_mask(p2, 2)
             p4 == clear_irq_mask(p3, 6)
             exc == idt_set_descriptor(idt, 14, "page_fault_handler", "trap")
             sys == idt_set_descriptor(exc, 128, "syscall_dispatcher", "int_user")
             irq0 == idt_set_descriptor(sys, 32, "timer_irq0_handler", "int")
             irq1 == idt_set_descriptor(irq0, 33, "keyboard_irq1_handler", "int")
             irq6 == idt_set_descriptor(irq1, 38, "fd_irq6_handler", "int")
  <2>0. pic' = p4 /\ idt' = irq6
    BY <1>2 DEF setup_interrupt_handlers
  <2>a. p1 \in Pics /\ p1.base = pic.base /\ p1.imr = pic.imr \ {0}
    BY <1>0, Unmasks
  <2>b. p2 \in Pics /\ p2.base = p1.base /\ p2.imr = p1.imr \ {1}
    <3> HIDE DEF p1
    <3> QED BY <2>a, Unmasks
  <2>c. p3 \in Pics /\ p3.base = p2.base /\ p3.imr = p2.imr \ {2}
    <3> HIDE DEF p2
    <3> QED BY <2>b, Unmasks
  <2>d. p4 \in Pics /\ p4.base = p3.base /\ p4.imr = p3.imr \ {6}
    <3> HIDE DEF p3
    <3> QED BY <2>c, Unmasks
  <2>1. pic' \in Pics /\ pic'.base = 32 /\ pic'.imr = {3, 4, 5, 7}
    <3> HIDE DEF p1, p2, p3, p4
    <3>1. pic.base = 32 /\ pic.imr = IRQ
      BY <1>2 DEF setup_interrupt_handlers, Vectored
    <3>2. p4.imr = IRQ \ {0, 1, 2, 6}
      BY <3>1, <2>a, <2>b, <2>c, <2>d
    <3>3. IRQ \ {0, 1, 2, 6} = {3, 4, 5, 7}
      BY DEF IRQ
    <3> QED
      BY <2>0, <2>a, <2>b, <2>c, <2>d, <3>1, <3>2, <3>3
  <2>2. TypeOK'
    <3>1. pit_ticks' = 0 /\ UNCHANGED <<scancode, port>>
      BY <1>2 DEF setup_interrupt_handlers, pit_set_channel_mode_frequency, devices
    <3>2. 0 \in 0 .. (Ticks - 1)
      BY InterruptsAssumption
    <3>3. Wired
      BY <2>1, <3>1, <3>2 DEF Wired, TypeOK
    <3> QED
      BY <1>0, <3>3, TypeKept
  <2>3. Vectored'
    <3> HIDE DEF p1, p2, p3, p4
    <3>a. {14, 128, 32, 33, 38} \subseteq Vectors /\ idt = [n \in Vectors |-> idt[n]]
      BY DEF Vectors, Vectored
    <3>b. exc = [n \in Vectors |-> exc[n]]
      BY <3>a DEF idt_set_descriptor
    <3>c. sys = [n \in Vectors |-> sys[n]]
      <4> HIDE DEF exc
      <4> QED BY <3>a, <3>b DEF idt_set_descriptor
    <3>d. irq0 = [n \in Vectors |-> irq0[n]] /\ irq0[32] = Gate("timer_irq0_handler", "int")
      <4> HIDE DEF sys
      <4> QED BY <3>a, <3>c DEF idt_set_descriptor
    <3>e. /\ irq1 = [n \in Vectors |-> irq1[n]]
          /\ irq1[32] = irq0[32] /\ irq1[33] = Gate("keyboard_irq1_handler", "int")
      <4> HIDE DEF irq0
      <4> QED BY <3>a, <3>d DEF idt_set_descriptor
    <3>f. /\ irq6 = [n \in Vectors |-> irq6[n]]
          /\ irq6[32] = irq1[32] /\ irq6[33] = irq1[33] /\ irq6[38] = Gate("fd_irq6_handler", "int")
      <4> HIDE DEF irq1
      <4> QED BY <3>a, <3>e DEF idt_set_descriptor
    <3> HIDE DEF exc, sys, irq0, irq1, irq6
    <3>1. /\ idt' = [n \in Vectors |-> idt'[n]]
          /\ idt'[32] = Gate("timer_irq0_handler", "int")
          /\ idt'[33] = Gate("keyboard_irq1_handler", "int")
          /\ idt'[38] = Gate("fd_irq6_handler", "int")
      BY <2>0, <3>d, <3>e, <3>f
    <3> QED
      BY <1>2, <2>1, <3>1 DEF setup_interrupt_handlers, Vectored
  <2>4. Stacked'
    BY <1>2 DEF setup_interrupt_handlers, Stacked, Booting
  <2>5. Edited'
    BY <1>0, <1>2, EditedKept DEF setup_interrupt_handlers, Reading
  <2> QED
    BY <2>2, <2>3, <2>4, <2>5
<1>3. CASE fd_init
  <2>1. /\ pc \in {"fd_init", "fd_wait"} /\ pc' \in {"fd_wait", "jmp"}
        /\ UNCHANGED <<pic, port, pit_ticks, scancode, idt, iflag, esp0>>
    BY <1>3 DEF fd_init, FdCommand, FdWait, shared, devices, tables
  <2>2. TypeOK'
    BY <1>0, <2>1, TypeKept DEF Wired, TypeOK
  <2>3. Vectored'
    BY <2>1, VectoredKept
  <2>4. Stacked'
    BY <2>1 DEF Stacked, Booting
  <2>5. Edited'
    BY <1>0, <2>1, EditedKept DEF Reading
  <2> QED
    BY <2>2, <2>3, <2>4, <2>5
<1>4. CASE jmp_userspace
  <2>2. TypeOK'
    BY <1>0, <1>4, TypeKept DEF jmp_userspace, shared, devices, Wired, TypeOK
  <2>3. Vectored'
    BY <1>4, VectoredKept DEF jmp_userspace
  <2>4. Stacked'
    BY <1>4 DEF jmp_userspace, tss_set_stack, Stacked, Esp
  <2>5. Edited'
    BY <1>0, <1>4, EditedKept DEF jmp_userspace, Reading
  <2> QED
    BY <2>2, <2>3, <2>4, <2>5
<1> QED
  BY <1>1, <1>2, <1>3, <1>4 DEF Kernel, kmain

LEMMA DevicesHold ==
  ASSUME IInv, Timer \/ Press \/ Lift \/ Disk
  PROVE  IInv'
<1> USE DEF IInv
<1>0. pic \in Pics /\ UNCHANGED lineVars
  BY DEF TypeOK, Pics, Timer, Press, Lift, Disk
<1>1. /\ UNCHANGED <<pc, shared, tables>>
      /\ \E n \in IRQ : pic' = RaiseLine(pic, n)
      /\ port' \in KEYCODE \cup {None, Release}
  BY DEF TypeOK, Timer, Press, Lift, Disk, TimerRaise, KeyRaise, FdcRaise, devices, IRQ
<1>2. pic' \in Pics /\ pic'.base = pic.base /\ pic'.imr = pic.imr
  BY <1>0, <1>1, RaiseKeeps
<1>3. TypeOK'
  BY <1>0, <1>1, <1>2, TypeKept DEF Wired, TypeOK, shared
<1>4. Vectored'
  BY <1>1, <1>2, VectoredKept DEF tables
<1>5. Stacked'
  BY <1>1, StackedKept DEF tables
<1>6. Edited'
  BY <1>0, <1>1, EditedKept
<1> QED
  BY <1>3, <1>4, <1>5, <1>6

LEMMA HandlerHolds ==
  ASSUME IInv, Handler
  PROVE  IInv'
<1> USE DEF IInv
<1>0. pic \in Pics /\ UNCHANGED lineVars
  BY DEF TypeOK, Pics, Handler
<1>1. CASE timer_irq0_handler \/ keyboard_irq1_handler \/ fd_irq6_handler
  <2>1. /\ UNCHANGED <<pc, tables>>
        /\ \E n \in IRQ : pic' = send_pic_eoi(Taken(n))
        /\ pit_ticks' \in {pit_ticks, (pit_ticks + 1) % Ticks}
        /\ scancode' = scancode \/ (port > 0 /\ scancode' = port)
        /\ port' \in {port, None}
    BY <1>1 DEF timer_irq0_handler, keyboard_irq1_handler, fd_irq6_handler, devices
  <2>2. pic' \in Pics /\ pic'.base = pic.base /\ pic'.imr = pic.imr
    BY <1>0, <2>1, ServiceKeeps
  <2>3. pit_ticks' \in 0 .. (Ticks - 1)
    BY <2>1, InterruptsAssumption DEF TypeOK
  <2>4. scancode' \in KEYCODE \cup {0}
    BY <2>1, InterruptsAssumption DEF TypeOK, None, Release
  <2>5. TypeOK'
    BY <1>0, <2>1, <2>2, <2>3, <2>4, TypeKept DEF Wired, TypeOK
  <2>6. Vectored'
    BY <2>1, <2>2, VectoredKept DEF tables
  <2>7. Stacked'
    BY <2>1, StackedKept DEF tables
  <2>8. Edited'
    BY <1>0, <2>1, EditedKept
  <2> QED
    BY <2>5, <2>6, <2>7, <2>8
<1>2. CASE default_int_handler
  <2>1. pc \notin {"hal", "handlers"}
    BY <1>2 DEF default_int_handler, Vectored
  <2>2. pc' = "hung" /\ UNCHANGED <<pic, devices, shared, idt, esp0>>
    BY <1>2 DEF default_int_handler
  <2>3. TypeOK'
    BY <1>0, <2>2, TypeKept DEF Wired, TypeOK, devices, shared
  <2>4. Vectored'
    BY <2>1, <2>2, VectoredKept
  <2>5. Stacked'
    BY <2>2, StackedKept
  <2>6. Edited'
    BY <1>0, <2>2, EditedKept DEF Reading
  <2> QED
    BY <2>3, <2>4, <2>5, <2>6
<1> QED
  BY <1>1, <1>2 DEF Handler, Handlers

---------------------------------------------------------------------------
(* The program.                                                            *)

\* Steps that do not touch the line.
LEMMA OthersHold ==
  ASSUME IInv,
         userspace \/ run \/ keyboard_discard_last_key \/ run_cmd \/ OpenFile \/ cmd_read \/ exit
  PROVE  IInv'
<1> USE DEF IInv
<1> DEFINE texts == {"overrun", "run", "prompt", "bye", "open"}
<1>1. \A text, there : After(text, there) \in {"overrun", there}
  BY DEF After
<1>2. ASSUME run_cmd PROVE pc' \in texts
  <2>1. \A text : After(text, "prompt") \in texts
    BY <1>1
  <2> QED
    BY <1>2, <2>1 DEF run_cmd, Goto
<1>3. /\ pc \in {"banner", "run", "discard", "command", "open", "opening", "header", "bye"}
      /\ \/ pc' \in texts \cup {"opening", "header", "overwritten", "halted", "astray"}
         \/ pc' = "edit" /\ pc = "discard"
  <2>1. CASE userspace
    BY <2>1, <1>1 DEF userspace, Goto
  <2>2. CASE run \/ keyboard_discard_last_key
    BY <2>2 DEF run, keyboard_discard_last_key, Goto
  <2>3. CASE run_cmd
    BY <2>3, <1>2 DEF run_cmd, Goto
  <2>4. CASE OpenFile
    BY <2>4 DEF OpenFile, FdCommand, FdWait
  <2>5. CASE cmd_read
    BY <2>5 DEF cmd_read
  <2>6. CASE exit
    BY <2>6, <1>1 DEF exit
  <2> QED
    BY <2>1, <2>2, <2>3, <2>4, <2>5, <2>6
<1>4. /\ UNCHANGED <<pic, port, pit_ticks, idt, esp0, lineVars>>
      /\ scancode' \in {scancode, 0}
  BY DEF userspace, run, keyboard_discard_last_key, run_cmd, OpenFile, cmd_read, exit,
         FdCommand, FdWait, Program, tables, devices, shared
<1>5. TypeOK'
  BY <1>4, TypeKept DEF Wired, TypeOK, Pics
<1>6. Vectored'
  BY <1>3, <1>4, VectoredKept
<1>7. Stacked'
  BY <1>3, <1>4, StackedKept DEF Booting
<1>8. Edited'
  <2>1. CASE pc' = "edit" /\ pc = "discard"
    <3>1. Buffered' <=> Buffered
      BY <1>4 DEF lineVars, typed, Buffered
    <3> QED
      BY <2>1, <3>1, <1>4 DEF Edited, Reading, lineVars, typed
  <2>2. CASE pc' \in texts \cup {"opening", "header", "overwritten", "halted", "astray"}
    BY <1>4, <2>2, EditedKept DEF Reading
  <2> QED
    BY <2>1, <2>2, <1>3
<1> QED
  BY <1>5, <1>6, <1>7, <1>8

\* Steps of the line editor leave the machine alone.
LEMMA EditorLeaves ==
  ASSUME IInv, cmd \/ get_key \/ input_cmd \/ sleep \/ Terminate
  PROVE  /\ UNCHANGED <<pic, port, pit_ticks, scancode, idt, esp0>>
         /\ Vectored' /\ Stacked'
<1> USE DEF IInv
<1>1. UNCHANGED <<pic, port, pit_ticks, scancode, idt, iflag, esp0>>
  BY DEF cmd, get_key, input_cmd, sleep, Terminate, Program, tables, devices
<1>2. /\ pc \in {"prompt", "poll", "edit", "sleep", "terminate"}
      /\ pc' \in {"overrun", "poll", "discard", "sleep", "terminate", "corrupted", "command"}
  <2>1. CASE cmd
    BY <2>1 DEF cmd, Goto, After
  <2>2. CASE get_key \/ sleep
    BY <2>2 DEF get_key, sleep, Goto
  <2>3. CASE input_cmd
    <3>1. \A j, c : Store(j, c, "sleep") => pc' \in {"sleep", "corrupted"}
      BY DEF Store
    <3> QED
      BY <2>3, <3>1 DEF input_cmd
  <2>4. CASE Terminate
    BY <2>4 DEF Terminate, Store
  <2> QED
    BY <2>1, <2>2, <2>3, <2>4
<1>3. Vectored'
  BY <1>1, <1>2, VectoredKept
<1>4. Stacked'
  BY <1>1, <1>2, StackedKept DEF Booting
<1> QED
  BY <1>1, <1>3, <1>4

\* Types of the line editor's variables.
Editing == /\ ticks \in 0 .. (Ticks - 1)
           /\ key \in KEYCODE \cup {KEY_UNKNOWN}
           /\ cmd_buf \in [0 .. (MAX_CMD_LEN - 1) -> 0 .. 255]
           /\ i \in -4 .. MAX_CMD_LEN

\* It is enough to look at the editor's variables.
LEMMA EditorHolds ==
  ASSUME IInv, cmd \/ get_key \/ input_cmd \/ sleep \/ Terminate, Editing', Edited'
  PROVE  IInv'
<1>1. UNCHANGED <<pic, port, pit_ticks, scancode>> /\ Vectored' /\ Stacked'
  BY EditorLeaves
<1>2. TypeOK'
  BY <1>1 DEF IInv, TypeOK, Editing
<1> QED
  BY <1>1, <1>2 DEF IInv

\* A new line is empty, and so is its buffer.
LEMMA NewLine ==
  ASSUME IInv, cmd
  PROVE  IInv'
<1> USE DEF IInv
<1>1. /\ cmd_buf' = [j \in 0 .. (MAX_CMD_LEN - 1) |-> 0]
      /\ i' = 0 /\ line' = <<>> /\ beyond' = FALSE
      /\ UNCHANGED <<key, ticks>>
      /\ pc' \in {"overrun", "poll"}
  BY DEF cmd, Goto, After
<1>2. MAX_CMD_LEN \in Nat \ {0}
  BY ShellAssumption
<1>3. Editing'
  BY <1>1, <1>2 DEF TypeOK, Editing
<1>4. Buffered'
  <2>1. i' # MAX_CMD_LEN /\ ~(i' < 0) /\ i' >= -3
    BY <1>1, <1>2
  <2>2. Len(line') = i' /\ 0 .. (i' - 1) = {}
    BY <1>1
  <2> QED
    BY <2>1, <2>2 DEF Buffered
<1>5. line' \in Seq(0 .. 255)
  BY <1>1
<1>6. Edited'
  BY <1>1, <1>2, <1>4, <1>5 DEF Edited, Reading
<1> QED
  BY <1>3, <1>6, EditorHolds

LEMMA KeyHolds ==
  ASSUME IInv, get_key
  PROVE  IInv'
<1> USE DEF IInv
<1>1. /\ pc = "poll" /\ pc' = "discard" /\ key' \in KEYCODE
      /\ UNCHANGED <<cmd_buf, i, ticks, line, beyond>>
  BY DEF get_key, Goto, TypeOK, typed
<1>2. Editing'
  BY <1>1 DEF TypeOK, Editing
<1>3. Buffered' <=> Buffered
  BY <1>1 DEF Buffered
<1>4. Edited'
  BY <1>1, <1>3 DEF Edited, Reading
<1> QED
  BY <1>2, <1>4, EditorHolds

LEMMA SleepHolds ==
  ASSUME IInv, sleep
  PROVE  IInv'
<1> USE DEF IInv
<1>1. /\ pc = "sleep" /\ pc' \in {"poll", "terminate"} /\ (pc' = "poll" => i < MAX_CMD_LEN)
      /\ ticks' = 0
      /\ UNCHANGED <<cmd_buf, i, key, line, beyond>>
  BY DEF sleep, Goto, typed
<1>2. Editing'
  BY <1>1, InterruptsAssumption DEF TypeOK, Editing
<1>3. Buffered' <=> Buffered
  BY <1>1 DEF Buffered
<1>4. Edited'
  BY <1>1, <1>3 DEF Edited, Reading
<1> QED
  BY <1>2, <1>4, EditorHolds

\* The least member is the one below all others.
LEMMA LeastIsMin ==
  ASSUME NEW S, NEW n \in S, n \in Int, \A j \in S : j \in Int /\ n <= j
  PROVE  Min(S) = n
<1>1. \A j \in S : n =< j
  OBVIOUS
<1>2. \A x \in S : (\A y \in S : x =< y) => x = n
  OBVIOUS
<1>3. PICK m : m = Min(S)
  OBVIOUS
<1>4. m \in S /\ \A y \in S : m =< y
  BY <1>1, <1>3, Zenon DEF Min
<1> QED
  BY <1>2, <1>3, <1>4

\* The string after a step ends at the first zero: what strcmp sees.
LEMMA FirstZeroNext ==
  ASSUME NEW n \in 0 .. (MAX_CMD_LEN - 1), line' \in Seq(0 .. 255), Len(line') = n,
         cmd_buf' \in [0 .. (MAX_CMD_LEN - 1) -> 0 .. 255],
         cmd_buf'[n] = 0,
         \A j \in 0 .. (n - 1) : cmd_buf'[j] = line'[j + 1] /\ cmd_buf'[j] # 0
  PROVE  CString' = line'
<1> DEFINE zeros == {j \in DOMAIN cmd_buf' : cmd_buf'[j] = 0}
<1>0. MAX_CMD_LEN \in Nat \ {0}
  BY ShellAssumption
<1>1. n \in zeros /\ \A j \in zeros : j \in Int /\ n <= j
  BY <1>0
<1>2. Min(zeros) = n
  <2> HIDE DEF zeros
  <2> QED BY <1>0, <1>1, LeastIsMin
<1>3. CString' = [j \in 1 .. n |-> cmd_buf'[j - 1]]
  BY <1>2 DEF CString
<1>4. \A j \in 1 .. n : cmd_buf'[j - 1] = line'[j]
  BY <1>0
<1>5. line' = [j \in 1 .. n |-> line'[j]]
  BY <1>0
<1> QED
  BY <1>3, <1>4, <1>5

\* A store of a byte leaves the buffer a buffer.
LEMMA StoreInRange ==
  ASSUME cmd_buf \in [0 .. (MAX_CMD_LEN - 1) -> 0 .. 255], NEW j, NEW c \in 0 .. 255, NEW there,
         Store(j, c, there)
  PROVE  cmd_buf' \in [0 .. (MAX_CMD_LEN - 1) -> 0 .. 255]
<1>1. CASE j \in DOMAIN cmd_buf
  BY <1>1 DEF Store
<1>2. CASE j \notin DOMAIN cmd_buf
  BY <1>2 DEF Store
<1> QED
  BY <1>1, <1>2

LEMMA TerminateHolds ==
  ASSUME IInv, Terminate
  PROVE  IInv'
<1> USE DEF IInv
<1>0. MAX_CMD_LEN \in Nat \ {0}
  BY ShellAssumption
<1>1. /\ pc = "terminate" /\ Store(i, 0, "command")
      /\ UNCHANGED <<i, key, ticks, line, beyond>>
  BY DEF Terminate, typed
<1>2. Buffered
  BY <1>1 DEF Edited
<1>3. Editing'
  <2>0. 0 \in 0 .. 255
    OBVIOUS
  <2>1. cmd_buf' \in [0 .. (MAX_CMD_LEN - 1) -> 0 .. 255]
    BY <1>1, <2>0, StoreInRange DEF TypeOK
  <2> QED
    BY <1>1, <2>1 DEF TypeOK, Editing
<1>4. pc' \in {"command", "corrupted"}
  BY <1>1 DEF Store
<1>5. CASE i \in 0 .. (MAX_CMD_LEN - 1)
  <2>1. pc' = "command" /\ cmd_buf' = [cmd_buf EXCEPT ![i] = 0]
    BY <1>1, <1>5 DEF TypeOK, Store, Harmless
  <2>2. /\ line' \in Seq(0 .. 255) /\ Len(line') = i /\ cmd_buf'[i] = 0
        /\ \A j \in 0 .. (i - 1) : cmd_buf'[j] = line'[j + 1] /\ cmd_buf'[j] # 0
    BY <1>0, <1>1, <1>2, <1>5, <2>1 DEF Buffered, TypeOK, Edited
  <2>3. CString' = line'
    BY <1>1, <1>3, <1>5, <2>2, FirstZeroNext DEF Editing
  <2>4. Edited'
    BY <1>1, <2>1, <2>2, <2>3 DEF Edited, Reading
  <2> QED
    BY <1>3, <2>4, EditorHolds
<1>6. CASE i < 0
  <2>1. line = <<>> /\ cmd_buf[0] = 0 /\ beyond
    BY <1>2, <1>6 DEF Buffered
  <2>2. cmd_buf' = cmd_buf
    BY <1>0, <1>1, <1>6 DEF Store, TypeOK
  <2>3. CString' = line'
    <3>1. Len(line') = 0 /\ line' \in Seq(0 .. 255) /\ 0 \in 0 .. (MAX_CMD_LEN - 1) /\ cmd_buf'[0] = 0
      BY <1>0, <1>1, <2>1, <2>2
    <3>2. \A j \in 0 .. (0 - 1) : cmd_buf'[j] = line'[j + 1] /\ cmd_buf'[j] # 0
      OBVIOUS
    <3> QED
      BY <1>3, <3>1, <3>2, FirstZeroNext DEF Editing
  <2>4. Edited'
    BY <1>1, <1>4, <2>1, <2>3 DEF Edited, Reading
  <2> QED
    BY <1>3, <2>4, EditorHolds
<1>7. CASE i = MAX_CMD_LEN
  <2>1. pc' = "corrupted" /\ beyond
    BY <1>0, <1>1, <1>2, <1>7 DEF Store, Harmless, TypeOK, Buffered
  <2>2. Edited'
    BY <1>1, <2>1 DEF Edited, Reading
  <2> QED
    BY <1>3, <2>2, EditorHolds
<1> QED
  BY <1>0, <1>5, <1>6, <1>7 DEF TypeOK

\* What input_cmd sets whatever the key.
LEMMA InputSets ==
  ASSUME IInv, input_cmd
  PROVE  /\ pc = "edit" /\ Buffered /\ i < MAX_CMD_LEN /\ i \in -3 .. (MAX_CMD_LEN - 1)
         /\ ticks' \in 0 .. (Ticks - 1)
         /\ key' \in KEYCODE \cup {KEY_UNKNOWN}
         /\ line' = Edit(line, key)
         /\ beyond' = (beyond \/ (key = KEY_BACKSPACE /\ line = <<>>) \/ Len(Edit(line, key)) = MAX_CMD_LEN)
         /\ beyond' \in BOOLEAN
         /\ keyboard_key_to_ascii(key) \in 0 .. 255
<1> USE DEF IInv
<1>1. MAX_CMD_LEN \in Nat \ {0}
  BY ShellAssumption
<1>2. pc = "edit" /\ Buffered /\ i < MAX_CMD_LEN /\ i \in -3 .. (MAX_CMD_LEN - 1)
  BY <1>1 DEF input_cmd, Edited, Reading, Buffered, TypeOK
<1>3. ticks' \in 0 .. (Ticks - 1)
  <2>1. ticks' = 0 \/ ticks' = (pit_ticks + SleepTicks) % Ticks
    BY DEF input_cmd
  <2>a. Ticks \in Nat \ {0} /\ SleepTicks \in Nat
    BY ShellAssumption, InterruptsAssumption
  <2>b. pit_ticks \in 0 .. (Ticks - 1)
    BY DEF TypeOK
  <2>2. Ticks \in Nat \ {0} /\ pit_ticks + SleepTicks \in Nat
    BY <2>a, <2>b
  <2>3. (pit_ticks + SleepTicks) % Ticks \in 0 .. (Ticks - 1)
    BY <2>2
  <2> QED
    BY <2>1, <2>2, <2>3
<1>4. keyboard_key_to_ascii(key) \in 0 .. 255
  <2>1. key \in Nat
    BY InterruptsAssumption DEF TypeOK, KEY_UNKNOWN
  <2> QED
    BY <2>1 DEF keyboard_key_to_ascii
<1> QED
  BY <1>2, <1>3, <1>4 DEF input_cmd

LEMMA ReturnHolds ==
  ASSUME IInv, input_cmd, key = KEY_RETURN
  PROVE  IInv'
<1> USE DEF IInv
<1>1. pc' = "terminate" /\ UNCHANGED <<cmd_buf, i>>
  BY DEF input_cmd, KEY_RETURN, KEY_BACKSPACE
<1>2. line' = line /\ (beyond => beyond')
  <2>1. Edit(line, key) = line
    BY DEF Edit, KEY_RETURN, KEY_BACKSPACE
  <2> QED
    BY <2>1, InputSets
<1>3. Editing'
  BY <1>1, InputSets DEF Editing, TypeOK
<1>4. Buffered'
  BY <1>1, <1>2, InputSets DEF Buffered
<1>5. Edited'
  BY <1>1, <1>2, <1>4, InputSets DEF Edited, Reading
<1> QED
  BY <1>3, <1>5, EditorHolds

\* A key without a character, TAB for one.
LEMMA IgnoredHolds ==
  ASSUME IInv, input_cmd, key \notin {KEY_RETURN, KEY_BACKSPACE}, keyboard_key_to_ascii(key) = 0
  PROVE  IInv'
<1> USE DEF IInv
<1>1. pc' = "sleep" /\ UNCHANGED <<cmd_buf, i>>
  BY DEF input_cmd
<1>2. line' = line /\ (beyond => beyond')
  <2>1. Edit(line, key) = line
    BY DEF Edit
  <2> QED
    BY <2>1, InputSets
<1>3. Editing'
  BY <1>1, InputSets DEF Editing, TypeOK
<1>4. Buffered'
  BY <1>1, <1>2, InputSets DEF Buffered
<1>5. Edited'
  BY <1>1, <1>2, <1>4, InputSets DEF Edited, Reading
<1> QED
  BY <1>3, <1>5, EditorHolds

\* A character goes to the index, unless the index is below the buffer.
LEMMA CharacterHolds ==
  ASSUME IInv, input_cmd, key \notin {KEY_RETURN, KEY_BACKSPACE}, keyboard_key_to_ascii(key) # 0
  PROVE  IInv'
<1> USE DEF IInv
<1> DEFINE c == keyboard_key_to_ascii(key)
<1>0. MAX_CMD_LEN \in Nat \ {0}
  BY ShellAssumption
<1>1. Store(i, c, "sleep") /\ i' = i + 1
  BY DEF input_cmd
<1>2. c \in 0 .. 255 /\ c # 0
  BY InputSets
<1>3. line' = Append(line, c)
  <2>1. Edit(line, key) = Append(line, c)
    BY DEF Edit
  <2> QED
    BY <2>1, InputSets
<1>4. (beyond => beyond') /\ (Len(line') = MAX_CMD_LEN => beyond')
  BY InputSets
<1> HIDE DEF c
<1>5. Editing'
  <2>1. cmd_buf' \in [0 .. (MAX_CMD_LEN - 1) -> 0 .. 255]
    BY <1>1, <1>2, StoreInRange DEF TypeOK
  <2> QED
    BY <1>0, <1>1, <2>1, InputSets DEF Editing
<1>6. line' \in Seq(0 .. 255) /\ Len(line') = Len(line) + 1 /\ line'[Len(line) + 1] = c
      /\ \A j \in 1 .. Len(line) : line'[j] = line[j]
  BY <1>2, <1>3 DEF Edited
<1>7. CASE i >= 0
  <2>1. i \in DOMAIN cmd_buf /\ i \in Nat
    BY <1>0, <1>7, InputSets DEF TypeOK
  <2>2. pc' = "sleep" /\ cmd_buf' = [cmd_buf EXCEPT ![i] = c]
    BY <1>1, <2>1 DEF Store, Harmless
  <2>3. Len(line) = i /\ \A j \in 0 .. (i - 1) : cmd_buf[j] = line[j + 1] /\ cmd_buf[j] # 0
    BY <1>7, InputSets DEF Buffered
  <2>4. Len(line') = i' /\ \A j \in 0 .. (i' - 1) : cmd_buf'[j] = line'[j + 1] /\ cmd_buf'[j] # 0
    <3>1. ASSUME NEW j \in 0 .. (i' - 1) PROVE cmd_buf'[j] = line'[j + 1] /\ cmd_buf'[j] # 0
      <4>1. CASE j = i
        BY <4>1, <1>2, <1>6, <2>1, <2>2, <2>3
      <4>2. CASE j # i
        <5>1. j \in 0 .. (i - 1) /\ j + 1 \in 1 .. Len(line)
          BY <4>2, <1>1, <2>1, <2>3
        <5>2. cmd_buf'[j] = cmd_buf[j]
          BY <2>2, <4>2, <5>1, <2>1, <1>0 DEF TypeOK
        <5> QED
          BY <5>1, <5>2, <2>3, <1>6
      <4> QED
        BY <4>1, <4>2
    <3> QED
      BY <3>1, <1>1, <1>6, <2>3
  <2>5. Buffered'
    BY <1>1, <1>4, <2>1, <2>4 DEF Buffered
  <2>6. Edited'
    BY <1>6, <2>2, <2>5, InputSets DEF Edited, Reading
  <2> QED
    BY <1>5, <2>6, EditorHolds
<1>8. CASE i < 0
  <2>1. pc' = "corrupted"
    BY <1>0, <1>1, <1>2, <1>8 DEF Store, Harmless, TypeOK
  <2>2. beyond'
    BY <1>4, <1>8, InputSets DEF Buffered
  <2>3. Edited'
    BY <1>6, <2>1, <2>2, InputSets DEF Edited, Reading
  <2> QED
    BY <1>5, <2>3, EditorHolds
<1> QED
  BY <1>7, <1>8 DEF TypeOK

\* A backspace moves the index back, below the buffer too.
LEMMA BackspaceHolds ==
  ASSUME IInv, input_cmd, key = KEY_BACKSPACE
  PROVE  IInv'
<1> USE DEF IInv
<1>0. MAX_CMD_LEN \in Nat \ {0} /\ 0 \in 0 .. 255
  BY ShellAssumption
<1>1. Store(i, 0, "sleep") /\ i' = i - 1
  BY DEF input_cmd, KEY_RETURN, KEY_BACKSPACE
<1>2. line' = IF line = <<>> THEN line ELSE Front(line)
  <2>1. Edit(line, key) = IF line = <<>> THEN line ELSE Front(line)
    BY DEF Edit
  <2> QED
    BY <2>1, InputSets
<1>3. (beyond => beyond') /\ (line = <<>> => beyond')
  BY InputSets
<1>4. Editing'
  <2>1. cmd_buf' \in [0 .. (MAX_CMD_LEN - 1) -> 0 .. 255]
    BY <1>0, <1>1, StoreInRange DEF TypeOK
  <2> QED
    BY <1>0, <1>1, <2>1, InputSets DEF Editing
<1>5. CASE i > 0
  <2>1. i \in DOMAIN cmd_buf /\ i \in Nat /\ i - 1 \in Nat
    BY <1>0, <1>5, InputSets DEF TypeOK
  <2>2. pc' = "sleep" /\ cmd_buf' = [cmd_buf EXCEPT ![i] = 0]
    BY <1>1, <2>1 DEF Store, Harmless
  <2>3. Len(line) = i /\ \A j \in 0 .. (i - 1) : cmd_buf[j] = line[j + 1] /\ cmd_buf[j] # 0
    BY <1>5, InputSets DEF Buffered
  <2>4. line' = SubSeq(line, 1, i - 1)
    BY <1>2, <1>5, <2>3 DEF Front
  <2>5. /\ line' \in Seq(0 .. 255) /\ Len(line') = i - 1
        /\ \A j \in 1 .. (i - 1) : line'[j] = line[j]
    <3>1. line \in Seq(0 .. 255) /\ i - 1 \in 0 .. Len(line)
      BY <2>1, <2>3 DEF Edited
    <3> QED
      BY <2>4, <3>1, PrefixOf
  <2>6. \A j \in 0 .. (i' - 1) : cmd_buf'[j] = line'[j + 1] /\ cmd_buf'[j] # 0
    <3> TAKE j \in 0 .. (i' - 1)
    <3>1. j \in 0 .. (i - 1) /\ j # i /\ j + 1 \in 1 .. (i - 1) /\ j \in 0 .. (MAX_CMD_LEN - 1)
      BY <1>0, <1>1, <2>1, InputSets
    <3>2. cmd_buf'[j] = cmd_buf[j]
      BY <2>2, <3>1 DEF TypeOK
    <3> QED
      BY <2>3, <2>5, <3>1, <3>2
  <2>7. Buffered'
    BY <1>0, <1>1, <2>1, <2>5, <2>6, InputSets DEF Buffered
  <2>8. Edited'
    BY <2>2, <2>5, <2>7, InputSets DEF Edited, Reading
  <2> QED
    BY <1>4, <2>8, EditorHolds
<1>6. CASE i <= 0
  <2>1. line = <<>> /\ line' = <<>> /\ beyond'
    <3>1. line = <<>>
      BY <1>6, InputSets DEF Buffered, Edited
    <3> QED
      BY <3>1, <1>2, <1>3
  <2>2. cmd_buf'[0] = 0
    <3>1. CASE i = 0
      <4>1. i \in DOMAIN cmd_buf
        BY <1>0, <3>1 DEF TypeOK
      <4> QED
        BY <1>1, <3>1, <4>1 DEF Store
    <3>2. CASE i < 0
      BY <1>0, <1>1, <3>2, InputSets DEF Store, TypeOK, Buffered
    <3> QED
      BY <1>6, <3>1, <3>2 DEF TypeOK
  <2>3. pc' \in {"sleep", "corrupted"} /\ (i = -3 => pc' = "corrupted")
    BY <1>0, <1>1 DEF Store, Harmless, TypeOK
  <2>4. pc' = "sleep" => Buffered'
    BY <1>0, <1>1, <1>6, <2>1, <2>2, <2>3, InputSets DEF Buffered
  <2>5. Edited'
    <3>1. line' \in Seq(0 .. 255)
      BY <2>1
    <3> QED
      BY <2>1, <2>3, <2>4, <3>1, InputSets DEF Edited, Reading
  <2> QED
    BY <1>4, <2>5, EditorHolds
<1> QED
  BY <1>5, <1>6 DEF TypeOK

---------------------------------------------------------------------------
(* The invariant holds.                                                    *)

LEMMA InitHolds ==
  ASSUME Init
  PROVE  IInv
<1>0. MAX_CMD_LEN \in Nat \ {0} /\ Ticks \in Nat \ {0}
  BY ShellAssumption, InterruptsAssumption
<1>1. TypeOK
  BY <1>0 DEF Init, IntInit, TypeOK, IRQ
<1>2. Vectored
  BY DEF Init, IntInit, Vectored
<1>3. Stacked
  BY DEF Init, IntInit, Stacked, Booting
<1>4. Edited
  <2>0. line = <<>> /\ beyond = FALSE /\ pc = "hal"
    BY DEF Init, IntInit
  <2>1. beyond \in BOOLEAN
    BY <2>0, Zenon
  <2>2. line \in Seq(0 .. 255)
    BY <2>0
  <2> QED
    BY <2>0, <2>1, <2>2 DEF Edited, Reading
<1> QED
  BY <1>1, <1>2, <1>3, <1>4 DEF IInv

LEMMA StepHolds ==
  ASSUME IInv, [Next]_vars
  PROVE  IInv'
<1>1. CASE UNCHANGED vars
  <2>1. UNCHANGED <<pc, pic, pit_ticks, scancode, port, idt, iflag, esp0, lineVars>>
    BY <1>1 DEF vars, intVars, devices, shared, tables
  <2>2. TypeOK'
    BY <2>1, TypeKept DEF IInv, Wired, TypeOK, Pics
  <2>3. Vectored'
    BY <2>1, VectoredKept DEF IInv
  <2>4. Stacked'
    BY <2>1, StackedKept DEF IInv
  <2>5. Edited'
    BY <2>1, EditedKept DEF IInv
  <2> QED
    BY <2>2, <2>3, <2>4, <2>5 DEF IInv
<1>2. CASE input_cmd
  BY <1>2, ReturnHolds, BackspaceHolds, CharacterHolds, IgnoredHolds
<1>3. CASE ShellStep
  BY <1>2, <1>3, OthersHold, NewLine, KeyHolds, SleepHolds, TerminateHolds DEF ShellStep
<1> QED
  BY <1>1, <1>3, KernelHolds, DevicesHold, HandlerHolds DEF Next

LEMMA Invariant == Spec => []IInv
  BY InitHolds, StepHolds, PTL DEF Spec

---------------------------------------------------------------------------
(* The theorems.                                                           *)

\* Every variable keeps its type; input_cmd's index goes no further than four
\* bytes below the buffer, and never past the byte after it.
THEOREM TypeCorrect == Spec => []TypeOK
<1>1. IInv => TypeOK
  BY DEF IInv
<1> QED
  BY <1>1, Invariant, PTL

\* kmain's order of hal_init, descriptors, masks and sti leaves no moment at
\* which a line that is let through reaches another routine than its own.
THEOREM LinesReachHandlers == Spec => []IrqGetsItsHandler
<1>1. IInv => IrqGetsItsHandler
  <2> SUFFICES ASSUME IInv, iflag, NEW n \in (IRQ \ pic.imr) \ {2}
               PROVE  idt[pic.base + n] = Gate([m \in {0, 1, 6} |->
                                                  CASE m = 0 -> "timer_irq0_handler"
                                                    [] m = 1 -> "keyboard_irq1_handler"
                                                    [] OTHER -> "fd_irq6_handler"][n], "int")
    BY DEF IrqGetsItsHandler
  <2>1. /\ pic.base = 32 /\ pic.imr = {3, 4, 5, 7}
        /\ idt[32] = Gate("timer_irq0_handler", "int")
        /\ idt[33] = Gate("keyboard_irq1_handler", "int")
        /\ idt[38] = Gate("fd_irq6_handler", "int")
    BY DEF IInv, Vectored
  <2>2. n \in {0, 1, 6}
    BY <2>1 DEF IRQ
  <2>3. CASE n = 0
    BY <2>1, <2>3
  <2>4. CASE n = 1
    BY <2>1, <2>4
  <2>5. CASE n = 6
    BY <2>1, <2>5
  <2> QED
    BY <2>2, <2>3, <2>4, <2>5
<1> QED
  BY <1>1, Invariant, PTL

\* With ESP cut to 16 bits by tss_set_stack, the stack of handlers and system
\* calls lies in the lowest 64 KB, and the user program's, which starts two
\* words below kmain's, above them.
THEOREM StacksStayApart == StacksFit => (Spec => []StacksApart)
<1> SUFFICES ASSUME StacksFit PROVE Spec => []StacksApart
  OBVIOUS
<1>0. /\ Half \in Nat \ {0} /\ StackTop \in Nat /\ KmainFrame \in Nat \ {0}
      /\ StackSize \in Nat \ {0} /\ ReservedTop \in Nat
  BY InterruptsAssumption
<1>1. PICK n \in Nat : n >= 2 /\ StackTop = Half * n
  BY DEF StacksFit
<1>2. Esp % Half = Half - KmainFrame /\ Esp >= 2 * Half - KmainFrame
  <2>1. Esp = Half * (n - 1) + (Half - KmainFrame)
    BY <1>0, <1>1 DEF Esp
  <2>2. Half - KmainFrame \in 0 .. (Half - 1)
    BY <1>0 DEF StacksFit
  <2>3. Esp % Half = Half - KmainFrame
    <3>1. n - 1 \in Nat /\ Esp \in Int
      BY <1>0, <1>1 DEF Esp
    <3> QED
      BY <1>0, <2>1, <2>2, <3>1, Remainder
  <2>4. Half * (n - 1) >= Half
    BY <1>0, <1>1
  <2> QED
    BY <1>0, <2>1, <2>3, <2>4
<1>3. IInv => StacksApart
  <2> SUFFICES ASSUME IInv, pc \notin Booting \cup {"hung"}
               PROVE  /\ ((esp0 - StackSize) .. (esp0 - 1)) \cap ((UserEsp - StackSize) .. UserEsp) = {}
                      /\ \A a \in (esp0 - StackSize) .. (esp0 - 1) : a \in 0 .. (ReservedTop - 1)
    BY DEF StacksApart, Booting
  <2>1. esp0 = Half - KmainFrame
    BY <1>2 DEF IInv, Stacked
  <2>2. Esp \in Int /\ UserEsp = Esp - 8
    BY <1>0 DEF Esp, UserEsp
  <2> QED
    BY <1>0, <1>2, <2>1, <2>2 DEF StacksFit
<1> QED
  BY <1>3, Invariant, PTL

\* What run_cmd compares with the commands is the line as it was typed and
\* edited, and input_cmd leaves its buffer only after a backspace on an empty
\* line or with MAX_CMD_LEN characters on it.
THEOREM CommandIsLine == Spec => []LineAsTyped
<1>1. IInv => LineAsTyped
  BY DEF IInv, Edited, LineAsTyped
<1> QED
  BY <1>1, Invariant, PTL
===========================================================================
