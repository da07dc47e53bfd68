---------------------------- MODULE Interrupts ----------------------------
(***************************************************************************)
(* pic.c, idt.c, tss.c and pit.c, and kmain's use of them: which routine   *)
(* an interrupt line reaches, on which stack, and who may interrupt whom.  *)
(* The handlers are behind interrupt gates, so each runs whole, with its   *)
(* end-of-interrupt; devices raise their lines at any time.                *)
(*                                                                         *)
(* The first interrupt controller is a record (external).  The second      *)
(* stays masked from disable_pic on: its lines reach nobody.               *)
(***************************************************************************)
EXTENDS Integers, Sequences, FiniteSetsExt

CONSTANTS Ticks,       \* values of pit_ticks (2^32)
          Half,        \* values of a uint16_t (65536)
          StackTop,    \* where stage 2 puts the stack, 0x90000
          KmainFrame,  \* what kmain has put on it when it reads ESP
          StackSize,   \* how deep handlers and the user program go
          ReservedTop, \* memory below this is never handed out, 0x16000
          KEYCODE      \* the keys there are (numbers, see Shell)

ASSUME InterruptsAssumption ==
  /\ {Ticks, Half, StackTop, KmainFrame, StackSize, ReservedTop} \subseteq Nat \ {0}
  /\ KmainFrame + StackSize < StackTop
  /\ KEYCODE \subseteq Nat \ {0}

VARIABLES pc,            \* where kmain, then the user program, is
          idt,           \* [Vectors -> [routine, gate]]
          pic,           \* [base, imr, irr, isr]: the first controller
          iflag,         \* the interrupt flag
          esp0,          \* TSS.esp0
          pit_ticks,
          fd_irq6_stat,
          fdc,           \* is the floppy controller busy
          port,          \* the keyboard's output buffer: a key, Release or None
          scancode,      \* the key last pressed, 0 if discarded
          early          \* a key came before the controller was set up (history)

devices == <<fdc, port>>
shared == <<pit_ticks, fd_irq6_stat, scancode>>
tables == <<idt, iflag, esp0, early>>
intVars == <<pc, pic, devices, shared, tables>>

None == 0
Release == -1

---------------------------------------------------------------------------
(* pic.c.                                                                  *)

IRQ == 0 .. 7

disable_pic(p) == [p EXCEPT !.imr = IRQ]
clear_irq_mask(p, irq) == [p EXCEPT !.imr = @ \ {irq}]

\* Broken: the vectors stay where the BIOS put them.
InitKeepsBase(p) == [p EXCEPT !.irr = {}, !.isr = {}]

\* The chip forgets its requests; the masks are put back.
pic_init(p) == [p EXCEPT !.base = 32, !.irr = {}, !.isr = {}]

\* Broken: no end of interrupt.
NoEoi(p) == p

\* Which line is not said: the chip ends the one of the highest priority.
send_pic_eoi(p) == [p EXCEPT !.isr = IF @ = {} THEN {} ELSE @ \ {Min(@)}]

\* A line goes up (external).
RaiseLine(p, irq) == [p EXCEPT !.irr = @ \cup {irq}]

---------------------------------------------------------------------------
(* idt.c.                                                                  *)

\* Of the 256 vectors those that the BIOS, and then kmain, give to lines 0, 1,
\* 6 and 7 (14 is the page fault's as well), and int 0x80.
Vectors == {8, 9, 14, 15} \cup {32, 33, 38, 39} \cup {128}
WithErrorCode == {8, 10, 11, 12, 13, 14, 17, 21}
Gate(routine, gate) == [routine |-> routine, gate |-> gate]

idt_set_descriptor(t, i, irq, gate) == [t EXCEPT ![i] = Gate(irq, gate)]

idt_init == [i \in Vectors |->
               IF i >= 32 THEN Gate("default_int_handler", "int")
               ELSE IF i \in WithErrorCode THEN Gate("default_excp_handler_err_code", "trap")
               ELSE Gate("default_excp_handler", "trap")]

---------------------------------------------------------------------------
(* tss.c and user.asm: the stacks.                                         *)

Esp == StackTop - KmainFrame

\* Broken: the whole of ESP.
SetStackWhole(esp) == esp0' = esp

\* The parameter is a uint16_t.
tss_set_stack(esp) == esp0' = esp % Half

tss_init(esp) == esp0' = esp % Half

\* jmp_userspace: the user goes on with the kernel's stack, below the return
\* address and the SS that was pushed.
UserEsp == Esp - 8

---------------------------------------------------------------------------
(* kmain.                                                                  *)

hal_init ==
  /\ pc = "hal"
  /\ pc' = "handlers"
  /\ idt' = idt_init
  /\ pic' = pic_init(disable_pic(pic))
  /\ tss_init(0)
  /\ early' = (port # None)
  /\ UNCHANGED <<iflag, devices, shared>>

\* The timer chip ticks before and after; the count starts again.
pit_set_channel_mode_frequency(channel, freq) ==
  pit_ticks' = IF channel > 2 \/ freq = 0 THEN pit_ticks ELSE 0

setup_interrupt_handlers ==
  LET exc == idt_set_descriptor(idt, 14, "page_fault_handler", "trap")
      sys == idt_set_descriptor(exc, 128, "syscall_dispatcher", "int_user")
      irq0 == idt_set_descriptor(sys, 32, "timer_irq0_handler", "int")
      irq1 == idt_set_descriptor(irq0, 33, "keyboard_irq1_handler", "int")
  IN /\ pc = "handlers"
     /\ pc' = "fd_init"
     /\ idt' = idt_set_descriptor(irq1, 38, "fd_irq6_handler", "int")
     /\ pic' = clear_irq_mask(clear_irq_mask(clear_irq_mask(clear_irq_mask(pic, 0), 1), 2), 6)
     /\ pit_set_channel_mode_frequency(0, 1000)
     /\ iflag' = TRUE
     /\ UNCHANGED <<esp0, early, devices, fd_irq6_stat, scancode>>

\* A command to the floppy controller, and fd_wait_irq6 (see Floppy).
FdCommand(here, there) == /\ pc = here
                          /\ pc' = there
                          /\ fdc' = TRUE
                          /\ UNCHANGED <<pic, port, shared, tables>>
FdWait(here, there) == /\ pc = here
                       /\ pc' = there
                       /\ fd_irq6_stat = 1
                       /\ fd_irq6_stat' = 0
                       /\ UNCHANGED <<pic, devices, pit_ticks, scancode, tables>>

fd_init == FdCommand("fd_init", "fd_wait") \/ FdWait("fd_wait", "jmp")

jmp_userspace == /\ pc = "jmp"
                 /\ pc' = "banner"
                 /\ tss_set_stack(Esp)
                 /\ iflag' = TRUE
                 /\ UNCHANGED <<idt, early, pic, devices, shared>>

kmain == hal_init \/ setup_interrupt_handlers \/ fd_init \/ jmp_userspace

---------------------------------------------------------------------------
(* Devices (external).                                                     *)

TimerRaise == /\ pic' = RaiseLine(pic, 0)
              /\ UNCHANGED <<pc, devices, shared, tables>>

\* The keyboard holds its line up until it is read.
KeyRaise(code) == /\ port = None
                  /\ port' = code
                  /\ pic' = RaiseLine(pic, 1)
                  /\ UNCHANGED <<pc, fdc, shared, tables>>

FdcRaise == /\ fdc
            /\ fdc' = FALSE
            /\ pic' = RaiseLine(pic, 6)
            /\ UNCHANGED <<pc, port, shared, tables>>

---------------------------------------------------------------------------
(* Handlers.                                                               *)

\* The processor takes line irq (external): of the lines that are up and not
\* masked the first, and no line before it is in service.
Taken(irq) == [pic EXCEPT !.irr = @ \ {irq}, !.isr = @ \cup {irq}]
Deliver(irq, routine) ==
  /\ iflag
  /\ irq \in pic.irr \ pic.imr
  /\ \A i \in ((pic.irr \ pic.imr) \ {irq}) \cup pic.isr : irq < i
  /\ idt[pic.base + irq].routine = routine

timer_irq0_handler ==
  \E irq \in IRQ : /\ Deliver(irq, "timer_irq0_handler")
                   /\ pit_ticks' = (pit_ticks + 1) % Ticks
                   /\ pic' = send_pic_eoi(Taken(irq))
                   /\ UNCHANGED <<pc, devices, fd_irq6_stat, scancode, tables>>

\* Broken: releases are stored as well.
KeyboardKeepsReleases ==
  \E irq \in IRQ : /\ Deliver(irq, "keyboard_irq1_handler")
                   /\ scancode' = IF port # None THEN port ELSE scancode
                   /\ port' = None
                   /\ pic' = send_pic_eoi(Taken(irq))
                   /\ UNCHANGED <<pc, fdc, pit_ticks, fd_irq6_stat, tables>>

\* A key release is a negative int8_t and is dropped.  The echo is in Console.
keyboard_irq1_handler ==
  \E irq \in IRQ : /\ Deliver(irq, "keyboard_irq1_handler")
                   /\ scancode' = IF port > 0 THEN port ELSE scancode
                   /\ port' = None
                   /\ pic' = send_pic_eoi(Taken(irq))
                   /\ UNCHANGED <<pc, fdc, pit_ticks, fd_irq6_stat, tables>>

fd_irq6_handler ==
  \E irq \in IRQ : /\ Deliver(irq, "fd_irq6_handler")
                   /\ fd_irq6_stat' = 1
                   /\ pic' = send_pic_eoi(Taken(irq))
                   /\ UNCHANGED <<pc, devices, pit_ticks, scancode, tables>>

\* A line that drops too early is reported as line 7, masked or not, and not
\* in service.  The handler sleeps on the timer, with interrupts off.
default_int_handler == /\ iflag
                       /\ idt[pic.base + 7].routine = "default_int_handler"
                       /\ pc' = "hung"
                       /\ iflag' = FALSE
                       /\ UNCHANGED <<pic, devices, shared, idt, esp0, early>>

Handlers == timer_irq0_handler \/ keyboard_irq1_handler \/ fd_irq6_handler \/ default_int_handler

IntInit == /\ pc = "hal"
           /\ idt = [i \in Vectors |-> Gate("bios", "int")]
           /\ pic = [base |-> 8, imr |-> {}, irr |-> {}, isr |-> {}]
           /\ iflag = FALSE
           /\ esp0 = 0 /\ pit_ticks = 0 /\ fd_irq6_stat = 0 /\ scancode = 0
           /\ fdc = FALSE /\ port = None /\ early = FALSE
===========================================================================
