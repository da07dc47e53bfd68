------------------------------- MODULE Shell -------------------------------
(***************************************************************************)
(* userspace.c, the program in ring 3, with printf, the key codes and the  *)
(* system calls it makes, under the interrupts of Interrupts.              *)
(*                                                                         *)
(* A key is its KEYCODE; a key whose scan code lies past the end of keys[] *)
(* is whatever the memory there makes of it, so it is one of them too.  A  *)
(* system call runs with interrupts off and is one step, and so is a print *)
(* (Console cuts it into its loads and stores).                            *)
(*                                                                         *)
(* Once memory outside its buffers has been written, the program ends in   *)
(* "corrupted", "overwritten" or "overrun": nothing is said of what the    *)
(* next walk of the heap does.                                             *)
(***************************************************************************)
EXTENDS Interrupts, SequencesExt

CONSTANTS MAX_CMD_LEN,  \* 99
          SleepTicks,   \* sleep(10)
          Command,      \* [help, exit, clear, read]: the words, as characters
          MaxKeys       \* bound: keys pressed

ASSUME ShellAssumption ==
  /\ {MAX_CMD_LEN, SleepTicks, MaxKeys} \subseteq Nat \ {0}
  /\ DOMAIN Command = {"help", "exit", "clear", "read"}

VARIABLES cmd_buf,  \* the command buffer, [0 .. MAX_CMD_LEN-1 -> bytes]
          i,        \* input_cmd's index
          key,      \* the key get_key has read
          ticks,    \* what sleep waits for
          pressed,  \* keys pressed so far (history)
          line,     \* what the keys of this line should make of it (history)
          beyond    \* did a backspace come on an empty line, or were MAX_CMD_LEN
                    \* characters on it? (history)

typed == <<line, beyond>>
lineVars == <<cmd_buf, i, key, ticks, typed>>
vars == <<intVars, lineVars, pressed>>

---------------------------------------------------------------------------
(* keyboard.h, keyboard_key_to_ascii.                                      *)

KEY_BACKSPACE == 8
KEY_RETURN == 13
KEY_TAB == 16384
KEY_UNKNOWN == 16402

\* The low byte: a letter's code is the letter, TAB's low byte is 0, and the
\* other special keys become control characters.
keyboard_key_to_ascii(code) == code % 256

---------------------------------------------------------------------------
(* printf.  Before it looks at each character of the format it enlarges a  *)
(* buffer that is too small already: while (len > max) max *= 2.           *)

max == 256

\* Broken: the buffer is small and stays so.
SizeFixed(len) == 128

\* The size of the buffer when len characters are in it, up to 64 KB.
Size(len) == Min({n \in {max * (2^k) : k \in 0 .. 8} : n >= len})

\* Does a print write past its buffer?  The format has so many characters before
\* and after a conversion that makes n characters at once.  A '\0' comes last.
Overruns(before, n, after) ==
  LET len == before + n + after
      single == (0 .. (before - 1)) \cup ((before + n) .. (len - 1))
  IN \/ \E l \in single : l >= Size(l)
     \/ before + n > Size(before)
     \/ len >= Size(IF after > 0 THEN len - 1 ELSE before)

Overrun == [logo |-> Overruns(182, 0, 0), hint |-> Overruns(52, 0, 0), prompt |-> Overruns(7, 0, 0),
            help |-> \E n \in {21, 36, 28, 31, 22} : Overruns(n, 0, 0),
            unknown |-> Overruns(16, 0, 0), bye |-> Overruns(38, 0, 0)]

\* The name of a file, in "---------[%s]---------": strcpy did not terminate it,
\* so it goes on with what the stack holds after it.
NameLengths == {11, 300}
FittingNames == {n \in NameLengths : ~Overruns(13, n, 12)}

---------------------------------------------------------------------------
(* System calls.                                                           *)

syscalls == <<"test0", "sleep", "malloc", "free", "exit">>

\* The dispatcher has its own MAX_SYSCALLS, 4.
syscall_dispatcher(n) == IF n <= 3 THEN syscalls[n + 1] ELSE "invalid_syscall"

\* int 0x80 from ring 3 with number n reaches the call it is meant for.
Syscall(n, name) == idt[128] = Gate("syscall_dispatcher", "int_user") /\ syscall_dispatcher(n) = name

---------------------------------------------------------------------------
(* The program.                                                            *)

Goto(here, there) == pc = here /\ pc' = there
Program == UNCHANGED <<pic, devices, pit_ticks, fd_irq6_stat, tables, pressed>>
\* Where a print of text leads.
After(text, there) == IF Overrun[text] THEN "overrun" ELSE there

userspace == /\ Goto("banner", IF Overrun.logo THEN "overrun" ELSE After("hint", "run"))
             /\ Syscall(2, "malloc") /\ Syscall(3, "free")
             /\ Program /\ UNCHANGED <<scancode, lineVars>>

run == /\ Goto("run", "prompt")
       /\ Syscall(2, "malloc")
       /\ Program /\ UNCHANGED <<scancode, lineVars>>

\* The head of run's loop, and input_cmd up to its own.
cmd == /\ Goto("prompt", After("prompt", "poll"))
       /\ cmd_buf' = [j \in 0 .. (MAX_CMD_LEN - 1) |-> 0]
       /\ i' = 0
       /\ line' = <<>> /\ beyond' = FALSE
       /\ Program /\ UNCHANGED <<scancode, key, ticks>>

get_key == /\ Goto("poll", "discard")
           /\ scancode \notin {0, KEY_UNKNOWN}
           /\ key' = scancode
           /\ Program /\ UNCHANGED <<scancode, cmd_buf, i, ticks, typed>>

keyboard_discard_last_key == /\ Goto("discard", "edit")
                             /\ scancode' = 0
                             /\ Program /\ UNCHANGED lineVars

\* A store to buf[j].  Below the buffer is the next pointer of its block, whose
\* upper two bytes are 0, since the heap lies below 64 KB.
Harmless(j, c) == j \in DOMAIN cmd_buf \/ (j \in {-1, -2} /\ c = 0)
Store(j, c, there) == /\ pc' = IF Harmless(j, c) THEN there ELSE "corrupted"
                      /\ cmd_buf' = IF j \in DOMAIN cmd_buf THEN [cmd_buf EXCEPT ![j] = c] ELSE cmd_buf

\* What a key should make of the line: characters come in order, a backspace
\* takes off the last one.
Edit(l, k) == CASE k = KEY_BACKSPACE -> IF l = <<>> THEN l ELSE Front(l)
                [] k # KEY_BACKSPACE /\ keyboard_key_to_ascii(k) # 0 /\ k # KEY_RETURN ->
                     Append(l, keyboard_key_to_ascii(k))
                [] OTHER -> l

input_cmd ==
  /\ pc = "edit"
  /\ CASE key = KEY_RETURN -> pc' = "terminate" /\ UNCHANGED <<cmd_buf, i>>
       [] key = KEY_BACKSPACE -> Store(i, 0, "sleep") /\ i' = i - 1
       [] key \notin {KEY_RETURN, KEY_BACKSPACE} /\ keyboard_key_to_ascii(key) # 0 ->
            Store(i, keyboard_key_to_ascii(key), "sleep") /\ i' = i + 1
       [] OTHER -> pc' = "sleep" /\ UNCHANGED <<cmd_buf, i>>
  /\ ticks' = IF key = KEY_RETURN THEN 0 ELSE (pit_ticks + SleepTicks) % Ticks
  /\ key' = KEY_UNKNOWN
  /\ line' = Edit(line, key)
  /\ beyond' = (beyond \/ (key = KEY_BACKSPACE /\ line = <<>>) \/ Len(Edit(line, key)) = MAX_CMD_LEN)
  /\ Program /\ UNCHANGED scancode

sleep == /\ Goto("sleep", IF i < MAX_CMD_LEN THEN "poll" ELSE "terminate")
         /\ ~(ticks > pit_ticks)
         /\ ticks' = 0
         /\ Program /\ UNCHANGED <<scancode, cmd_buf, i, key, typed>>

\* Broken: the line is not terminated.
NoTerminate == /\ Goto("terminate", "command")
               /\ Program /\ UNCHANGED <<scancode, lineVars>>

\* buf[i] = '\0'.
Terminate == /\ pc = "terminate"
             /\ Store(i, 0, "command")
             /\ Program /\ UNCHANGED <<scancode, i, key, ticks, typed>>

\* The string in the buffer, which strcmp compares.
CString == LET n == Min({j \in DOMAIN cmd_buf : cmd_buf[j] = 0}) IN [j \in 1 .. n |-> cmd_buf[j - 1]]

run_cmd ==
  /\ Goto("command", CASE CString = Command.help -> After("help", "prompt")
                       [] CString = Command.exit -> "bye"
                       [] CString = Command.clear -> "prompt"
                       [] CString = Command.read -> "open"
                       [] OTHER -> After("unknown", "prompt"))
  /\ Program /\ UNCHANGED <<scancode, lineVars>>

\* vol_open_file reads the root directory: the disk and its interrupt.
OpenFile == (FdCommand("open", "opening") \/ FdWait("opening", "header")) /\ UNCHANGED <<lineVars, pressed>>

\* A file that is found is read: a sector of 512 bytes into a buffer of 128.
\* One that is not found is left uninitialised, its end mark included.
cmd_read == /\ pc = "header"
            /\ Syscall(2, "malloc")
            /\ \E n \in NameLengths : pc' \in {"overwritten"} \cup (IF n \in FittingNames THEN {"prompt"} ELSE {})
            /\ Program /\ UNCHANGED <<scancode, lineVars>>

\* exit(0): cli; hlt if the call gets through.  Otherwise userspace returns, to
\* the selector that jmp_userspace left on the stack.
exit == /\ pc = "bye"
        /\ Syscall(3, "free")
        /\ IF syscall_dispatcher(4) = "exit"
             THEN pc' = "halted" /\ iflag' = FALSE
             ELSE pc' = After("bye", "astray") /\ UNCHANGED iflag
        /\ UNCHANGED <<pic, devices, shared, idt, esp0, early, lineVars, pressed>>

ShellStep == \/ userspace \/ run \/ cmd \/ get_key \/ keyboard_discard_last_key
             \/ input_cmd \/ sleep \/ Terminate \/ run_cmd \/ OpenFile \/ cmd_read \/ exit

---------------------------------------------------------------------------
Init == /\ IntInit
        /\ cmd_buf = [j \in 0 .. (MAX_CMD_LEN - 1) |-> 0]
        /\ i = 0 /\ key = KEY_UNKNOWN /\ ticks = 0
        /\ pressed = 0 /\ line = <<>> /\ beyond = FALSE

Ended == pc \in {"hung", "corrupted", "overwritten", "astray", "halted"}

Press == /\ pressed < MaxKeys
         /\ \E k \in KEYCODE : KeyRaise(k)
         /\ pressed' = pressed + 1
         /\ UNCHANGED lineVars
Lift == KeyRaise(Release) /\ UNCHANGED <<lineVars, pressed>>

Kernel == kmain /\ UNCHANGED <<lineVars, pressed>>
Timer == TimerRaise /\ UNCHANGED <<lineVars, pressed>>
Disk == FdcRaise /\ UNCHANGED <<lineVars, pressed>>
Handler == Handlers /\ UNCHANGED <<lineVars, pressed>>

Next == ~Ended /\ (Kernel \/ ShellStep \/ Timer \/ Press \/ Lift \/ Disk \/ Handler)

\* The timer ticks, the disk answers, and between two ticks the processor gets
\* round to the other lines and to the program: a millisecond is long.
Fairness == /\ SF_vars(~Ended /\ (Kernel \/ ShellStep))
            /\ WF_vars(~Ended /\ Timer)
            /\ WF_vars(~Ended /\ Disk)
            /\ SF_vars(~Ended /\ timer_irq0_handler /\ UNCHANGED <<lineVars, pressed>>)
            /\ SF_vars(~Ended /\ keyboard_irq1_handler /\ UNCHANGED <<lineVars, pressed>>)
            /\ SF_vars(~Ended /\ fd_irq6_handler /\ UNCHANGED <<lineVars, pressed>>)

Spec == Init /\ [][Next]_vars /\ Fairness

---------------------------------------------------------------------------
(* What is claimed.                                                        *)

TypeOK == /\ pic \in [base : {8, 32}, imr : SUBSET IRQ, irr : SUBSET IRQ, isr : SUBSET IRQ]
          /\ pit_ticks \in 0 .. (Ticks - 1) /\ ticks \in 0 .. (Ticks - 1)
          /\ scancode \in KEYCODE \cup {0} /\ key \in KEYCODE \cup {KEY_UNKNOWN}
          /\ port \in KEYCODE \cup {None, Release}
          /\ cmd_buf \in [0 .. (MAX_CMD_LEN - 1) -> 0 .. 255]
          /\ i \in -4 .. MAX_CMD_LEN

\* Whenever an interrupt can arrive, every line that is let through has its own
\* handler behind an interrupt gate: kmain sets up controller, table and masks
\* in an order that leaves no gap.  (Line 2 is the second controller's.)
IrqGetsItsHandler ==
  iflag => \A irq \in (IRQ \ pic.imr) \ {2} :
             idt[pic.base + irq] = Gate([n \in {0, 1, 6} |-> CASE n = 0 -> "timer_irq0_handler"
                                                               [] n = 1 -> "keyboard_irq1_handler"
                                                               [] OTHER -> "fd_irq6_handler"][irq], "int")

\* While the user program runs, what handlers and system calls push lies neither
\* on the stack the program uses, which is kmain's, nor in memory that is
\* handed out.  It is the truncation of ESP to 16 bits that sees to that.
StacksApart ==
  pc \notin {"hal", "handlers", "fd_init", "fd_wait", "jmp", "hung"} =>
    LET pushed == (esp0 - StackSize) .. (esp0 - 1)
    IN /\ pushed \cap ((UserEsp - StackSize) .. UserEsp) = {}
       /\ \A a \in pushed : a \in 0 .. (ReservedTop - 1)

\* The command that is run is the line that was typed, however it was edited;
\* and the editor leaves its buffer only if a backspace came on an empty line
\* or MAX_CMD_LEN characters were on it.
LineAsTyped == /\ pc = "command" => CString = line
               /\ pc = "corrupted" => beyond

\* No line stays up, and no key stays in the keyboard, for ever, unless the key
\* came before kmain set up the controller: every interrupt is served, in every
\* state of the program.
EveryIrqServed ==
  /\ \A irq \in {0, 1, 6} : []<>(irq \notin pic.irr \/ Ended)
  /\ []<>(port = None \/ early \/ Ended)

\* The machine starts up, and the shell comes back to where it waits for a key,
\* whatever is typed, until it ends.
AlwaysReachesInput == []<>(pc = "poll" \/ Ended)

\* exit halts the system: it does not come back.
ExitNeverReturns == pc # "astray"
===========================================================================
