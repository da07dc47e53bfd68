------------------------------ MODULE Floppy ------------------------------
(***************************************************************************)
(* floppydisk.c: the driver, its IRQ6 handler and the timer it sleeps on,  *)
(* against a floppy controller (external) that finishes commands when it   *)
(* likes.  The driver and the handlers share fd_irq6_stat and nothing      *)
(* else; a wait for IRQ6 is two steps, seeing the flag and clearing it.    *)
(*                                                                         *)
(* A command and its parameter bytes are one step: fd_send_command polls   *)
(* the status register and the controller takes them when it is idle.  If  *)
(* it is not, they are dropped, as they are after 500 polls.               *)
(*                                                                         *)
(* The bytes of a sector reach DMA_BUFFER through the chip of module Dma,  *)
(* which is programmed once; a byte in memory is a pair, the sector it is  *)
(* from and its number in it.                                              *)
(***************************************************************************)
EXTENDS Dma

CONSTANTS SectorsPerTrack,  \* FD_SECTORS_PER_TRACK, 18
          Tracks,           \* cylinders of the disk
          Attempts,         \* tries of a seek or calibrate: i = 1 .. 9
          SleepTicks,       \* timer ticks of sleep(20)
          Requests          \* the sectors asked for

ASSUME DiskAssumption ==
  /\ SectorsPerTrack \in Nat \ {0} /\ Tracks \in Nat \ {0}
  /\ Attempts \in Nat \ {0} /\ SleepTicks \in Nat
  /\ Requests \subseteq 0 .. (2 * SectorsPerTrack * Tracks - 1)

VARIABLES pc,           \* where the driver is
          lba,          \* the sector being read
          attempt,      \* the loop counter of fd_seek and fd_calibrate
          fd_irq6_stat,
          wake,         \* ticks until sleep returns
          ret,          \* what fd_read_sector returned: "none", "buffer", "null"
          dma,          \* the DMA chip
          ram,          \* [0 .. Word-1 -> bytes]: the first 64 KB of memory
          from,         \* the address the last transfer began at (history)
          motor,        \* digital output register: drive motor
          gate,         \* digital output register: interrupts and DMA enabled
          phase,        \* the controller: "off", "reset", "idle", "exec", "result"
          cmd,          \* the command it executes
          cylinder,     \* where its head is
          irq,          \* its interrupt line
          readError     \* the status bytes of the last read report an error

driverVars == <<pc, lba, attempt, ret>>
memVars == <<dma, ram, from>>
fdcVars == <<phase, cmd, cylinder, memVars, readError>>
dorVars == <<motor, gate>>
vars == <<driverVars, fdcVars, dorVars, fd_irq6_stat, wake, irq>>

None == <<-1, -1>>
Cylinders == 0 .. (Tracks - 1)
Sectors == 0 .. (2 * SectorsPerTrack * Tracks - 1)

---------------------------------------------------------------------------
(* fd_lba_to_chs, and what a disk holds at an address of that form.        *)

\* Broken: sectors are counted from 0.
SectorFromZero(n) == n % SectorsPerTrack

Head(n)   == (n % (SectorsPerTrack * 2)) \div SectorsPerTrack
Track(n)  == n \div (SectorsPerTrack * 2)
Sector(n) == (n % SectorsPerTrack) + 1

\* The last sector a read may go on to: one more, within the track.
NextSector(n) == IF Sector(n) + 1 >= SectorsPerTrack THEN SectorsPerTrack ELSE Sector(n) + 1

OnDisk(track, head, sector) == (track * 2 + head) * SectorsPerTrack + sector - 1

---------------------------------------------------------------------------
(* The controller and the interrupt it raises.                             *)

Raise == irq' = gate

FdcResetDone == /\ phase = "reset"
                /\ phase' = "idle"
                /\ Raise
                /\ UNCHANGED <<driverVars, dorVars, cmd, cylinder, memVars, readError, fd_irq6_stat, wake>>

\* A seek may end anywhere; the driver finds out from fd_check_int.
FdcSeekDone == /\ phase = "exec"
               /\ cmd.op = "seek"
               /\ phase' = "idle"
               /\ cylinder' \in Cylinders
               /\ Raise
               /\ UNCHANGED <<driverVars, dorVars, cmd, memVars, readError, fd_irq6_stat, wake>>

\* What the drive sends for a read of n: the sector and those after it on the
\* track, up to the last one the command names.
Stream(c) == [i \in 0 .. (SectorBytes * (c.last - c.sector + 1) - 1) |->
                <<OnDisk(c.track, c.head, c.sector) + (i \div SectorBytes), i % SectorBytes>>]

Transfer(n, data) == /\ ram' = Stored(ram, dma, n, data)
                     /\ dma' = Moved(dma, n)
                     /\ from' = dma.address

\* A read sends bytes until the DMA chip says that it has enough, or fails and
\* says so in its status bytes: always if the head is not on the track, the
\* chip takes no bytes or the track ends first.  A failed read has sent no
\* bytes, some of a sector or all of it, and none of them need be right.
FdcReadDone ==
  /\ phase = "exec"
  /\ cmd.op = "read"
  /\ phase' = "result"
  /\ \/ /\ cylinder = cmd.track /\ motor /\ Serves(dma)
        /\ Room(dma) - 1 \in DOMAIN Stream(cmd)
        /\ Transfer(Room(dma), Stream(cmd))
        /\ readError' = FALSE
     \/ /\ readError' = TRUE
        /\ \E n \in 0 .. SectorBytes :
             /\ n > 0 => Serves(dma) /\ n <= Room(dma)
             /\ Transfer(n, [i \in 0 .. (SectorBytes - 1) |-> None])
  /\ Raise
  /\ UNCHANGED <<driverVars, dorVars, cmd, cylinder, fd_irq6_stat, wake>>

fd_irq6_handler == /\ irq
                   /\ irq' = FALSE
                   /\ fd_irq6_stat' = 1
                   /\ UNCHANGED <<driverVars, fdcVars, dorVars, wake>>

timer_irq0_handler == /\ wake > 0
                      /\ wake' = wake - 1
                      /\ UNCHANGED <<driverVars, fdcVars, dorVars, fd_irq6_stat, irq>>

---------------------------------------------------------------------------
(* The driver's building blocks.                                           *)

Goto(here, there) == pc = here /\ wake = 0 /\ pc' = there

fd_send_command(c) ==
  IF phase = "idle" THEN phase' = "exec" /\ cmd' = c ELSE UNCHANGED <<phase, cmd>>

fd_control_motor(on) ==
  /\ motor' = on
  /\ gate' = on
  /\ wake' = SleepTicks

\* What fd_check_int reads as the cylinder.
fd_check_int == IF phase = "idle" THEN {cylinder} ELSE Cylinders

\* Broken: the flag is not waited for, or not cleared.
NoWaitIrq(here, there) == /\ Goto(here, there)
                          /\ UNCHANGED <<lba, attempt, ret, fdcVars, dorVars, fd_irq6_stat, wake, irq>>

\* fd_wait_irq6, in two steps.
SeeIrq(here, there) == /\ Goto(here, there)
                       /\ fd_irq6_stat = 1
                       /\ UNCHANGED <<lba, attempt, ret, fdcVars, dorVars, fd_irq6_stat, wake, irq>>
ClearIrq(here, there) == /\ Goto(here, there)
                         /\ fd_irq6_stat' = 0
                         /\ UNCHANGED <<lba, attempt, ret, fdcVars, dorVars, wake, irq>>

---------------------------------------------------------------------------
(* fd_init: reset the controller, then move the head to cylinder 0.        *)

DmaInit == /\ Goto("dma", "off")
           /\ dma' = dma_init_floppy(dma, DMA_BUFFER, SectorBytes)
           /\ UNCHANGED <<lba, attempt, ret, phase, cmd, cylinder, ram, from, readError, dorVars, fd_irq6_stat, wake, irq>>

fd_reset == /\ Goto("off", "reset_wait")
            /\ phase' = "reset"
            /\ motor' = FALSE
            /\ gate' = TRUE
            /\ UNCHANGED <<lba, attempt, ret, cmd, cylinder, memVars, readError, fd_irq6_stat, wake, irq>>

ResetSeen == SeeIrq("reset_wait", "reset_clear")
ResetCleared == ClearIrq("reset_clear", "cal_motor")

CalibrateMotorOn == /\ Goto("cal_motor", "cal_cmd")
                    /\ fd_control_motor(TRUE)
                    /\ attempt' = 1
                    /\ UNCHANGED <<lba, ret, fdcVars, fd_irq6_stat, irq>>

CalibrateCommand == /\ Goto("cal_cmd", "cal_wait")
                    /\ fd_send_command([op |-> "seek", track |-> 0, head |-> 0, sector |-> 0, last |-> 0])
                    /\ UNCHANGED <<lba, attempt, ret, cylinder, memVars, readError, dorVars, fd_irq6_stat, wake, irq>>

CalibrateSeen == SeeIrq("cal_wait", "cal_clear")
CalibrateCleared == ClearIrq("cal_clear", "cal_check")

\* Broken: one try too many.
CalibrateOnceMore ==
  /\ pc = "cal_check"
  /\ \E c \in fd_check_int :
       IF c # 0 /\ attempt <= Attempts
         THEN /\ pc' = "cal_cmd"
              /\ attempt' = attempt + 1
              /\ UNCHANGED <<dorVars, wake>>
         ELSE /\ pc' = "ready"
              /\ fd_control_motor(FALSE)
              /\ UNCHANGED attempt
  /\ UNCHANGED <<lba, ret, fdcVars, fd_irq6_stat, irq>>

\* The motor is turned off whether cylinder 0 was found or the tries ran out.
CalibrateCheck ==
  /\ pc = "cal_check"
  /\ \E c \in fd_check_int :
       IF c # 0 /\ attempt < Attempts
         THEN /\ pc' = "cal_cmd"
              /\ attempt' = attempt + 1
              /\ UNCHANGED <<dorVars, wake>>
         ELSE /\ pc' = "ready"
              /\ fd_control_motor(FALSE)
              /\ UNCHANGED attempt
  /\ UNCHANGED <<lba, ret, fdcVars, fd_irq6_stat, irq>>

---------------------------------------------------------------------------
(* fd_read_sector.                                                         *)

fd_read_sector(n) == /\ Goto("ready", "seek_cmd")
                     /\ lba' = n
                     /\ ret' = "none"
                     /\ attempt' = 1
                     /\ fd_control_motor(TRUE)
                     /\ UNCHANGED <<fdcVars, fd_irq6_stat, irq>>

SeekCommand == /\ Goto("seek_cmd", "seek_wait")
               /\ fd_send_command([op |-> "seek", track |-> Track(lba), head |-> Head(lba), sector |-> 0, last |-> 0])
               /\ UNCHANGED <<lba, attempt, ret, cylinder, memVars, readError, dorVars, fd_irq6_stat, wake, irq>>

SeekSeen == SeeIrq("seek_wait", "seek_clear")
SeekCleared == ClearIrq("seek_clear", "seek_check")

\* Broken: the tries are not counted.
SeekForever ==
  /\ pc = "seek_check"
  /\ \E c \in fd_check_int : pc' = IF c = Track(lba) THEN "read_cmd" ELSE "seek_cmd"
  /\ UNCHANGED <<lba, attempt, ret, fdcVars, dorVars, fd_irq6_stat, wake, irq>>

\* Out of tries: fd_read_sector returns the null pointer, with the motor on.
SeekCheck ==
  /\ pc = "seek_check"
  /\ \E c \in fd_check_int :
       \/ /\ c = Track(lba)
          /\ pc' = "read_cmd"
          /\ UNCHANGED <<attempt, ret>>
       \/ /\ c # Track(lba)
          /\ attempt < Attempts
          /\ pc' = "seek_cmd"
          /\ attempt' = attempt + 1
          /\ UNCHANGED ret
       \/ /\ c # Track(lba)
          /\ attempt = Attempts
          /\ pc' = "ready"
          /\ ret' = "null"
          /\ UNCHANGED attempt
  /\ UNCHANGED <<lba, fdcVars, dorVars, fd_irq6_stat, wake, irq>>

\* fd_read_sector_impl.
ReadCommand == /\ Goto("read_cmd", "read_wait")
               /\ dma' = dma_set_read(dma)
               /\ fd_send_command([op |-> "read", track |-> Track(lba), head |-> Head(lba),
                                   sector |-> Sector(lba), last |-> NextSector(lba)])
               /\ UNCHANGED <<lba, attempt, ret, cylinder, ram, from, readError, dorVars, fd_irq6_stat, wake, irq>>

ReadSeen == SeeIrq("read_wait", "read_clear")
ReadCleared == ClearIrq("read_clear", "read_status")

\* Seven status bytes are read and thrown away.
ReadStatus == /\ Goto("read_status", "read_off")
              /\ phase' = IF phase = "result" THEN "idle" ELSE phase
              /\ UNCHANGED <<lba, attempt, ret, cmd, cylinder, memVars, readError, dorVars, fd_irq6_stat, wake, irq>>

ReadMotorOff == /\ Goto("read_off", "read_return")
                /\ fd_control_motor(FALSE)
                /\ UNCHANGED <<lba, attempt, ret, fdcVars, fd_irq6_stat, irq>>

ReadReturn == /\ Goto("read_return", "ready")
              /\ ret' = "buffer"
              /\ UNCHANGED <<lba, attempt, fdcVars, dorVars, fd_irq6_stat, wake, irq>>

---------------------------------------------------------------------------
Init == /\ pc = "dma"
        /\ lba = 0
        /\ attempt = 1
        /\ fd_irq6_stat = 0
        /\ wake = 0
        /\ ret = "none"
        /\ dma \in [flipflop : 0 .. 1, base : {0}, address : {Word - 1}, length : {0}, count : {0},
                   masked : {{}, {FDC_DMA_CHANNEL}}, mode : {{}}]
        /\ ram = [a \in 0 .. (Word - 1) |-> None]
        /\ from = 0
        /\ motor = FALSE
        /\ gate = FALSE
        /\ phase = "off"
        /\ cmd = [op |-> "seek", track |-> 0, head |-> 0, sector |-> 0, last |-> 0]
        /\ cylinder \in Cylinders
        /\ irq = FALSE
        /\ readError = FALSE

\* What fd_init and a read do once they have begun.
DriverStep == \/ DmaInit \/ fd_reset \/ ResetSeen \/ ResetCleared
              \/ CalibrateMotorOn \/ CalibrateCommand \/ CalibrateSeen \/ CalibrateCleared \/ CalibrateCheck
              \/ SeekCommand \/ SeekSeen \/ SeekCleared \/ SeekCheck
              \/ ReadCommand \/ ReadSeen \/ ReadCleared \/ ReadStatus \/ ReadMotorOff \/ ReadReturn

Controller == FdcResetDone \/ FdcSeekDone \/ FdcReadDone

Next == \/ DriverStep
        \/ Controller
        \/ fd_irq6_handler
        \/ timer_irq0_handler
        \/ \E n \in Requests : fd_read_sector(n)

\* The processor runs, interrupts are on and delivered, the timer ticks, and
\* the controller finishes every command it has taken.
Fairness == /\ WF_vars(DriverStep)
            /\ WF_vars(Controller)
            /\ WF_vars(fd_irq6_handler)
            /\ WF_vars(timer_irq0_handler)

Spec == Init /\ [][Next]_vars /\ Fairness

---------------------------------------------------------------------------
(* What is claimed.                                                        *)

TypeOK == /\ lba \in Sectors
          /\ attempt \in 1 .. Attempts
          /\ fd_irq6_stat \in {0, 1}
          /\ wake \in 0 .. SleepTicks
          /\ ret \in {"none", "buffer", "null"}
          /\ dma \in Chips
          /\ DOMAIN ram = 0 .. (Word - 1) /\ from \in DOMAIN ram
          /\ motor \in BOOLEAN /\ gate \in BOOLEAN /\ irq \in BOOLEAN /\ readError \in BOOLEAN
          /\ phase \in {"off", "reset", "idle", "exec", "result"}
          /\ cylinder \in Cylinders

\* When a command is sent, the controller is idle and no interrupt of an earlier
\* command is pending or remembered: no wait is ever satisfied by a stale one.
NoStaleInterrupt ==
  pc \in {"cal_cmd", "seek_cmd", "read_cmd"} => phase = "idle" /\ ~irq /\ fd_irq6_stat = 0

\* Past a wait for IRQ6 the command it waited for has finished.
WaitMeansDone ==
  pc \in {"cal_clear", "cal_check", "seek_clear", "seek_check", "read_clear", "read_status", "read_off"} =>
    phase \notin {"exec", "reset"}

\* A read that returns the buffer returns the sector asked for, byte for byte,
\* or the controller reported an error in the status bytes the driver throws
\* away.  The channel is programmed once, so this is about transfers that begin
\* at the buffer's start: the one after a transfer that was cut short does not.
ReadsTheRightSector ==
  ret = "buffer" /\ from = DMA_BUFFER =>
    readError \/ \A i \in 0 .. (SectorBytes - 1) : ram[DMA_BUFFER + i] = <<lba, i>>

\* However transfers are cut short, the drive never writes outside the buffer:
\* the chip keeps count and starts over by itself.
TransfersInBuffer == \A a \in DOMAIN ram \ Buffer : ram[a] = None

\* fd_init and every read come to an end.
DriverReturns == (pc # "ready") ~> (pc = "ready")
===========================================================================
