-------------------------------- MODULE Dma --------------------------------
(***************************************************************************)
(* dma.c on the 8237 controller whose channel 2 serves the floppy drive.   *)
(* The chip (external) is a record of registers.  Its 16-bit registers are *)
(* written a byte at a time through a flip-flop that says which byte comes *)
(* next; each write sets the programmed and the current value.  The second *)
(* chip, which three of the functions address, serves other channels:      *)
(* writes to its ports leave this one alone.                               *)
(*                                                                         *)
(* The page register is not written: it holds 0, as the boot loader's last *)
(* BIOS transfer, below 64 KB, left it.                                    *)
(***************************************************************************)
EXTENDS Integers

CONSTANTS Byte,         \* values of a byte (256)
          DMA_BUFFER,   \* where sectors are put, 0x1000
          SectorBytes   \* bytes of a sector (512)

ASSUME DmaAssumption ==
  /\ Byte \in Nat /\ Byte > 1
  /\ SectorBytes \in 1 .. (Byte * Byte)
  /\ DMA_BUFFER \in Nat /\ DMA_BUFFER + SectorBytes <= Byte * Byte

FDC_DMA_CHANNEL == 2
Word == Byte * Byte
Buffer == DMA_BUFFER .. (DMA_BUFFER + SectorBytes - 1)

Chips == [flipflop : 0 .. 1, base : 0 .. (Word - 1), address : 0 .. (Word - 1),
          length : 0 .. (Word - 1), count : 0 .. (Word - 1),
          masked : SUBSET (0 .. 3), mode : SUBSET {"read", "single", "auto"}]

---------------------------------------------------------------------------
(* Ports of the chip (external).                                           *)

WithByte(word, flipflop, b) ==
  IF flipflop = 0 THEN (word - (word % Byte)) + b ELSE (b * Byte) + (word % Byte)

OutAddress(chip, b) ==
  LET word == WithByte(chip.base, chip.flipflop, b)
  IN [chip EXCEPT !.base = word, !.address = word, !.flipflop = 1 - @]

OutCount(chip, b) ==
  LET word == WithByte(chip.length, chip.flipflop, b)
  IN [chip EXCEPT !.length = word, !.count = word, !.flipflop = 1 - @]

\* The low two bits name a channel, the next one says whether to mask it.
OutMask(chip, b) ==
  [chip EXCEPT !.masked = IF (b \div 4) % 2 = 1 THEN @ \cup {b % 4} ELSE @ \ {b % 4}]

\* Any write here resets the chip: all channels masked.
OutTemp(chip) == [chip EXCEPT !.flipflop = 0, !.masked = 0 .. 3]

---------------------------------------------------------------------------
(* dma.c: what each function makes of the chip.                            *)

Power(n) == IF n = 0 THEN 1 ELSE IF n = 1 THEN 2 ELSE IF n = 2 THEN 4 ELSE 8

dma_set_address(chip, low, high) == OutAddress(OutAddress(chip, low), high)
dma_set_count(chip, low, high) == OutCount(OutCount(chip, low), high)

dma_reset(chip) == OutTemp(chip)

\* A bit is written where the register takes a channel number, and no bit that
\* says "mask": for channel 2 this is 2, which unmasks it.
dma_mask_channel(chip, channel) == OutMask(chip, Power(channel - 1))

\* Written to the second chip, where it changes nothing of this one.
dma_reset_flipflop(chip) == chip
dma_unmask_all(chip) == chip

dma_set_mode(chip, channel, mode) ==
  dma_unmask_all([dma_mask_channel(chip, channel) EXCEPT !.mode = mode])

\* Broken: the channel is not told to start over after a transfer.
SetReadOnce(chip) == dma_set_mode(chip, FDC_DMA_CHANNEL, {"read", "single"})

dma_set_read(chip) == dma_set_mode(chip, FDC_DMA_CHANNEL, {"read", "single", "auto"})

dma_init_floppy(chip, buffer, length) ==
  LET ready == dma_reset_flipflop(dma_mask_channel(dma_reset(chip), FDC_DMA_CHANNEL))
      placed == dma_reset_flipflop(dma_set_address(ready, buffer % Byte, buffer \div Byte))
  IN dma_unmask_all(dma_set_count(placed, (length - 1) % Byte, (length - 1) \div Byte))

---------------------------------------------------------------------------
(* Transfers (external).                                                   *)

Serves(chip) == FDC_DMA_CHANNEL \notin chip.masked /\ "read" \in chip.mode

\* Bytes until the chip signals the end, which stops the drive as well.
Room(chip) == chip.count + 1

\* After n bytes, at most Room(chip).  At the end the channel starts over, or
\* stays where it is, masked.
Moved(chip, n) ==
  IF n < Room(chip)
    THEN [chip EXCEPT !.address = (@ + n) % Word, !.count = @ - n]
  ELSE IF "auto" \in chip.mode
    THEN [chip EXCEPT !.address = chip.base, !.count = chip.length]
  ELSE [chip EXCEPT !.address = (@ + n) % Word, !.count = Word - 1,
                    !.masked = @ \cup {FDC_DMA_CHANNEL}]

\* Memory after the chip has stored n bytes, byte i of them being data[i].
Stored(ram, chip, n, data) ==
  [a \in DOMAIN ram |->
     LET i == (a - chip.address) % Word
     IN IF i < n THEN data[i] ELSE ram[a]]
===========================================================================
