--------------------------- MODULE FloppyProofs ---------------------------
(***************************************************************************)
(* Proofs about Floppy and Dma for every disk, every DMA buffer and every  *)
(* width of a byte: the driver's waits, and what reaches memory.           *)
(***************************************************************************)
EXTENDS Floppy, TLAPS

---------------------------------------------------------------------------
(* Arithmetic.                                                             *)

\* Division with remainder.
LEMMA DivMod ==
  ASSUME NEW a \in Int, NEW d \in Nat \ {0}
  PROVE  /\ a \div d \in Int
         /\ a % d \in 0 .. (d - 1)
         /\ a = d * (a \div d) + (a % d)
BY SMT

\* A multiple that is less is at least one d less.
LEMMA Multiples ==
  ASSUME NEW d \in Nat \ {0}, NEW p \in Int, NEW q \in Int, p < q
  PROVE  d * p + d <= d * q
<1>1. PICK k \in Nat : q = p + 1 + k
  <2>1. q - p - 1 \in Nat /\ q = p + 1 + (q - p - 1)
    OBVIOUS
  <2> QED BY <2>1
<1>2. d * q = d * p + d + d * k
  BY <1>1, SMT
<1>3. d * k \in Nat /\ d * p \in Int
  BY SMT
<1> QED BY <1>2, <1>3

\* Quotient and remainder are the only ones that make up a number.
LEMMA Remainder ==
  ASSUME NEW d \in Nat \ {0}, NEW q \in Int, NEW r \in 0 .. (d - 1)
  PROVE  (d * q + r) % d = r /\ (d * q + r) \div d = q
<1> DEFINE a == d * q + r
           q2 == a \div d
           r2 == a % d
<1>1. a \in Int /\ d * q \in Int
  BY SMT
<1>2. q2 \in Int /\ r2 \in 0 .. (d - 1) /\ a = d * q2 + r2 /\ d * q2 \in Int
  BY <1>1, DivMod, SMT
<1>3. d * q + r = d * q2 + r2
  BY <1>2 DEF a
<1> HIDE DEF a, q2, r2
<1>4. ~(q < q2)
  <2> SUFFICES ASSUME q < q2 PROVE FALSE
    OBVIOUS
  <2>1. d * q + d <= d * q2
    BY <1>2, Multiples
  <2> QED BY <1>1, <1>2, <1>3, <2>1
<1>5. ~(q2 < q)
  <2> SUFFICES ASSUME q2 < q PROVE FALSE
    OBVIOUS
  <2>1. d * q2 + d <= d * q
    BY <1>2, Multiples
  <2> QED BY <1>1, <1>2, <1>3, <2>1
<1>6. q = q2
  BY <1>2, <1>4, <1>5
<1>7. r = r2
  BY <1>1, <1>2, <1>3, <1>6
<1> QED BY <1>6, <1>7 DEF a, q2, r2

---------------------------------------------------------------------------
(* The chip: what dma_init_floppy and dma_set_read make of it.             *)

\* Two writes through a cleared flip-flop set a register, low byte first, and
\* leave the flip-flop clear, whatever the register held.
LEMMA TwoBytes ==
  ASSUME NEW word \in Nat, NEW value \in 0 .. (Word - 1)
  PROVE  WithByte(WithByte(word, 0, value % Byte), 1, value \div Byte) = value
<1>0. Byte \in Nat \ {0}
  BY DmaAssumption
<1>1. /\ value \div Byte \in Int /\ value % Byte \in 0 .. (Byte - 1)
      /\ value = Byte * (value \div Byte) + (value % Byte)
  BY <1>0, DivMod DEF Word
<1>2. /\ word \div Byte \in Int /\ word % Byte \in 0 .. (Byte - 1)
      /\ word = Byte * (word \div Byte) + (word % Byte)
  BY <1>0, DivMod
<1>3. (word - (word % Byte)) + (value % Byte) = Byte * (word \div Byte) + (value % Byte)
  <2>1. Byte * (word \div Byte) \in Int
    BY <1>0, <1>2, SMT
  <2> QED BY <1>1, <1>2, <2>1
<1>4. (Byte * (word \div Byte) + (value % Byte)) % Byte = value % Byte
  BY <1>0, <1>1, <1>2, Remainder
<1>5. (value \div Byte) * Byte = Byte * (value \div Byte)
  BY <1>0, <1>1, SMT
<1> QED BY <1>1, <1>3, <1>4, <1>5 DEF WithByte

---------------------------------------------------------------------------
(* The invariant.                                                          *)

\* No interrupt is under way; one is, at the line or in the flag; it has been
\* seen in the flag and is still to be cleared.
Quiet     == ~irq /\ fd_irq6_stat = 0
Signalled == irq <=> fd_irq6_stat = 0
Seen      == ~irq /\ fd_irq6_stat = 1

ReadOf(n) == [op |-> "read", track |-> Track(n), head |-> Head(n),
              sector |-> Sector(n), last |-> NextSector(n)]

\* What each point of the driver knows of the controller.
Control ==
  /\ pc \in {"dma", "off", "reset_wait", "reset_clear",
             "cal_motor", "cal_cmd", "cal_wait", "cal_clear", "cal_check",
             "ready", "seek_cmd", "seek_wait", "seek_clear", "seek_check",
             "read_cmd", "read_wait", "read_clear", "read_status", "read_off", "read_return"}
  /\ pc \in {"dma", "off"} => phase = "off" /\ Quiet
  /\ pc = "reset_wait" => (phase = "reset" /\ Quiet) \/ (phase = "idle" /\ Signalled)
  /\ pc \in {"cal_wait", "seek_wait"} =>
       (phase = "exec" /\ cmd.op = "seek" /\ Quiet) \/ (phase = "idle" /\ Signalled)
  /\ pc = "read_wait" =>
       (phase = "exec" /\ cmd = ReadOf(lba) /\ Quiet) \/ (phase = "result" /\ Signalled)
  /\ pc \in {"reset_clear", "cal_clear", "seek_clear"} => phase = "idle" /\ Seen
  /\ pc = "read_clear" => phase = "result" /\ Seen
  /\ pc = "read_status" => phase = "result" /\ Quiet
  /\ pc \in {"cal_motor", "cal_cmd", "cal_check", "ready", "seek_cmd", "seek_check",
             "read_cmd", "read_off", "read_return"} => phase = "idle" /\ Quiet
  /\ pc \in {"reset_wait", "cal_cmd", "cal_wait", "cal_clear", "cal_check",
             "seek_cmd", "seek_wait", "seek_clear", "seek_check", "read_cmd", "read_wait"} => gate
  /\ pc # "ready" => ret = "none"

\* Once programmed, the chip stands somewhere in the buffer and will stop at
\* its end, and it starts over when it has.
Aimed(chip) == /\ chip.base = DMA_BUFFER
               /\ chip.length = SectorBytes - 1
               /\ chip.address \in Buffer
               /\ chip.address + chip.count = DMA_BUFFER + SectorBytes - 1
Chip == /\ pc # "dma" => Aimed(dma)
        /\ pc = "read_wait" => "auto" \in dma.mode

\* The buffer holds sector n.
Holds(n) == \A i \in 0 .. (SectorBytes - 1) : ram[DMA_BUFFER + i] = <<n, i>>

\* From the end of a transfer until the next request.
Delivered == \/ pc = "read_wait" /\ phase = "result"
             \/ pc \in {"read_clear", "read_status", "read_off", "read_return"}
             \/ ret = "buffer"
Sound == Delivered /\ from = DMA_BUFFER => readError \/ Holds(lba)

IInv == TypeOK /\ Control /\ Chip /\ TransfersInBuffer /\ Sound

---------------------------------------------------------------------------
(* The chip, once dma_init_floppy has programmed it.                       *)

\* The registers of a chip have their widths, and the buffer fits them.
LEMMA ChipNumbers ==
  /\ Byte \in Nat \ {0} /\ Word \in Nat \ {0}
  /\ DMA_BUFFER \in 0 .. (Word - 1) /\ SectorBytes \in Nat \ {0}
  /\ SectorBytes - 1 \in 0 .. (Word - 1)
  /\ DMA_BUFFER + SectorBytes <= Word
<1>1. Byte \in Nat \ {0} /\ Word \in Nat /\ SectorBytes \in 1 .. Word
  BY DmaAssumption, SMT DEF Word
<1>2. DMA_BUFFER \in Nat /\ DMA_BUFFER + SectorBytes <= Word
  BY DmaAssumption DEF Word
<1> QED BY <1>1, <1>2

\* The registers while their bytes are being written, as numbers of any width.
Wide == [flipflop : 0 .. 1, base : Int, address : Int, length : Int, count : Int,
         masked : SUBSET (0 .. 3), mode : SUBSET {"read", "single", "auto"}]

\* A chip's registers have their widths; registers of those widths make a chip.
LEMMA WideChips ==
  /\ Chips \subseteq Wide
  /\ \A chip \in Wide : /\ {chip.base, chip.address, chip.length, chip.count} \subseteq 0 .. (Word - 1)
                        => chip \in Chips
BY ChipNumbers DEF Wide, Chips

\* Writing a byte of a register leaves a number.
LEMMA WordType ==
  ASSUME NEW word \in Int, NEW flipflop \in 0 .. 1, NEW b \in Int
  PROVE  WithByte(word, flipflop, b) \in Int
<1>1. word % Byte \in Int /\ b * Byte \in Int
  BY ChipNumbers, DivMod, SMT
<1> QED BY <1>1 DEF WithByte

\* A write to the Address register: both values of it, and the flip-flop.
LEMMA OutAddressMakes ==
  ASSUME NEW chip \in Wide, NEW b \in Int, NEW new, new = OutAddress(chip, b)
  PROVE  /\ new \in Wide
         /\ new.base = WithByte(chip.base, chip.flipflop, b)
         /\ new.address = new.base /\ new.flipflop = 1 - chip.flipflop
         /\ new.length = chip.length /\ new.count = chip.count
         /\ new.masked = chip.masked /\ new.mode = chip.mode
<1> DEFINE word == WithByte(chip.base, chip.flipflop, b)
           one == [chip EXCEPT !.base = word]
           two == [one EXCEPT !.address = word]
           three == [two EXCEPT !.flipflop = 1 - @]
<1>0. word \in Int
  BY WordType DEF Wide
<1> HIDE DEF word
<1>1. one \in Wide /\ one.base = word /\ one.flipflop = chip.flipflop
  BY <1>0 DEF Wide
<1> HIDE DEF one
<1>2. two \in Wide /\ two.base = word /\ two.address = word /\ two.flipflop = chip.flipflop
  BY <1>0, <1>1 DEF Wide
<1> HIDE DEF two
<1>3. three \in Wide /\ three.base = word /\ three.address = word /\ three.flipflop = 1 - chip.flipflop
  BY <1>2 DEF Wide
<1>4. /\ three.length = chip.length /\ three.count = chip.count
      /\ three.masked = chip.masked /\ three.mode = chip.mode
  BY DEF Wide, one, two
<1>5. OutAddress(chip, b) = three
  BY DEF OutAddress, one, two, word, Wide
<1> HIDE DEF three
<1> QED BY <1>3, <1>4, <1>5 DEF word

\* A write to the Count register: both values of it, and the flip-flop.
LEMMA OutCountMakes ==
  ASSUME NEW chip \in Wide, NEW b \in Int, NEW new, new = OutCount(chip, b)
  PROVE  /\ new \in Wide
         /\ new.length = WithByte(chip.length, chip.flipflop, b)
         /\ new.count = new.length /\ new.flipflop = 1 - chip.flipflop
         /\ new.base = chip.base /\ new.address = chip.address
         /\ new.masked = chip.masked /\ new.mode = chip.mode
<1> DEFINE word == WithByte(chip.length, chip.flipflop, b)
           one == [chip EXCEPT !.length = word]
           two == [one EXCEPT !.count = word]
           three == [two EXCEPT !.flipflop = 1 - @]
<1>0. word \in Int
  BY WordType DEF Wide
<1> HIDE DEF word
<1>1. one \in Wide /\ one.length = word /\ one.flipflop = chip.flipflop
  BY <1>0 DEF Wide
<1> HIDE DEF one
<1>2. two \in Wide /\ two.length = word /\ two.count = word /\ two.flipflop = chip.flipflop
  BY <1>0, <1>1 DEF Wide
<1> HIDE DEF two
<1>3. three \in Wide /\ three.length = word /\ three.count = word /\ three.flipflop = 1 - chip.flipflop
  BY <1>2 DEF Wide
<1>4. /\ three.base = chip.base /\ three.address = chip.address
      /\ three.masked = chip.masked /\ three.mode = chip.mode
  BY DEF Wide, one, two
<1>5. OutCount(chip, b) = three
  BY DEF OutCount, one, two, word, Wide
<1> HIDE DEF three
<1> QED BY <1>3, <1>4, <1>5 DEF word

\* The mask of channel 2 is cleared, and nothing else changed, by the function
\* that is to set it.
LEMMA MaskUnmasks ==
  ASSUME NEW chip \in Wide
  PROVE  dma_mask_channel(chip, FDC_DMA_CHANNEL) = [chip EXCEPT !.masked = chip.masked \ {2}]
<1>1. Power(FDC_DMA_CHANNEL - 1) = 2
  BY DEF Power, FDC_DMA_CHANNEL
<1>2. (2 \div 4) % 2 # 1 /\ 2 % 4 = 2
  BY SMT
<1>3. OutMask(chip, 2) = [chip EXCEPT !.masked = chip.masked \ {2}]
  BY <1>2, Zenon DEF OutMask
<1> QED BY <1>1, <1>3 DEF dma_mask_channel

\* Whatever the chip held, dma_init_floppy aims channel 2 at the buffer.
LEMMA InitAims ==
  ASSUME NEW chip \in Chips
  PROVE  /\ dma_init_floppy(chip, DMA_BUFFER, SectorBytes) \in Chips
         /\ Aimed(dma_init_floppy(chip, DMA_BUFFER, SectorBytes))
<1> DEFINE al == DMA_BUFFER % Byte
           ah == DMA_BUFFER \div Byte
           cl == (SectorBytes - 1) % Byte
           ch == (SectorBytes - 1) \div Byte
           reset == dma_reset(chip)
           ready == dma_mask_channel(reset, FDC_DMA_CHANNEL)
           low == OutAddress(ready, al)
           placed == OutAddress(low, ah)
           few == OutCount(placed, cl)
           counted == OutCount(few, ch)
<1>0. /\ DMA_BUFFER \in 0 .. (Word - 1) /\ SectorBytes - 1 \in 0 .. (Word - 1)
      /\ al \in Int /\ ah \in Int /\ cl \in Int /\ ch \in Int
  BY ChipNumbers, DivMod
<1>a. /\ \A word \in Nat : WithByte(WithByte(word, 0, al), 1, ah) = DMA_BUFFER
      /\ \A word \in Nat : WithByte(WithByte(word, 0, cl), 1, ch) = SectorBytes - 1
  BY <1>0, TwoBytes
<1>7. dma_init_floppy(chip, DMA_BUFFER, SectorBytes) = counted
  BY DEF dma_init_floppy, dma_reset_flipflop, dma_unmask_all, dma_set_address, dma_set_count
<1> HIDE DEF al, ah, cl, ch
<1>1. /\ reset \in Wide /\ reset.flipflop = 0
      /\ reset.base \in Nat /\ reset.length \in Nat
  <2> DEFINE clear == [chip EXCEPT !.flipflop = 0]
  <2>1. clear \in Wide /\ clear.base \in Nat /\ clear.length \in Nat /\ clear.flipflop = 0
    BY WideChips DEF Wide, Chips
  <2>2. reset = [clear EXCEPT !.masked = 0 .. 3]
    BY DEF dma_reset, OutTemp
  <2> HIDE DEF clear
  <2> QED BY <2>1, <2>2 DEF Wide
<1> HIDE DEF reset
<1>2. /\ ready \in Wide /\ ready.flipflop = 0
      /\ ready.base \in Nat /\ ready.length \in Nat
  <2>1. ready = [reset EXCEPT !.masked = reset.masked \ {2}]
    BY <1>1, MaskUnmasks
  <2> HIDE DEF ready
  <2> QED BY <1>1, <2>1 DEF Wide
<1> HIDE DEF ready
<1>3. /\ low \in Wide /\ low.flipflop = 1 /\ low.length = ready.length
      /\ low.base = WithByte(ready.base, 0, al)
  <2>0. ready \in Wide /\ al \in Int
    BY <1>0, <1>2
  <2>1. /\ low \in Wide /\ low.base = WithByte(ready.base, ready.flipflop, al)
        /\ low.address = low.base /\ low.flipflop = 1 - ready.flipflop
        /\ low.length = ready.length /\ low.count = ready.count
    BY <2>0, OutAddressMakes, Zenon
  <2> HIDE DEF low
  <2> QED BY <1>0, <1>2, <2>1
<1> HIDE DEF low
<1>4. /\ placed \in Wide /\ placed.flipflop = 0 /\ placed.length = ready.length
      /\ placed.base = DMA_BUFFER /\ placed.address = DMA_BUFFER
  <2>1. /\ placed \in Wide /\ placed.flipflop = 0 /\ placed.length = low.length
        /\ placed.base = WithByte(low.base, 1, ah) /\ placed.address = placed.base
    <3>0. low \in Wide /\ ah \in Int
      BY <1>0, <1>3
    <3>1. /\ placed \in Wide /\ placed.base = WithByte(low.base, low.flipflop, ah)
          /\ placed.address = placed.base /\ placed.flipflop = 1 - low.flipflop
          /\ placed.length = low.length /\ placed.count = low.count
      BY <3>0, OutAddressMakes, Zenon
    <3> HIDE DEF placed
    <3> QED BY <1>0, <1>3, <3>1
  <2> HIDE DEF placed
  <2> QED BY <1>a, <1>2, <1>3, <2>1
<1> HIDE DEF placed
<1>5. /\ few \in Wide /\ few.flipflop = 1 /\ few.base = DMA_BUFFER /\ few.address = DMA_BUFFER
      /\ few.length = WithByte(ready.length, 0, cl)
  <2>0. placed \in Wide /\ cl \in Int
    BY <1>0, <1>4
  <2>1. /\ few \in Wide /\ few.length = WithByte(placed.length, placed.flipflop, cl)
        /\ few.count = few.length /\ few.flipflop = 1 - placed.flipflop
        /\ few.base = placed.base /\ few.address = placed.address
    BY <2>0, OutCountMakes, Zenon
  <2> HIDE DEF few
  <2> QED BY <1>0, <1>4, <2>1
<1> HIDE DEF few
<1>6. /\ counted \in Wide /\ counted.base = DMA_BUFFER /\ counted.address = DMA_BUFFER
      /\ counted.length = SectorBytes - 1 /\ counted.count = SectorBytes - 1
  <2>1. /\ counted \in Wide /\ counted.base = few.base /\ counted.address = few.address
        /\ counted.length = WithByte(few.length, 1, ch)
        /\ counted.count = counted.length
    <3>0. few \in Wide /\ ch \in Int
      BY <1>0, <1>5
    <3>1. /\ counted \in Wide /\ counted.length = WithByte(few.length, few.flipflop, ch)
          /\ counted.count = counted.length /\ counted.flipflop = 1 - few.flipflop
          /\ counted.base = few.base /\ counted.address = few.address
      BY <3>0, OutCountMakes, Zenon
    <3> HIDE DEF counted
    <3> QED BY <1>0, <1>5, <3>1
  <2> HIDE DEF counted
  <2> QED BY <1>a, <1>2, <1>5, <2>1
<1> HIDE DEF counted
<1>8. counted \in Chips
  BY <1>0, <1>6, WideChips
<1>9. Aimed(counted)
  BY <1>6, ChipNumbers DEF Aimed, Buffer
<1> QED BY <1>7, <1>8, <1>9

\* dma_set_read changes the mode and unmasks the channel: the chip stays aimed.
LEMMA SetReadKeepsAim ==
  ASSUME NEW chip \in Chips
  PROVE  /\ dma_set_read(chip) \in Chips
         /\ Aimed(chip) => Aimed(dma_set_read(chip))
         /\ "auto" \in dma_set_read(chip).mode
<1> DEFINE unmasked == [chip EXCEPT !.masked = chip.masked \ {2}]
           new == [unmasked EXCEPT !.mode = {"read", "single", "auto"}]
<1>1. /\ unmasked \in Chips
      /\ unmasked.base = chip.base /\ unmasked.address = chip.address
      /\ unmasked.length = chip.length /\ unmasked.count = chip.count
  BY DEF Chips
<1>2. dma_set_read(chip) = new
  BY MaskUnmasks, WideChips DEF dma_set_read, dma_set_mode, dma_unmask_all
<1> HIDE DEF unmasked
<1>3. /\ new \in Chips /\ new.mode = {"read", "single", "auto"}
      /\ new.base = chip.base /\ new.address = chip.address
      /\ new.length = chip.length /\ new.count = chip.count
  BY <1>1 DEF Chips
<1> HIDE DEF new
<1> QED BY <1>2, <1>3 DEF Aimed

---------------------------------------------------------------------------
(* Transfers.                                                              *)

\* How far address a lies after the address the chip stands at.
LEMMA Offset ==
  ASSUME NEW a \in 0 .. (Word - 1), NEW here \in 0 .. (Word - 1)
  PROVE  (a - here) % Word = IF here <= a THEN a - here ELSE a - here + Word
<1>0. Word \in Nat \ {0}
  BY ChipNumbers
<1>1. CASE here <= a
  <2>1. a - here \in 0 .. (Word - 1) /\ a - here = Word * 0 + (a - here)
    BY <1>0, <1>1
  <2>2. (Word * 0 + (a - here)) % Word = a - here
    BY <1>0, <2>1, Remainder
  <2> QED BY <1>1, <2>1, <2>2
<1>2. CASE ~(here <= a)
  <2>1. a - here + Word \in 0 .. (Word - 1) /\ a - here = Word * (-1) + (a - here + Word)
    BY <1>0, <1>2
  <2>2. (Word * (-1) + (a - here + Word)) % Word = a - here + Word
    BY <1>0, <2>1, Remainder
  <2> QED BY <1>2, <2>1, <2>2
<1> QED BY <1>1, <1>2

\* However many bytes it is sent before it calls a halt, an aimed chip stores
\* them in the buffer.
LEMMA StoresInBuffer ==
  ASSUME NEW chip \in Chips, Aimed(chip), NEW n \in 0 .. Room(chip),
         NEW a \in 0 .. (Word - 1), a \notin Buffer
  PROVE  ~((a - chip.address) % Word < n)
<1>1. /\ chip.address \in 0 .. (Word - 1) /\ chip.count \in 0 .. (Word - 1)
      /\ chip.address + chip.count = DMA_BUFFER + SectorBytes - 1
      /\ chip.address \in Buffer
  BY DEF Chips, Aimed
<1>2. n <= chip.count + 1 /\ n \in Nat
  BY <1>1 DEF Room
<1>3. a < DMA_BUFFER \/ a >= DMA_BUFFER + SectorBytes
  BY ChipNumbers DEF Buffer
<1> DEFINE off == (a - chip.address) % Word
<1>4. off = IF chip.address <= a THEN a - chip.address ELSE a - chip.address + Word
  BY <1>1, Offset
<1> HIDE DEF off
<1>5. ~(off < n)
  BY <1>1, <1>2, <1>3, <1>4, ChipNumbers DEF Buffer
<1> QED BY <1>5 DEF off

\* A transfer of any length leaves the chip aimed: it is inside the buffer, or
\* at the start again.
LEMMA MovedKeepsAim ==
  ASSUME NEW chip \in Chips, Aimed(chip), NEW n \in 0 .. Room(chip), n = 0 \/ "auto" \in chip.mode
  PROVE  /\ Moved(chip, n) \in Chips /\ Aimed(Moved(chip, n))
         /\ Moved(chip, n).mode = chip.mode
<1>1. /\ chip.address \in 0 .. (Word - 1) /\ chip.count \in 0 .. (Word - 1)
      /\ chip.address + chip.count = DMA_BUFFER + SectorBytes - 1
      /\ chip.address \in Buffer /\ chip.base = DMA_BUFFER /\ chip.length = SectorBytes - 1
  BY DEF Chips, Aimed
<1>2. CASE n < Room(chip)
  <2> DEFINE moved == [chip EXCEPT !.address = chip.address + n]
             new == [moved EXCEPT !.count = chip.count - n]
  <2>0. n \in Nat /\ n <= chip.count
    BY <1>1, <1>2 DEF Room
  <2>1. chip.address + n \in 0 .. (Word - 1) /\ chip.count - n \in 0 .. (Word - 1)
    BY <1>1, <2>0, ChipNumbers
  <2>2. (chip.address + n) % Word = chip.address + n
    <3>1. chip.address + n = Word * 0 + (chip.address + n)
      BY <2>1, ChipNumbers
    <3> QED BY <2>1, <3>1, ChipNumbers, Remainder
  <2>3. Moved(chip, n) = new
    BY <1>2, <2>2 DEF Moved
  <2>4. moved \in Chips /\ moved.address = chip.address + n /\ moved.count = chip.count
    BY <2>1 DEF Chips
  <2>5. moved.base = chip.base /\ moved.length = chip.length /\ moved.mode = chip.mode
    BY DEF Chips
  <2> HIDE DEF moved
  <2>6. /\ new \in Chips /\ new.address = chip.address + n /\ new.count = chip.count - n
        /\ new.base = chip.base /\ new.length = chip.length /\ new.mode = chip.mode
    BY <2>1, <2>4, <2>5 DEF Chips
  <2> HIDE DEF new
  <2>7. chip.address + n \in Buffer
    BY <1>1, <2>0, ChipNumbers DEF Buffer
  <2>8. Aimed(new)
    BY <1>1, <2>0, <2>6, <2>7 DEF Aimed
  <2> QED BY <2>3, <2>6, <2>8
<1>3. CASE ~(n < Room(chip))
  <2> DEFINE moved == [chip EXCEPT !.address = chip.base]
             new == [moved EXCEPT !.count = chip.length]
  <2>1. "auto" \in chip.mode
    BY <1>1, <1>3 DEF Room
  <2>2. Moved(chip, n) = new
    BY <1>3, <2>1 DEF Moved
  <2>3. moved \in Chips /\ moved.address = chip.base
    BY DEF Chips
  <2>4. moved.base = chip.base /\ moved.length = chip.length /\ moved.mode = chip.mode
    BY DEF Chips
  <2> HIDE DEF moved
  <2>5. /\ new \in Chips /\ new.address = chip.base /\ new.count = chip.length
        /\ new.base = chip.base /\ new.length = chip.length /\ new.mode = chip.mode
    BY <2>3, <2>4 DEF Chips
  <2> HIDE DEF new
  <2>6. Aimed(new)
    BY <1>1, <2>5, ChipNumbers DEF Aimed, Buffer
  <2> QED BY <2>2, <2>5, <2>6
<1> QED BY <1>2, <1>3

\* fd_lba_to_chs names the sector it was given.
LEMMA AddressesTheSector ==
  ASSUME NEW n \in Nat
  PROVE  OnDisk(Track(n), Head(n), Sector(n)) = n
<1> DEFINE S == SectorsPerTrack
           d == S * 2
           t == n \div d
           m == n % d
           h == m \div S
           r == m % S
<1>3. Track(n) = t /\ Head(n) = h /\ Sector(n) = (n % S) + 1
  BY DEF Track, Head, Sector
<1>0. S \in Nat \ {0} /\ d \in Nat \ {0} /\ d = S * 2
  BY DiskAssumption
<1> HIDE DEF S, d
<1>a. n \in Int
  OBVIOUS
<1>b. t \in Int /\ m \in 0 .. (d - 1) /\ n = d * t + m
  BY <1>0, <1>a, DivMod, Zenon
<1> HIDE DEF t, m
<1>1. t \in Int /\ m \in Nat /\ n = d * t + m
  BY <1>0, <1>b
<1>2. h \in Int /\ r \in 0 .. (S - 1) /\ m = S * h + r
  BY <1>0, <1>1, DivMod
<1> HIDE DEF h, r
<1>4. n = S * (2 * t + h) + r
  BY <1>0, <1>1, <1>2, SMT
<1>5. n % S = r
  <2>1. 2 * t + h \in Int
    BY <1>1, <1>2
  <2> QED BY <1>0, <1>2, <1>4, <2>1, Remainder
<1>6. OnDisk(t, h, r + 1) = (t * 2 + h) * S + (r + 1) - 1
  BY DEF OnDisk, S
<1>7. (t * 2 + h) * S = S * (2 * t + h)
  BY <1>0, <1>1, <1>2, SMT
<1>8. S * (2 * t + h) \in Int
  BY <1>0, <1>1, <1>2, SMT
<1> QED BY <1>2, <1>3, <1>4, <1>5, <1>6, <1>7, <1>8

---------------------------------------------------------------------------
(* The steps.                                                              *)

\* A step that moves no byte and ends no transfer keeps what is known of chip
\* and memory.
LEMMA NothingMoves ==
  ASSUME IInv, UNCHANGED <<memVars, readError, lba>>, Delivered' => Delivered,
         pc # "dma", pc' # "dma", pc' = "read_wait" => pc = "read_wait"
  PROVE  Chip' /\ TransfersInBuffer' /\ Sound'
<1>1. UNCHANGED <<dma, ram, from>>
  BY DEF memVars
<1>2. Chip'
  BY <1>1 DEF IInv, Chip, Aimed, Buffer
<1>3. TransfersInBuffer'
  BY <1>1 DEF IInv, TransfersInBuffer, Buffer
<1>4. Sound'
  BY <1>1 DEF IInv, Sound, Holds
<1> QED BY <1>2, <1>3, <1>4

\* A wait for IRQ6 goes on to where the flag is cleared.
LEMMA WaitStep ==
  ASSUME IInv, ResetSeen \/ CalibrateSeen \/ SeekSeen \/ ReadSeen
  PROVE  IInv'
<1>1. /\ UNCHANGED <<lba, attempt, ret, phase, cmd, cylinder, memVars, readError, motor, gate, fd_irq6_stat, wake, irq>>
      /\ fd_irq6_stat = 1
      /\ <<pc, pc'>> \in {<<"reset_wait", "reset_clear">>, <<"cal_wait", "cal_clear">>,
                          <<"seek_wait", "seek_clear">>, <<"read_wait", "read_clear">>}
  BY DEF ResetSeen, CalibrateSeen, SeekSeen, ReadSeen, SeeIrq, Goto, fdcVars, dorVars
<1>2. TypeOK'
  BY <1>1 DEF IInv, TypeOK, memVars
<1>3. Control'
  BY <1>1 DEF IInv, Control, Quiet, Signalled, Seen
<1>4. Delivered' => Delivered
  BY <1>1 DEF IInv, Control, Delivered, Quiet
<1> QED BY <1>1, <1>2, <1>3, <1>4, NothingMoves DEF IInv

\* Clearing the flag: the interrupt of the command that is done is used up.
LEMMA ClearStep ==
  ASSUME IInv, ResetCleared \/ CalibrateCleared \/ SeekCleared \/ ReadCleared
  PROVE  IInv'
<1>1. /\ UNCHANGED <<lba, attempt, ret, phase, cmd, cylinder, memVars, readError, motor, gate, wake, irq>>
      /\ fd_irq6_stat' = 0
      /\ <<pc, pc'>> \in {<<"reset_clear", "cal_motor">>, <<"cal_clear", "cal_check">>,
                          <<"seek_clear", "seek_check">>, <<"read_clear", "read_status">>}
  BY DEF ResetCleared, CalibrateCleared, SeekCleared, ReadCleared, ClearIrq, Goto, fdcVars, dorVars
<1>2. TypeOK'
  BY <1>1 DEF IInv, TypeOK, memVars
<1>3. Control'
  BY <1>1 DEF IInv, Control, Quiet, Signalled, Seen
<1>4. Delivered' => Delivered
  BY <1>1 DEF Delivered
<1> QED BY <1>1, <1>2, <1>3, <1>4, NothingMoves DEF IInv

\* The DMA channel is programmed before anything else happens.
LEMMA DmaInitStep ==
  ASSUME IInv, DmaInit
  PROVE  IInv'
<1>1. /\ UNCHANGED <<lba, attempt, ret, phase, cmd, cylinder, ram, from, readError, motor, gate, fd_irq6_stat, wake, irq>>
      /\ pc = "dma" /\ pc' = "off"
      /\ dma' = dma_init_floppy(dma, DMA_BUFFER, SectorBytes)
  BY DEF DmaInit, Goto, dorVars
<1>2. dma' \in Chips /\ Aimed(dma')
  BY <1>1, InitAims DEF IInv, TypeOK
<1>3. TypeOK'
  BY <1>1, <1>2 DEF IInv, TypeOK
<1>4. Control'
  BY <1>1 DEF IInv, Control, Quiet, Signalled, Seen
<1>5. Chip'
  BY <1>1, <1>2 DEF Chip, Aimed
<1>6. TransfersInBuffer'
  BY <1>1 DEF IInv, TransfersInBuffer, Buffer
<1>7. ~Delivered'
  BY <1>1 DEF IInv, Control, Delivered
<1> QED BY <1>3, <1>4, <1>5, <1>6, <1>7 DEF IInv, Sound

\* The read command, with the channel set to read.
LEMMA ReadCommandStep ==
  ASSUME IInv, ReadCommand
  PROVE  IInv'
<1>1. /\ UNCHANGED <<lba, attempt, ret, cylinder, ram, from, readError, motor, gate, fd_irq6_stat, wake, irq>>
      /\ pc = "read_cmd" /\ pc' = "read_wait"
      /\ dma' = dma_set_read(dma)
  BY DEF ReadCommand, Goto, dorVars
<1>2. phase' = "exec" /\ cmd' = ReadOf(lba)
  BY <1>1 DEF ReadCommand, fd_send_command, IInv, Control, ReadOf
<1>3. dma \in Chips /\ Aimed(dma)
  BY <1>1 DEF IInv, TypeOK, Chip
<1>4. dma' \in Chips /\ Aimed(dma') /\ "auto" \in (dma').mode
  BY <1>1, <1>3, SetReadKeepsAim
<1>5. TypeOK'
  BY <1>1, <1>2, <1>4 DEF IInv, TypeOK
<1>6. Control'
  BY <1>1, <1>2 DEF IInv, Control, Quiet, Signalled, Seen, ReadOf, Track, Head, Sector, NextSector
<1>7. Chip'
  BY <1>1, <1>4 DEF Chip, Aimed
<1>8. TransfersInBuffer'
  BY <1>1 DEF IInv, TransfersInBuffer, Buffer
<1>9. ~Delivered'
  BY <1>1, <1>2 DEF IInv, Control, Delivered
<1> QED BY <1>5, <1>6, <1>7, <1>8, <1>9 DEF IInv, Sound

\* The other steps of the driver move no byte.
LEMMA DriverQuietStep ==
  ASSUME IInv,
         \/ fd_reset \/ CalibrateMotorOn \/ CalibrateCommand \/ CalibrateCheck
         \/ SeekCommand \/ SeekCheck \/ ReadStatus \/ ReadMotorOff \/ ReadReturn
  PROVE  IInv'
<1> USE DEF Goto, fdcVars, dorVars
<1>0. /\ UNCHANGED <<lba, cylinder, memVars, readError>>
      /\ Attempts \in Nat \ {0} /\ SleepTicks \in Nat
  BY DiskAssumption DEF fd_reset, CalibrateMotorOn, CalibrateCommand, CalibrateCheck,
         SeekCommand, SeekCheck, ReadStatus, ReadMotorOff, ReadReturn
<1>1. TypeOK'
  <2>1. attempt' \in 1 .. Attempts
    <3>1. attempt' = attempt \/ attempt' = 1 \/ (attempt' = attempt + 1 /\ attempt < Attempts)
      BY DEF fd_reset, CalibrateMotorOn, CalibrateCommand, CalibrateCheck,
             SeekCommand, SeekCheck, ReadStatus, ReadMotorOff, ReadReturn
    <3> QED BY <1>0, <3>1 DEF IInv, TypeOK
  <2>a. UNCHANGED <<fd_irq6_stat, irq>>
    BY DEF fd_reset, CalibrateMotorOn, CalibrateCommand, CalibrateCheck,
         SeekCommand, SeekCheck, ReadStatus, ReadMotorOff, ReadReturn
  <2>b. motor' \in {motor, TRUE, FALSE} /\ gate' \in {gate, TRUE, FALSE}
    BY DEF fd_reset, CalibrateMotorOn, CalibrateCommand, CalibrateCheck,
         SeekCommand, SeekCheck, ReadStatus, ReadMotorOff, ReadReturn,
         fd_control_motor
  <2>2. wake' \in 0 .. SleepTicks /\ ret' \in {"none", "buffer", "null"}
    BY <1>0 DEF IInv, TypeOK, fd_reset, CalibrateMotorOn, CalibrateCommand, CalibrateCheck,
         SeekCommand, SeekCheck, ReadStatus, ReadMotorOff, ReadReturn, fd_control_motor
  <2>3. phase' \in {"off", "reset", "idle", "exec", "result"}
    BY DEF IInv, TypeOK, fd_reset, CalibrateMotorOn, CalibrateCommand, CalibrateCheck,
         SeekCommand, SeekCheck, ReadStatus, ReadMotorOff, ReadReturn, fd_send_command
  <2> QED BY <1>0, <2>1, <2>a, <2>b, <2>2, <2>3 DEF IInv, TypeOK, memVars
<1>2. Control'
  <2> USE DEF IInv, Control, Quiet, Signalled, Seen
  <2>1. CASE fd_reset
    BY <2>1 DEF fd_reset
  <2>2. CASE CalibrateMotorOn
    BY <2>2 DEF CalibrateMotorOn, fd_control_motor
  <2>3. CASE CalibrateCommand
    BY <2>3 DEF CalibrateCommand, fd_send_command
  <2>4. CASE CalibrateCheck
    BY <2>4 DEF CalibrateCheck, fd_control_motor
  <2>5. CASE SeekCommand
    BY <2>5 DEF SeekCommand, fd_send_command
  <2>6. CASE SeekCheck
    BY <2>6 DEF SeekCheck
  <2>7. CASE ReadStatus
    BY <2>7 DEF ReadStatus
  <2>8. CASE ReadMotorOff
    BY <2>8 DEF ReadMotorOff, fd_control_motor
  <2>9. CASE ReadReturn
    BY <2>9 DEF ReadReturn
  <2> QED BY <2>1, <2>2, <2>3, <2>4, <2>5, <2>6, <2>7, <2>8, <2>9
<1>3. Delivered' => Delivered
  BY DEF Delivered, IInv, Control, fd_reset, CalibrateMotorOn, CalibrateCommand, CalibrateCheck,
         SeekCommand, SeekCheck, ReadStatus, ReadMotorOff, ReadReturn
<1>4. pc # "dma" /\ pc' # "dma" /\ pc' # "read_wait"
  BY DEF IInv, Control, fd_reset, CalibrateMotorOn, CalibrateCommand, CalibrateCheck,
         SeekCommand, SeekCheck, ReadStatus, ReadMotorOff, ReadReturn
<1> QED BY <1>0, <1>1, <1>2, <1>3, <1>4, NothingMoves DEF IInv

\* A request.
LEMMA RequestStep ==
  ASSUME IInv, NEW n \in Requests, fd_read_sector(n)
  PROVE  IInv'
<1>1. /\ UNCHANGED <<phase, cmd, cylinder, memVars, readError, fd_irq6_stat, irq>>
      /\ pc = "ready" /\ pc' = "seek_cmd" /\ lba' = n /\ ret' = "none" /\ attempt' = 1
      /\ motor' = TRUE /\ gate' = TRUE /\ wake' = SleepTicks
  BY DEF fd_read_sector, Goto, fd_control_motor, fdcVars
<1>2. TypeOK'
  BY <1>1, DiskAssumption DEF IInv, TypeOK, memVars, Sectors
<1>3. Control'
  BY <1>1 DEF IInv, Control, Quiet, Signalled, Seen
<1>4. Chip'
  BY <1>1 DEF IInv, Chip, Aimed, Buffer, memVars
<1>5. TransfersInBuffer'
  BY <1>1 DEF IInv, TransfersInBuffer, Buffer, memVars
<1>6. ~Delivered'
  BY <1>1 DEF Delivered
<1> QED BY <1>2, <1>3, <1>4, <1>5, <1>6 DEF IInv, Sound

\* The controller ends a reset or a seek: its interrupt is the one waited for.
LEMMA ControllerQuietStep ==
  ASSUME IInv, FdcResetDone \/ FdcSeekDone
  PROVE  IInv'
<1>1. /\ UNCHANGED <<pc, lba, attempt, ret, memVars, readError, motor, gate, fd_irq6_stat, wake>>
      /\ cylinder' = cylinder \/ cylinder' \in Cylinders
      /\ phase' = "idle" /\ irq' = gate
      /\ phase = "reset" \/ (phase = "exec" /\ cmd.op = "seek")
  BY DEF FdcResetDone, FdcSeekDone, Raise, driverVars, dorVars
<1>2. pc \in {"reset_wait", "cal_wait", "seek_wait"} /\ Quiet /\ gate
  BY <1>1 DEF IInv, Control, ReadOf
<1>3. TypeOK'
  BY <1>1 DEF IInv, TypeOK, memVars
<1>4. Control'
  BY <1>1, <1>2 DEF IInv, Control, Quiet, Signalled, Seen
<1>5. Delivered' => Delivered
  BY <1>1, <1>2 DEF Delivered
<1> QED BY <1>1, <1>2, <1>3, <1>4, <1>5, NothingMoves DEF IInv

\* A transfer as long as the chip lets it be, of whatever data, leaves memory
\* outside the buffer alone and the chip aimed.
LEMMA TransferStep ==
  ASSUME IInv, pc = "read_wait", NEW n \in 0 .. Room(dma), NEW data, Transfer(n, data)
  PROVE  /\ dma' \in Chips /\ Aimed(dma') /\ "auto" \in (dma').mode
         /\ DOMAIN ram' = 0 .. (Word - 1) /\ from' \in DOMAIN ram' /\ from' = dma.address
         /\ TransfersInBuffer'
<1>1. /\ dma \in Chips /\ Aimed(dma) /\ "auto" \in dma.mode
      /\ DOMAIN ram = 0 .. (Word - 1) /\ TransfersInBuffer
  BY DEF IInv, TypeOK, Chip
<1>2. dma' = Moved(dma, n) /\ ram' = Stored(ram, dma, n, data) /\ from' = dma.address
  BY DEF Transfer
<1>3. dma' \in Chips /\ Aimed(dma') /\ "auto" \in (dma').mode
  BY <1>1, <1>2, MovedKeepsAim
<1>4. DOMAIN ram' = 0 .. (Word - 1)
  BY <1>1, <1>2 DEF Stored
<1>5. from' \in DOMAIN ram'
  BY <1>1, <1>2, <1>4 DEF Chips
<1>6. TransfersInBuffer'
  <2> SUFFICES ASSUME NEW a \in (0 .. (Word - 1)) \ Buffer PROVE (ram')[a] = None
    BY <1>4 DEF TransfersInBuffer, Buffer, None
  <2>1. /\ a \in 0 .. (Word - 1) /\ a \notin Buffer
        /\ dma \in Chips /\ Aimed(dma) /\ n \in 0 .. Room(dma) /\ DOMAIN ram = 0 .. (Word - 1)
    BY <1>1
  <2>2. ~((a - dma.address) % Word < n)
    BY <2>1, StoresInBuffer
  <2>3. Stored(ram, dma, n, data)[a] = ram[a]
    BY <2>1, <2>2 DEF Stored
  <2> QED BY <1>1, <1>2, <2>1, <2>3 DEF TransfersInBuffer
<1> QED BY <1>2, <1>3, <1>4, <1>5, <1>6

\* A transfer that succeeds and began at the buffer's start puts the sector
\* that was asked for there, byte for byte.
LEMMA SectorArrives ==
  ASSUME IInv, dma.address = DMA_BUFFER, Aimed(dma), Room(dma) - 1 \in DOMAIN Stream(ReadOf(lba)),
         Transfer(Room(dma), Stream(ReadOf(lba))), lba' = lba
  PROVE  Holds(lba)'
<1>0. SectorBytes \in Nat \ {0} /\ DMA_BUFFER \in 0 .. (Word - 1) /\ DMA_BUFFER + SectorBytes <= Word
  BY ChipNumbers
<1>1. dma \in Chips /\ DOMAIN ram = 0 .. (Word - 1) /\ lba \in Nat
  BY DiskAssumption DEF IInv, TypeOK, Sectors
<1>2. Room(dma) = SectorBytes
  BY <1>0, <1>1 DEF Aimed, Room, Chips
<1>3. ram' = Stored(ram, dma, SectorBytes, Stream(ReadOf(lba)))
  BY <1>2 DEF Transfer
<1> SUFFICES ASSUME NEW i \in 0 .. (SectorBytes - 1) PROVE (ram')[DMA_BUFFER + i] = <<lba, i>>
  BY DEF Holds
<1>4. DMA_BUFFER + i \in 0 .. (Word - 1) /\ i \in Nat /\ i < SectorBytes
  <2>1. Word \in Nat /\ i \in Nat /\ i < SectorBytes
    BY <1>0, ChipNumbers
  <2> QED BY <1>0, <2>1
<1>5. ((DMA_BUFFER + i) - dma.address) % Word = i
  BY <1>0, <1>4, Offset
<1>6. (ram')[DMA_BUFFER + i] = Stream(ReadOf(lba))[i]
  BY <1>1, <1>3, <1>4, <1>5 DEF Stored
<1>7. i \in DOMAIN Stream(ReadOf(lba))
  <2> DEFINE top == SectorBytes * (ReadOf(lba).last - ReadOf(lba).sector + 1) - 1
  <2>1. DOMAIN Stream(ReadOf(lba)) = 0 .. top
    BY DEF Stream
  <2>2. top \in Int
    <3>1. ReadOf(lba).last \in Int /\ ReadOf(lba).sector \in Int
      BY <1>1, DiskAssumption, DivMod DEF ReadOf, NextSector, Sector
    <3> QED BY <1>0, <3>1, SMT
  <2> HIDE DEF top
  <2> QED BY <1>2, <1>4, <2>1, <2>2
<1>8. i \div SectorBytes = 0 /\ i % SectorBytes = i
  <2>1. i = SectorBytes * 0 + i
    BY <1>0, <1>4
  <2>2. 0 \in Int /\ SectorBytes \in Nat \ {0} /\ i \in 0 .. (SectorBytes - 1)
    BY <1>0
  <2>3. (SectorBytes * 0 + i) % SectorBytes = i /\ (SectorBytes * 0 + i) \div SectorBytes = 0
    BY <2>2, Remainder, Zenon
  <2> QED BY <2>1, <2>3
<1>9. Stream(ReadOf(lba))[i] = <<OnDisk(Track(lba), Head(lba), Sector(lba)) + 0, i>>
  BY <1>7, <1>8 DEF Stream, ReadOf
<1> QED BY <1>1, <1>6, <1>9, AddressesTheSector

\* The controller ends a read, with or without an error, after any number of
\* bytes.
LEMMA ReadDoneStep ==
  ASSUME IInv, FdcReadDone
  PROVE  IInv'
<1>1. /\ UNCHANGED <<pc, lba, attempt, ret, cmd, cylinder, motor, gate, fd_irq6_stat, wake>>
      /\ phase = "exec" /\ cmd.op = "read" /\ phase' = "result" /\ irq' = gate
  BY DEF FdcReadDone, Raise, driverVars, dorVars
<1>2. pc = "read_wait" /\ cmd = ReadOf(lba) /\ Quiet /\ gate
  BY <1>1 DEF IInv, Control
<1>3. Aimed(dma) /\ dma \in Chips
  BY <1>2 DEF IInv, Chip, TypeOK
<1>a. PICK n \in 0 .. Room(dma) : \E data : Transfer(n, data)
  <2>1. Room(dma) \in Nat
    BY <1>3 DEF Room, Chips
  <2>2. CASE Transfer(Room(dma), Stream(cmd))
    BY <2>1, <2>2
  <2>3. CASE \E n \in 0 .. SectorBytes :
               /\ n > 0 => Serves(dma) /\ n <= Room(dma)
               /\ Transfer(n, [i \in 0 .. (SectorBytes - 1) |-> None])
    BY <2>1, <2>3, ChipNumbers
  <2> QED BY <2>2, <2>3 DEF FdcReadDone
<1>4. PICK data : Transfer(n, data)
  BY <1>a
<1>5. /\ dma' \in Chips /\ Aimed(dma') /\ "auto" \in (dma').mode
      /\ DOMAIN ram' = 0 .. (Word - 1) /\ from' \in DOMAIN ram' /\ from' = dma.address
      /\ TransfersInBuffer'
  BY <1>2, <1>4, TransferStep
<1>6. TypeOK'
  BY <1>1, <1>5 DEF IInv, TypeOK, FdcReadDone
<1>7. Control'
  BY <1>1, <1>2 DEF IInv, Control, Quiet, Signalled, Seen
<1>8. Chip'
  BY <1>1, <1>5 DEF Chip, Aimed
<1>9. Sound'
  <2> SUFFICES ASSUME from' = DMA_BUFFER, ~(readError') PROVE Holds(lba)'
    BY DEF Sound
  <2>1. Room(dma) - 1 \in DOMAIN Stream(cmd) /\ Transfer(Room(dma), Stream(cmd))
    BY DEF FdcReadDone
  <2> QED BY <1>1, <1>2, <1>3, <1>5, <2>1, SectorArrives
<1> QED BY <1>5, <1>6, <1>7, <1>8, <1>9 DEF IInv

\* The two handlers.
LEMMA HandlerStep ==
  ASSUME IInv, fd_irq6_handler \/ timer_irq0_handler
  PROVE  IInv'
<1>1. UNCHANGED <<pc, lba, attempt, ret, phase, cmd, cylinder, memVars, readError, motor, gate>>
  BY DEF fd_irq6_handler, timer_irq0_handler, driverVars, fdcVars, dorVars
<1>2. TypeOK'
  <2>1. wake' \in 0 .. SleepTicks
    BY DiskAssumption DEF IInv, TypeOK, fd_irq6_handler, timer_irq0_handler
  <2> QED BY <1>1, <2>1 DEF IInv, TypeOK, memVars, fd_irq6_handler, timer_irq0_handler
<1>3. Control'
  BY <1>1 DEF IInv, Control, Quiet, Signalled, Seen, fd_irq6_handler, timer_irq0_handler
<1>4. Delivered' => Delivered
  BY <1>1 DEF Delivered
<1>5. CASE pc # "dma"
  BY <1>1, <1>2, <1>3, <1>4, <1>5, NothingMoves DEF IInv
<1>6. CASE pc = "dma"
  <2>1. Chip'
    BY <1>1, <1>6 DEF Chip
  <2>2. TransfersInBuffer' /\ Sound'
    BY <1>1, <1>4 DEF IInv, TransfersInBuffer, Buffer, Sound, Holds, memVars
  <2> QED BY <1>2, <1>3, <2>1, <2>2 DEF IInv
<1> QED BY <1>5, <1>6

\* The invariant holds of the machine as the boot loader leaves it.
LEMMA InitHolds == Init => IInv
<1> SUFFICES ASSUME Init PROVE IInv
  OBVIOUS
<1>1. dma \in Chips
  BY ChipNumbers DEF Init, Chips, FDC_DMA_CHANNEL
<1>2. TypeOK
  <2>1. lba \in Sectors
    <3>1. SectorsPerTrack * Tracks \in Nat \ {0}
      BY DiskAssumption, SMT
    <3>2. 2 * SectorsPerTrack * Tracks = 2 * (SectorsPerTrack * Tracks)
      BY DiskAssumption, SMT
    <3> HIDE DEF Sectors
    <3>3. 0 \in 0 .. (2 * SectorsPerTrack * Tracks - 1)
      BY <3>1, <3>2
    <3> QED BY <3>3 DEF Init, Sectors
  <2>2. DOMAIN ram = 0 .. (Word - 1) /\ from \in DOMAIN ram
    BY ChipNumbers DEF Init
  <2>3. attempt \in 1 .. Attempts /\ wake \in 0 .. SleepTicks
    BY DiskAssumption DEF Init
  <2> QED BY <1>1, <2>1, <2>2, <2>3 DEF Init, TypeOK
<1>3. Control
  BY DEF Init, Control, Quiet
<1>4. Chip /\ TransfersInBuffer /\ Sound
  BY DEF Init, Chip, TransfersInBuffer, Sound, Delivered
<1> QED BY <1>2, <1>3, <1>4 DEF IInv

\* Every step preserves the invariant.
LEMMA StepHolds == IInv /\ [Next]_vars => IInv'
<1> SUFFICES ASSUME IInv, [Next]_vars PROVE IInv'
  OBVIOUS
<1>1. CASE DriverStep
  BY <1>1, WaitStep, ClearStep, DmaInitStep, ReadCommandStep, DriverQuietStep DEF DriverStep
<1>2. CASE Controller
  BY <1>2, ControllerQuietStep, ReadDoneStep DEF Controller
<1>3. CASE fd_irq6_handler \/ timer_irq0_handler
  BY <1>3, HandlerStep
<1>4. CASE \E n \in Requests : fd_read_sector(n)
  BY <1>4, RequestStep
<1>5. CASE UNCHANGED vars
  <2>1. UNCHANGED <<pc, lba, attempt, ret, phase, cmd, cylinder, dma, ram, from, readError, motor, gate,
                    fd_irq6_stat, wake, irq>>
    BY <1>5 DEF vars, driverVars, fdcVars, memVars, dorVars
  <2>2. TypeOK' /\ Control'
    BY <2>1 DEF IInv, TypeOK, Control, Quiet, Signalled, Seen
  <2>3. Chip' /\ TransfersInBuffer' /\ Sound'
    BY <2>1 DEF IInv, Chip, Aimed, Buffer, TransfersInBuffer, Sound, Delivered, Holds
  <2> QED BY <2>2, <2>3 DEF IInv
<1> QED BY <1>1, <1>2, <1>3, <1>4, <1>5 DEF Next

\* The invariant holds always.
LEMMA Invariant == Spec => []IInv
BY InitHolds, StepHolds, PTL DEF Spec

---------------------------------------------------------------------------
(* What follows.                                                           *)

\* Every variable keeps its type; in particular the chip's registers never
\* leave their widths and no seek or calibration exceeds its tries.
THEOREM TypeCorrect == Spec => []TypeOK
<1>1. IInv => TypeOK
  BY DEF IInv
<1> QED BY <1>1, Invariant, PTL

\* When the driver sends a command, no interrupt of an earlier command is at
\* the line or remembered in fd_irq6_stat, and the controller is idle.
THEOREM NoWaitIsStale == Spec => []NoStaleInterrupt
<1>1. IInv => NoStaleInterrupt
  BY DEF IInv, Control, Quiet, NoStaleInterrupt
<1> QED BY <1>1, Invariant, PTL

\* Past fd_wait_irq6 the command that was waited for is done.
THEOREM WaitsEndWithTheirCommand == Spec => []WaitMeansDone
<1>1. IInv => WaitMeansDone
  BY DEF IInv, Control, Quiet, Seen, WaitMeansDone
<1> QED BY <1>1, Invariant, PTL

\* However the controller cuts transfers short, no byte is written outside the
\* DMA buffer, though the channel is programmed only once.
THEOREM NoByteOutsideBuffer == Spec => []TransfersInBuffer
<1>1. IInv => TransfersInBuffer
  BY DEF IInv
<1> QED BY <1>1, Invariant, PTL

\* fd_read_sector delivers the sector it was asked for, byte for byte, if the
\* controller reported no error and the transfer began at the buffer's start.
THEOREM DeliversTheSector == Spec => []ReadsTheRightSector
<1>1. IInv => ReadsTheRightSector
  BY DEF IInv, Sound, Delivered, Holds, ReadsTheRightSector
<1> QED BY <1>1, Invariant, PTL
===========================================================================
