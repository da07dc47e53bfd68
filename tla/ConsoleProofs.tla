--------------------------- MODULE ConsoleProofs ---------------------------
(***************************************************************************)
(* Proofs about Console for every size of screen, tab distance, text and   *)
(* number of keys, with the keyboard handler between any two steps of the  *)
(* shell's print_char.                                                     *)
(***************************************************************************)
EXTENDS Console, TLAPS

Chars == Text \cup Keys \cup {Blank}
Displays == [fb : [Cells -> Chars], x : Nat, y : Nat]
Now == [fb |-> framebuffer, x |-> cursor_x, y |-> cursor_y]

---------------------------------------------------------------------------
(* Arithmetic.                                                             *)

\* The screen has lines and columns.
LEMMA Sizes == /\ MAX_ROW \in Nat \ {0} /\ MAX_COL \in Nat \ {0}
               /\ Tab \in Nat \ {0} /\ Byte \in Nat \ {0}
               /\ MaxPrints \in Nat /\ MaxKeys \in Nat
BY ConsoleAssumption

\* The product of natural numbers is one.
LEMMA ProductNat ==
  ASSUME NEW a \in Nat, NEW b \in Nat
  PROVE  a * b \in Nat
BY SMT

\* Division with remainder.
LEMMA DivMod ==
  ASSUME NEW a \in Nat, NEW d \in Nat \ {0}
  PROVE  /\ a \div d \in Nat
         /\ a % d \in 0 .. (d - 1)
         /\ a = d * (a \div d) + (a % d)
BY SMT

\* The tab stop after column x.
LEMMA TabStop ==
  ASSUME NEW x \in Nat
  PROVE  /\ ((x \div Tab) + 1) * Tab \in Nat
         /\ x < ((x \div Tab) + 1) * Tab
         /\ ((x \div Tab) + 1) * Tab <= x + Tab
<1> DEFINE q == x \div Tab
           r == x % Tab
<1>1. q \in Nat /\ r \in 0 .. (Tab - 1) /\ x = Tab * q + r
  BY DivMod, Sizes
<1> HIDE DEF q, r
<1>2. (q + 1) * Tab = Tab * q + Tab /\ Tab * q \in Nat
  BY <1>1, Sizes, SMT
<1>3. (q + 1) * Tab \in Nat /\ x < (q + 1) * Tab /\ (q + 1) * Tab <= x + Tab
  BY <1>1, <1>2, Sizes
<1> QED BY <1>3 DEF q

---------------------------------------------------------------------------
(* print_char, uninterrupted.                                              *)

\* Drawing leaves a display one.
LEMMA DrawType ==
  ASSUME NEW d \in Displays, NEW c \in Chars
  PROVE  /\ Draw(d, c) \in Displays
         /\ Draw(d, c).x = d.x /\ Draw(d, c).y = d.y
         /\ Draw(d, c).fb = [d.fb EXCEPT ![Location(d)] = c]
<1>1. [d.fb EXCEPT ![Location(d)] = c] \in [Cells -> Chars]
  BY DEF Displays
<1>2. Draw(d, c) = [d EXCEPT !.fb = [d.fb EXCEPT ![Location(d)] = c]]
  BY DEF Draw
<1> HIDE DEF Cells, Chars
<1> DEFINE new == [d.fb EXCEPT ![Location(d)] = c]
<1>3. new \in [Cells -> Chars] /\ Draw(d, c) = [d EXCEPT !.fb = new]
  BY <1>1, <1>2
<1> HIDE DEF new
<1>4. [d EXCEPT !.fb = new] \in Displays /\ [d EXCEPT !.fb = new].x = d.x /\ [d EXCEPT !.fb = new].y = d.y
      /\ [d EXCEPT !.fb = new].fb = new
  BY <1>3 DEF Displays
<1> QED BY <1>3, <1>4 DEF new

\* Moving the cursor leaves the rest alone.
LEMMA MoveType ==
  ASSUME NEW d \in Displays, NEW n \in Nat
  PROVE  /\ [d EXCEPT !.x = n] \in Displays
         /\ [d EXCEPT !.x = n].x = n /\ [d EXCEPT !.x = n].y = d.y /\ [d EXCEPT !.x = n].fb = d.fb
         /\ [d EXCEPT !.y = n] \in Displays
         /\ [d EXCEPT !.y = n].y = n /\ [d EXCEPT !.y = n].x = d.x /\ [d EXCEPT !.y = n].fb = d.fb
BY DEF Displays

\* The cursor goes to the next line when it is past the last column.
LEMMA WrapIs ==
  ASSUME NEW d \in Displays
  PROVE  /\ Wrap(d) \in Displays /\ Wrap(d).fb = d.fb /\ Wrap(d).x < MAX_ROW
         /\ d.x < MAX_ROW => Wrap(d).x = d.x /\ Wrap(d).y = d.y
         /\ d.x >= MAX_ROW => Wrap(d).x = 0 /\ Wrap(d).y = d.y + 1
<1>0. d.x \in Nat /\ d.y \in Nat /\ MAX_ROW \in Nat \ {0} /\ d.y + 1 \in Nat /\ 0 \in Nat
  BY Sizes DEF Displays
<1>1. CASE d.x < MAX_ROW
  BY <1>0, <1>1 DEF Wrap
<1>2. CASE d.x >= MAX_ROW
  <2> DEFINE left == [d EXCEPT !.x = 0]
             new == [left EXCEPT !.y = d.y + 1]
  <2>1. Wrap(d) = [d EXCEPT !.x = 0, !.y = d.y + 1]
    BY <1>2 DEF Wrap
  <2>2. [d EXCEPT !.x = 0, !.y = d.y + 1] = new
    OBVIOUS
  <2>3. left \in Displays /\ left.x = 0 /\ left.y = d.y /\ left.fb = d.fb
    BY <1>0, MoveType
  <2> HIDE DEF left
  <2>4. new \in Displays /\ new.x = 0 /\ new.y = d.y + 1 /\ new.fb = d.fb
    BY <1>0, <2>3, MoveType
  <2> HIDE DEF new
  <2> QED BY <1>0, <1>2, <2>1, <2>2, <2>4
<1> QED BY <1>0, <1>1, <1>2

\* The text moves up when the cursor is past the last line.
LEMMA ScrolledType ==
  ASSUME NEW fb \in [Cells -> Chars]
  PROVE  Scrolled(fb) \in [Cells -> Chars]
<1> SUFFICES ASSUME NEW i \in Cells
             PROVE  (IF i < MAX_ROW * (MAX_COL - 1) THEN fb[i + MAX_ROW]
                     ELSE IF i < MAX_ROW * MAX_COL THEN Blank ELSE fb[i]) \in Chars
  BY DEF Scrolled
<1>1. MAX_ROW * (MAX_COL - 1) \in Nat /\ MAX_ROW * MAX_COL \in Nat
  BY Sizes, ProductNat
<1>2. MAX_ROW * (MAX_COL + 1) = MAX_ROW * (MAX_COL - 1) + MAX_ROW + MAX_ROW
  BY Sizes, SMT
<1>3. ASSUME i < MAX_ROW * (MAX_COL - 1) PROVE i + MAX_ROW \in Cells
  <2> DEFINE a == MAX_ROW * (MAX_COL - 1)
  <2>1. a \in Nat /\ i < a /\ MAX_ROW * (MAX_COL + 1) = a + MAX_ROW + MAX_ROW
    BY <1>1, <1>2, <1>3
  <2> HIDE DEF a
  <2>2. i \in Nat
    BY <2>1, Sizes DEF Cells
  <2>3. i + MAX_ROW \in 0 .. ((a + MAX_ROW + MAX_ROW) - 1)
    BY <2>1, <2>2, Sizes
  <2> QED BY <2>1, <2>3 DEF Cells
<1> QED BY <1>3 DEF Chars

\* scroll_screen leaves the cursor on a line of the screen.
LEMMA ScrollIs ==
  ASSUME NEW d \in Displays
  PROVE  /\ scroll_screen(d) \in Displays
         /\ scroll_screen(d).x = d.x /\ scroll_screen(d).y < MAX_COL
         /\ d.y < MAX_COL => scroll_screen(d) = d
         /\ ~(d.y < MAX_COL) => scroll_screen(d).y = MAX_COL - 1 /\ scroll_screen(d).fb = Scrolled(d.fb)
<1>0. d.y \in Nat /\ d.fb \in [Cells -> Chars] /\ MAX_COL \in Nat \ {0} /\ MAX_COL - 1 \in Nat
  BY Sizes DEF Displays
<1>1. CASE d.y < MAX_COL
  BY <1>0, <1>1 DEF scroll_screen
<1>2. CASE ~(d.y < MAX_COL)
  <2> DEFINE fb == Scrolled(d.fb)
             up == [d EXCEPT !.fb = fb]
             new == [up EXCEPT !.y = MAX_COL - 1]
  <2>1. scroll_screen(d) = [d EXCEPT !.fb = fb, !.y = MAX_COL - 1]
    BY <1>2 DEF scroll_screen
  <2>2. [d EXCEPT !.fb = fb, !.y = MAX_COL - 1] = new
    OBVIOUS
  <2>3. fb \in [Cells -> Chars]
    BY <1>0, ScrolledType
  <2> HIDE DEF fb, Cells, Chars
  <2>4. up \in Displays /\ up.x = d.x /\ up.fb = fb
    BY <2>3 DEF Displays
  <2> HIDE DEF up
  <2>5. new \in Displays /\ new.x = d.x /\ new.y = MAX_COL - 1 /\ new.fb = fb
    BY <1>0, <2>4, MoveType
  <2> HIDE DEF new
  <2> QED BY <1>0, <1>2, <2>1, <2>2, <2>5 DEF fb
<1> QED BY <1>1, <1>2

\* What print_char does before it looks at the edges of the screen.
LEMMA AdvanceIs ==
  ASSUME NEW d \in Displays, NEW c \in Chars
  PROVE  /\ Advance(d, c) \in Displays
         /\ c \in {"cr", "nl", "tab"} => Advance(d, c).fb = d.fb
         /\ c = "cr" => Advance(d, c).x = 0 /\ Advance(d, c).y = d.y
         /\ c = "nl" => Advance(d, c).x = 0 /\ Advance(d, c).y = d.y + 1
         /\ c = "tab" => Advance(d, c).x = ((d.x \div Tab) + 1) * Tab /\ Advance(d, c).y = d.y
         /\ c = "unknown" \/ (c = "bs" /\ d.x = 0 /\ d.y = 0) => Advance(d, c) = d
         /\ c = "bs" /\ d.x > 0 => /\ Advance(d, c).x = d.x - 1 /\ Advance(d, c).y = d.y
                                   /\ Advance(d, c).fb = [d.fb EXCEPT ![d.y * MAX_ROW + (d.x - 1)] = Blank]
         /\ c = "bs" /\ d.x = 0 /\ d.y > 0 =>
              /\ Advance(d, c).x = MAX_ROW - 1 /\ Advance(d, c).y = d.y - 1
              /\ Advance(d, c).fb = [d.fb EXCEPT ![(d.y - 1) * MAX_ROW + (MAX_ROW - 1)] = Blank]
         /\ c \notin Controls => /\ Advance(d, c).x = d.x + 1 /\ Advance(d, c).y = d.y
                                 /\ Advance(d, c).fb = [d.fb EXCEPT ![d.y * MAX_ROW + d.x] = c]
<1>0. /\ d.x \in Nat /\ d.y \in Nat /\ d.y + 1 \in Nat /\ d.x + 1 \in Nat /\ 0 \in Nat
      /\ Blank \in Chars /\ MAX_ROW - 1 \in Nat
  BY Sizes DEF Displays, Chars
<1>1. CASE c = "cr"
  BY <1>0, <1>1, MoveType DEF Advance, Controls
<1>2. CASE c = "tab"
  <2> DEFINE stop == ((d.x \div Tab) + 1) * Tab
  <2>1. Advance(d, c) = [d EXCEPT !.x = stop]
    BY <1>2 DEF Advance, Controls
  <2>2. stop \in Nat
    BY <1>0, TabStop
  <2> HIDE DEF stop
  <2> DEFINE new == [d EXCEPT !.x = stop]
  <2>3. new \in Displays /\ new.x = stop /\ new.y = d.y /\ new.fb = d.fb
    BY <2>2, MoveType
  <2>4. Advance(d, c) = new
    BY <2>1
  <2> HIDE DEF new
  <2> QED BY <1>2, <2>3, <2>4 DEF stop, Controls
<1>3. CASE c = "nl"
  <2> DEFINE left == [d EXCEPT !.x = 0]
             new == [left EXCEPT !.y = d.y + 1]
  <2>1. Advance(d, c) = [d EXCEPT !.x = 0, !.y = d.y + 1]
    BY <1>3 DEF Advance, Controls
  <2>2. [d EXCEPT !.x = 0, !.y = d.y + 1] = new
    OBVIOUS
  <2>3. left \in Displays /\ left.x = 0 /\ left.y = d.y /\ left.fb = d.fb
    BY <1>0, MoveType
  <2> HIDE DEF left
  <2>4. new \in Displays /\ new.x = 0 /\ new.y = d.y + 1 /\ new.fb = d.fb
    BY <1>0, <2>3, MoveType
  <2> HIDE DEF new
  <2> QED BY <1>3, <2>1, <2>2, <2>4 DEF Controls
<1>4. CASE c = "unknown" \/ (c = "bs" /\ d.x = 0 /\ d.y = 0)
  <2>1. Advance(d, c) = d
    BY <1>0, <1>4 DEF Advance, Controls
  <2> QED BY <1>0, <1>4, <2>1 DEF Controls
<1>5. CASE c = "bs" /\ d.x > 0
  <2> DEFINE back == [d EXCEPT !.x = d.x - 1]
  <2>1. Advance(d, c) = Draw(back, Blank)
    BY <1>5 DEF Advance, Controls
  <2>2. d.x - 1 \in Nat
    BY <1>0, <1>5
  <2>3. back \in Displays /\ back.x = d.x - 1 /\ back.y = d.y /\ back.fb = d.fb
    BY <2>2, MoveType
  <2> HIDE DEF back
  <2>4. Location(back) = d.y * MAX_ROW + (d.x - 1)
    BY <2>3 DEF Location
  <2>5. /\ Draw(back, Blank) \in Displays /\ Draw(back, Blank).x = d.x - 1 /\ Draw(back, Blank).y = d.y
        /\ Draw(back, Blank).fb = [d.fb EXCEPT ![d.y * MAX_ROW + (d.x - 1)] = Blank]
    BY <1>0, <2>3, <2>4, DrawType
  <2> QED BY <1>0, <1>5, <2>1, <2>5 DEF Controls
<1>6. CASE c = "bs" /\ d.x = 0 /\ d.y > 0
  <2> DEFINE up == [d EXCEPT !.y = d.y - 1]
             back == [up EXCEPT !.x = MAX_ROW - 1]
  <2>1. Advance(d, c) = Draw([d EXCEPT !.y = d.y - 1, !.x = MAX_ROW - 1], Blank)
    BY <1>0, <1>6 DEF Advance, Controls
  <2>2. [d EXCEPT !.y = d.y - 1, !.x = MAX_ROW - 1] = back
    OBVIOUS
  <2>3. d.y - 1 \in Nat
    BY <1>0, <1>6
  <2>4. up \in Displays /\ up.x = d.x /\ up.y = d.y - 1 /\ up.fb = d.fb
    BY <2>3, MoveType
  <2> HIDE DEF up
  <2>5. back \in Displays /\ back.x = MAX_ROW - 1 /\ back.y = d.y - 1 /\ back.fb = d.fb
    BY <1>0, <2>4, MoveType
  <2> HIDE DEF back
  <2>6. Location(back) = (d.y - 1) * MAX_ROW + (MAX_ROW - 1)
    BY <2>5 DEF Location
  <2>7. /\ Draw(back, Blank) \in Displays /\ Draw(back, Blank).x = MAX_ROW - 1 /\ Draw(back, Blank).y = d.y - 1
        /\ Draw(back, Blank).fb = [d.fb EXCEPT ![(d.y - 1) * MAX_ROW + (MAX_ROW - 1)] = Blank]
    BY <1>0, <2>5, <2>6, DrawType
  <2> QED BY <1>0, <1>6, <2>1, <2>2, <2>7 DEF Controls
<1>7. CASE c \notin Controls
  <2> DEFINE drawn == Draw(d, c)
  <2>1. drawn \in Displays /\ drawn.x = d.x /\ drawn.y = d.y /\ drawn.fb = [d.fb EXCEPT ![d.y * MAX_ROW + d.x] = c]
    BY DrawType DEF Location
  <2>2. Advance(d, c) = [drawn EXCEPT !.x = drawn.x + 1]
    BY <1>7 DEF Advance, Controls
  <2> HIDE DEF drawn
  <2>3. Advance(d, c) = [drawn EXCEPT !.x = d.x + 1]
    BY <2>1, <2>2
  <2> DEFINE new == [drawn EXCEPT !.x = d.x + 1]
  <2>4. new \in Displays /\ new.x = d.x + 1 /\ new.y = d.y /\ new.fb = drawn.fb
    BY <1>0, <2>1, MoveType
  <2> HIDE DEF new
  <2>5. Advance(d, c) = new
    BY <2>3 DEF new
  <2> QED BY <1>7, <2>1, <2>4, <2>5 DEF Controls
<1> QED BY <1>0, <1>1, <1>2, <1>3, <1>4, <1>5, <1>6, <1>7 DEF Controls

\* Whatever the display was, print_char leaves the cursor on the screen.
LEMMA PrintType ==
  ASSUME NEW d \in Displays, NEW c \in Chars
  PROVE  /\ print_char(d, c) \in Displays
         /\ print_char(d, c).x < MAX_ROW /\ print_char(d, c).y < MAX_COL
<1>1. Advance(d, c) \in Displays
  BY AdvanceIs
<1>2. Wrap(Advance(d, c)) \in Displays /\ Wrap(Advance(d, c)).x < MAX_ROW
  BY <1>1, WrapIs
<1> QED BY <1>2, ScrollIs DEF print_char

---------------------------------------------------------------------------
(* The screen and the paper.                                               *)

Columns == 0 .. (MAX_ROW - 1)
Rows == 0 .. (MAX_COL - 1)
Papers == [cell : [Lines \X Columns -> Chars], line : Nat, column : Nat, top : Nat]

At(fb, x, y) == [fb |-> fb, x |-> x, y |-> y]

\* The display shows the paper from line top on, and below that the paper is
\* still blank.
Matches(d, p) ==
  /\ d \in Displays /\ p \in Papers
  /\ d.x = p.column /\ d.x < MAX_ROW
  /\ p.line = p.top + d.y /\ d.y < MAX_COL
  /\ \A l \in Rows, k \in Columns : d.fb[l * MAX_ROW + k] = p.cell[<<p.top + l, k>>]
  /\ \A l \in Lines, k \in Columns : l >= p.top + MAX_COL => p.cell[<<l, k>>] = Blank

---------------------------------------------------------------------------
(* The invariant.                                                          *)

Locals ==
  /\ pc \in {"idle", "load_y", "load_x", "draw", "load", "advance", "return", "tab", "tab_store",
             "feed", "feed_load", "feed_store", "wrap", "scroll", "copy", "clamp",
             "show", "show_x", "select_high", "high", "select_low", "low",
             "clear", "clear_x", "clear_y", "poll", "discard"}
  /\ char \in Chars /\ then \in {"wrap", "scroll"}
  /\ raced \in {"never", "earlier", "now"}
  /\ prints \in 0 .. MaxPrints /\ Len(pressed) \in 0 .. MaxKeys

\* Where the cursor may be while the shell is inside a call.  The handler
\* leaves it on the screen, wherever it comes.
Position ==
  /\ pc \notin {"wrap", "feed"} => cursor_x < MAX_ROW
  /\ pc \notin {"wrap", "scroll", "copy", "clamp"} => cursor_y < MAX_COL
  /\ pc = "wrap" => cursor_x < MAX_ROW \/ cursor_y < MAX_COL
  /\ pc \in {"advance", "tab_store"} => reg < MAX_ROW
  /\ pc = "feed_store" => reg < MAX_COL

\* What display_cursor has told the board, in a call the handler left alone.
Showing ==
  raced # "now" =>
    /\ ~Busy => shown = display_cursor(get_cursor_location)
    /\ pc = "show_x" => reg = cursor_y
    /\ pc \in {"select_high", "high", "select_low", "low"} => reg = get_cursor_location
    /\ pc = "high" => index = "high"
    /\ pc \in {"select_low", "low"} => shown.high = display_cursor(reg).high
    /\ pc = "low" => index = "low"

\* The keys that get_key has returned come before those that it may.
Keyboard ==
  /\ taken \in [count : Nat, last : Nat]
  /\ taken.last <= Len(pressed) /\ scancode <= Len(pressed) /\ key <= Len(pressed)
  /\ scancode # 0 => pc = "discard" \/ scancode > taken.last
  /\ pc = "discard" => key > taken.last /\ (scancode # 0 => scancode >= key)

\* Until the handler has come between, the rest of the shell's call leads to
\* a screen that shows the paper.
Printing ==
  raced = "never" =>
    /\ paper.line <= prints + Len(pressed)
    /\ pc \in {"idle", "poll", "discard", "show", "show_x", "select_high", "high", "select_low", "low"} =>
         Matches(Now, paper)
    /\ pc \in {"load_y", "load_x", "draw"} =>
         Matches(scroll_screen(Wrap(At([framebuffer EXCEPT ![get_cursor_location] = char],
                                       cursor_x + 1, cursor_y))), paper)
    /\ pc = "load_x" => reg = cursor_y
    /\ pc = "draw" => reg = get_cursor_location
    /\ pc \in {"load", "advance"} =>
         Matches(scroll_screen(Wrap(At(framebuffer, cursor_x + 1, cursor_y))), paper)
    /\ pc = "advance" => reg = cursor_x
    /\ pc = "return" => Matches(scroll_screen(Wrap(At(framebuffer, 0, cursor_y))), paper)
    /\ pc = "tab_store" => reg = cursor_x
    /\ pc \in {"tab", "tab_store"} =>
         Matches(scroll_screen(Wrap(At(framebuffer, ((cursor_x \div Tab) + 1) * Tab, cursor_y))), paper)
    /\ pc \in {"feed", "feed_load", "feed_store"} =>
         Matches(scroll_screen(At(framebuffer, 0, cursor_y + 1)), paper)
    /\ pc \in {"feed_load", "feed_store"} => cursor_x = 0
    /\ pc = "feed_store" => reg = cursor_y
    /\ pc = "wrap" => Matches(scroll_screen(Wrap(Now)), paper)
    /\ pc = "scroll" => Matches(scroll_screen(Now), paper)
    /\ pc = "copy" => Matches(At(Scrolled(framebuffer), cursor_x, MAX_COL - 1), paper)
    /\ pc = "clamp" => Matches(At(framebuffer, cursor_x, MAX_COL - 1), paper)
    /\ pc \in {"clear", "clear_x", "clear_y"} => paper = BlankPaper
    /\ pc \in {"clear_x", "clear_y"} =>
         \A l \in Rows, k \in Columns : framebuffer[l * MAX_ROW + k] = Blank
    /\ pc = "clear_y" => cursor_x = 0

IInv == TypeOK /\ Locals /\ Position /\ Showing /\ Keyboard /\ Printing

---------------------------------------------------------------------------
(* Types and the cursor, step by step.                                     *)

\* The display as it stands is one.
LEMMA NowType ==
  ASSUME TypeOK
  PROVE  /\ Now \in Displays /\ Now.fb = framebuffer /\ Now.x = cursor_x /\ Now.y = cursor_y
         /\ cursor_x \in Nat /\ cursor_y \in Nat /\ get_cursor_location \in Nat
<1>1. cursor_x \in Nat /\ cursor_y \in Nat /\ framebuffer \in [Cells -> Chars]
  BY Sizes DEF TypeOK, Chars
<1>2. get_cursor_location \in Nat
  BY <1>1, Sizes, ProductNat DEF get_cursor_location
<1> HIDE DEF Cells, Chars
<1> QED BY <1>1, <1>2 DEF Now, Displays

\* What a step inside print_char or clear_screen leaves alone.
LEMMA InsideLeaves ==
  ASSUME Locals, print_steps \/ clear_steps
  PROVE  /\ UNCHANGED <<scancode, key, char, pressed, prints, taken, paper, raced>>
         /\ pc \notin {"idle", "poll", "discard"} /\ pc' \notin {"poll", "discard"}
         /\ pc' = "idle" => pc = "low"
<1> USE DEF Goto, Load, StoreX, StoreY, StoreScreen, Select, Output, history
<1>1. CASE PrintLoadY \/ PrintLoadX \/ PrintDraw \/ PrintLoad \/ PrintAdvance
  BY <1>1 DEF PrintLoadY, PrintLoadX, PrintDraw, PrintLoad, PrintAdvance
<1>2. CASE PrintReturn \/ PrintTabLoad \/ PrintTabStore \/ FeedReturn \/ FeedLoad
  BY <1>2 DEF PrintReturn, PrintTabLoad, PrintTabStore, FeedReturn, FeedLoad
<1>3. CASE PrintWrap \/ ScrollTest \/ ScrollCopy \/ ScrollClamp \/ ShowLoadY \/ ShowLoadX
  BY <1>3 DEF PrintWrap, ScrollTest, ScrollCopy, ScrollClamp, ShowLoadY, ShowLoadX
<1>4. CASE ShowHigh \/ ShowLow
  BY <1>4 DEF ShowHigh, ShowLow
<1>5. CASE clear_steps
  BY <1>5 DEF clear_steps, ClearFill, ClearX, ClearY
<1>6. CASE FeedStore
  BY <1>6 DEF FeedStore, Locals
<1> QED BY <1>1, <1>2, <1>3, <1>4, <1>5, <1>6 DEF print_steps

\* The steps that load.
LEMMA LoadSteps ==
  ASSUME IInv, PrintLoadY \/ PrintLoadX \/ PrintLoad \/ PrintTabLoad \/ FeedLoad \/ ShowLoadY \/ ShowLoadX
  PROVE  TypeOK' /\ Locals' /\ Position' /\ Showing'
<1>1. UNCHANGED <<framebuffer, cursor_x, cursor_y, index, shown, scancode, char, then, key, prints, taken, paper, raced, pressed>>
  BY DEF PrintLoadY, PrintLoadX, PrintLoad, PrintTabLoad, FeedLoad, ShowLoadY, ShowLoadX, Load, screen, vga, history
<1>2. cursor_x \in Nat /\ cursor_y \in Nat /\ get_cursor_location \in Nat /\ reg \in Nat
  BY NowType DEF IInv, TypeOK
<1>3. reg * MAX_ROW + cursor_x \in Nat
  BY <1>2, Sizes, ProductNat
<1>4. reg' \in Nat
  BY <1>2, <1>3 DEF PrintLoadY, PrintLoadX, PrintLoad, PrintTabLoad, FeedLoad, ShowLoadY, ShowLoadX, Load
<1>5. TypeOK'
  BY <1>1, <1>4 DEF IInv, TypeOK
<1>6. Locals'
  BY <1>1 DEF IInv, Locals, PrintLoadY, PrintLoadX, PrintLoad, PrintTabLoad, FeedLoad, ShowLoadY, ShowLoadX, Load, Goto
<1>7. Position'
  BY <1>1 DEF IInv, Position, PrintLoadY, PrintLoadX, PrintLoad, PrintTabLoad, FeedLoad, ShowLoadY, ShowLoadX, Load, Goto
<1>8. Showing'
  <2>1. get_cursor_location' = get_cursor_location
    BY <1>1 DEF get_cursor_location
  <2>2. pc' \notin {"idle", "poll", "discard", "high", "select_low", "low"}
    BY DEF PrintLoadY, PrintLoadX, PrintLoad, PrintTabLoad, FeedLoad, ShowLoadY, ShowLoadX, Load, Goto
  <2>3. raced' # "now" => /\ pc' = "select_high" => reg' = get_cursor_location
                          /\ pc' = "show_x" => reg' = cursor_y'
    BY <1>1 DEF IInv, Showing, get_cursor_location, PrintLoadY, PrintLoadX, PrintLoad, PrintTabLoad, FeedLoad, ShowLoadY, ShowLoadX, Load, Goto
  <2> QED BY <2>1, <2>2, <2>3 DEF Showing, Busy
<1> QED BY <1>5, <1>6, <1>7, <1>8

\* The steps that store to the cursor, and the tests between them.
LEMMA CursorSteps ==
  ASSUME IInv, \/ PrintAdvance \/ PrintReturn \/ PrintTabStore \/ FeedReturn \/ FeedStore
               \/ PrintWrap \/ ScrollTest \/ ScrollClamp \/ ClearX \/ ClearY
  PROVE  TypeOK' /\ Locals' /\ Position' /\ Showing'
<1> USE DEF Goto, StoreX, StoreY
<1>1. UNCHANGED <<framebuffer, index, shown, scancode, reg, char, key, prints, taken, paper, raced, pressed>>
  BY DEF PrintAdvance, PrintReturn, PrintTabStore, FeedReturn, FeedStore, PrintWrap, ScrollTest, ScrollClamp,
         ClearX, ClearY, screen, vga, history
<1>2. /\ cursor_x \in Nat /\ cursor_y \in Nat /\ reg \in Nat
      /\ cursor_x <= MAX_ROW + Tab /\ cursor_y <= MAX_COL
  BY Sizes DEF IInv, TypeOK
<1>3. pc' \notin {"idle", "poll", "discard", "show_x", "select_high", "high", "select_low", "low"}
  BY DEF PrintAdvance, PrintReturn, PrintTabStore, FeedReturn, FeedStore, PrintWrap, ScrollTest, ScrollClamp,
         ClearX, ClearY, IInv, Locals
<1>4. Showing'
  BY <1>3 DEF Showing, Busy
<1>5. Locals'
  BY <1>1 DEF PrintAdvance, PrintReturn, PrintTabStore, FeedReturn, FeedStore, PrintWrap, ScrollTest, ScrollClamp,
         ClearX, ClearY, IInv, Locals
<1>6. cursor_x' \in 0 .. (MAX_ROW + Tab) /\ cursor_y' \in 0 .. MAX_COL /\ Position'
  <2>1. CASE PrintAdvance
    BY <1>1, <1>2, <2>1, Sizes DEF IInv, Position, PrintAdvance
  <2>2. CASE PrintTabStore
    <3> DEFINE stop == ((reg \div Tab) + 1) * Tab
    <3>1. stop \in Nat /\ stop <= reg + Tab
      BY <1>2, TabStop
    <3>2. pc = "tab_store" /\ pc' = "wrap" /\ cursor_x' = stop /\ cursor_y' = cursor_y
      BY <2>2 DEF PrintTabStore
    <3> HIDE DEF stop
    <3> QED BY <1>2, <3>1, <3>2, Sizes DEF IInv, Position
  <2>3. CASE PrintReturn \/ FeedReturn \/ ClearX
    BY <1>1, <1>2, <2>3, Sizes DEF IInv, Position, PrintReturn, FeedReturn, ClearX
  <2>4. CASE FeedStore
    BY <1>1, <1>2, <2>4, Sizes DEF IInv, Position, Locals, FeedStore
  <2>5. CASE PrintWrap \/ ScrollTest
    BY <1>1, <1>2, <2>5, Sizes DEF IInv, Position, PrintWrap, ScrollTest, screen
  <2>6. CASE ScrollClamp \/ ClearY
    BY <1>1, <1>2, <2>6, Sizes DEF IInv, Position, ScrollClamp, ClearY
  <2> QED BY <2>1, <2>2, <2>3, <2>4, <2>5, <2>6
<1>7. TypeOK'
  BY <1>1, <1>6 DEF IInv, TypeOK
<1> QED BY <1>4, <1>5, <1>6, <1>7

\* The steps that write to the screen.
LEMMA DrawSteps ==
  ASSUME IInv, PrintDraw \/ ScrollCopy \/ ClearFill
  PROVE  TypeOK' /\ Locals' /\ Position' /\ Showing'
<1> USE DEF Goto, StoreScreen
<1>1. UNCHANGED <<cursor_x, cursor_y, index, shown, scancode, reg, char, then, key, prints, taken, paper, raced, pressed>>
  BY DEF PrintDraw, ScrollCopy, ClearFill, vga, history
<1>2. framebuffer \in [Cells -> Chars] /\ char \in Chars
  BY DEF IInv, TypeOK, Locals, Chars
<1>3. framebuffer' \in [Cells -> Chars]
  <2>1. CASE PrintDraw
    BY <1>2, <2>1 DEF PrintDraw
  <2>2. CASE ScrollCopy
    BY <1>2, <2>2, ScrolledType DEF ScrollCopy
  <2>3. CASE ClearFill
    BY <1>2, <2>3 DEF ClearFill, Chars
  <2> QED BY <2>1, <2>2, <2>3
<1>4. TypeOK'
  BY <1>1, <1>3 DEF IInv, TypeOK, Chars
<1>5. pc' \in {"load", "clamp", "clear_x"} /\ Locals'
  BY <1>1 DEF PrintDraw, ScrollCopy, ClearFill, IInv, Locals
<1>6. Position'
  BY <1>1 DEF IInv, Position, PrintDraw, ScrollCopy, ClearFill
<1>7. Showing'
  BY <1>5 DEF Showing, Busy
<1> QED BY <1>4, <1>5, <1>6, <1>7

\* The steps that speak to the VGA board.
LEMMA BoardSteps ==
  ASSUME IInv, ShowHigh \/ ShowLow
  PROVE  TypeOK' /\ Locals' /\ Position' /\ Showing'
<1> USE DEF Goto, Select, Output
<1>1. UNCHANGED <<framebuffer, cursor_x, cursor_y, scancode, reg, char, then, key, prints, taken, paper, raced, pressed>>
  BY DEF ShowHigh, ShowLow, screen, history
<1>2. /\ reg \in Nat /\ index \in {"high", "low"} /\ shown \in [high : Nat, low : Nat]
  BY DEF IInv, TypeOK
<1>3. reg \div Byte \in Nat /\ reg % Byte \in Nat
  BY <1>2, Sizes, DivMod
<1> DEFINE hi == reg \div Byte
           lo == reg % Byte
<1>4. display_cursor(reg) = [high |-> hi, low |-> lo]
  BY DEF display_cursor
<1> HIDE DEF hi, lo
<1>5. display_cursor(reg).high = hi /\ display_cursor(reg).low = lo /\ hi \in Nat /\ lo \in Nat
  BY <1>3, <1>4 DEF hi, lo
<1>6. get_cursor_location' = get_cursor_location
  BY <1>1 DEF get_cursor_location
<1>7. Locals' /\ Position'
  BY <1>1 DEF IInv, Locals, Position, ShowHigh, ShowLow
<1>8. CASE Select("select_high", "high", "high") \/ Select("select_low", "low", "low")
  <2>1. TypeOK'
    BY <1>1, <1>8 DEF IInv, TypeOK
  <2>2. Showing'
    BY <1>1, <1>6, <1>8 DEF IInv, Showing, Busy, display_cursor
  <2> QED BY <1>7, <2>1, <2>2
<1>9. CASE Output("high", "high", "select_low")
  <2>1. shown' = [shown EXCEPT ![index] = hi]
    BY <1>5, <1>9
  <2>2. shown' \in [high : Nat, low : Nat] /\ (index = "high" => shown'.high = hi)
    BY <1>2, <1>5, <2>1
  <2>3. TypeOK'
    BY <1>1, <1>9, <2>2 DEF IInv, TypeOK
  <2>4. Showing'
    BY <1>1, <1>4, <1>5, <1>6, <1>9, <2>2 DEF IInv, Showing, Busy, display_cursor
  <2> QED BY <1>7, <2>3, <2>4
<1>10. CASE Output("low", "low", "idle")
  <2>1. shown' = [shown EXCEPT ![index] = lo]
    BY <1>5, <1>10
  <2>2. shown' \in [high : Nat, low : Nat]
    BY <1>2, <1>5, <2>1
  <2>3. TypeOK'
    BY <1>1, <1>10, <2>2 DEF IInv, TypeOK
  <2>4. raced # "now" => shown' = display_cursor(get_cursor_location)
    <3> SUFFICES ASSUME raced # "now" PROVE shown' = display_cursor(get_cursor_location)
      OBVIOUS
    <3>1. index = "low" /\ reg = get_cursor_location /\ shown.high = hi
      BY <1>5, <1>10 DEF IInv, Showing
    <3>2. shown' = [high |-> hi, low |-> lo]
      BY <1>2, <2>1, <3>1
    <3> QED BY <1>4, <3>1, <3>2
  <2>5. Showing'
    BY <1>1, <1>6, <1>10, <2>4 DEF Showing, display_cursor
  <2> QED BY <1>7, <2>3, <2>5
<1> QED BY <1>8, <1>9, <1>10 DEF ShowHigh, ShowLow

\* The shell calls print_char or clear_screen, or goes for a key.
LEMMA CallSteps ==
  ASSUME IInv, (\E c \in Text : PrintCall(c)) \/ ClearCall \/ GetKey
  PROVE  TypeOK' /\ Locals' /\ Position' /\ Showing'
<1>1. /\ UNCHANGED <<framebuffer, cursor_x, cursor_y, index, shown, scancode, reg, key, taken, pressed>>
      /\ pc = "idle" /\ char' \in Text \cup {char} /\ then' \in {"wrap", then}
      /\ pc' \in {"feed", "return", "tab", "load_y", "clear", "poll"}
      /\ prints' = prints \/ (prints < MaxPrints /\ prints' = prints + 1)
      /\ raced' \in {raced, "never", "earlier"} /\ (pc' = "poll" => raced' = raced)
  BY DEF PrintCall, ClearCall, GetKey, Call, Goto, screen, vga, history
<1>2. TypeOK'
  BY <1>1 DEF IInv, TypeOK
<1>3. Locals'
  BY <1>1, Sizes DEF IInv, Locals, Chars
<1>4. Position'
  BY <1>1 DEF IInv, Position
<1>5. Showing'
  <2>1. get_cursor_location' = get_cursor_location
    BY <1>1 DEF get_cursor_location
  <2> QED BY <1>1, <2>1 DEF IInv, Showing, Busy, display_cursor
<1> QED BY <1>2, <1>3, <1>4, <1>5

\* The two steps of get_key.
LEMMA KeySteps ==
  ASSUME IInv, keyboard_get_last_key \/ keyboard_discard_last_key
  PROVE  TypeOK' /\ Locals' /\ Position' /\ Showing'
<1>1. /\ UNCHANGED <<framebuffer, cursor_x, cursor_y, index, shown, reg, char, then, prints, paper, raced, pressed>>
      /\ key' \in {key, scancode} /\ scancode' \in {scancode, 0}
      /\ pc \in {"poll", "discard"} /\ pc' \in {"discard", "idle"}
  BY DEF keyboard_get_last_key, keyboard_discard_last_key, Goto, screen, vga, history
<1>2. TypeOK'
  BY <1>1, Sizes DEF IInv, TypeOK
<1>3. Locals' /\ Position'
  BY <1>1 DEF IInv, Locals, Position
<1>4. Showing'
  <2>1. get_cursor_location' = get_cursor_location
    BY <1>1 DEF get_cursor_location
  <2> QED BY <1>1, <2>1 DEF IInv, Showing, Busy, display_cursor
<1> QED BY <1>2, <1>3, <1>4

\* The handler, wherever it comes, leaves the cursor on the screen and the
\* board knowing of it.
LEMMA HandlerStep ==
  ASSUME IInv, NEW k \in Keys, keyboard_irq1_handler(k)
  PROVE  TypeOK' /\ Locals' /\ Position' /\ Showing'
<1> DEFINE after == print_char(Now, k)
<1>1. /\ UNCHANGED <<pc, reg, char, then, key, prints, taken>>
      /\ Len(pressed) + 1 <= MaxKeys /\ scancode' = Len(pressed) + 1
      /\ framebuffer' = after.fb /\ cursor_x' = after.x /\ cursor_y' = after.y
      /\ shown' = display_cursor(Location(after)) /\ index' = "low"
      /\ pressed' = Append(pressed, k)
      /\ raced' = IF Busy THEN "now" ELSE raced
  BY DEF keyboard_irq1_handler, local, Now
<1>2. after \in Displays /\ after.x < MAX_ROW /\ after.y < MAX_COL
  BY NowType, PrintType DEF IInv, Chars
<1> HIDE DEF after
<1>3. /\ after.fb \in [Cells -> Chars] /\ after.x \in Nat /\ after.y \in Nat
      /\ after.x \in 0 .. (MAX_ROW + Tab) /\ after.y \in 0 .. MAX_COL
  BY <1>2, Sizes DEF Displays
<1>4. get_cursor_location' = Location(after) /\ Location(after) \in Nat
  <2>1. get_cursor_location' = Location(after)
    BY <1>1 DEF get_cursor_location, Location
  <2>2. after.y * MAX_ROW \in Nat
    BY <1>3, Sizes, ProductNat
  <2> QED BY <1>3, <2>1, <2>2 DEF Location
<1>5. display_cursor(Location(after)) \in [high : Nat, low : Nat]
  <2> DEFINE a == Location(after)
  <2>1. a \div Byte \in Nat /\ a % Byte \in Nat
    <3>1. a \in Nat /\ Byte \in Nat \ {0}
      BY <1>4, Sizes
    <3> HIDE DEF a
    <3>2. a \div Byte \in Nat /\ a % Byte \in 0 .. (Byte - 1)
      BY <3>1, DivMod
    <3> QED BY <3>1, <3>2
  <2> HIDE DEF a
  <2>2. [high |-> a \div Byte, low |-> a % Byte] \in [high : Nat, low : Nat]
    BY <2>1
  <2> QED BY <2>2 DEF a, display_cursor
<1>6. pressed \in Seq(Keys) /\ Len(pressed) \in Nat
  BY DEF IInv, TypeOK
<1>7. pressed' \in Seq(Keys) /\ Len(pressed') = Len(pressed) + 1
  BY <1>1, <1>6
<1>8. TypeOK'
  BY <1>1, <1>3, <1>5, <1>6, <1>7, Sizes DEF IInv, TypeOK, Chars
<1>9. Locals'
  BY <1>1, <1>6, <1>7, Sizes DEF IInv, Locals
<1>10. Position'
  BY <1>1, <1>2, <1>3, Sizes DEF IInv, Position
<1>11. Showing'
  <2>1. display_cursor(get_cursor_location)' = display_cursor(Location(after))
    BY <1>4 DEF display_cursor
  <2> QED BY <1>1, <2>1 DEF Showing, Busy
<1> QED BY <1>8, <1>9, <1>10, <1>11

\* Keys come out of get_key in the order they went in, whatever the shell and
\* the handler do.
LEMMA KeyboardStep ==
  ASSUME IInv, [Next]_vars
  PROVE  Keyboard' /\ (taken' # taken => taken'.last > taken.last)
<1>0. /\ taken \in [count : Nat, last : Nat] /\ taken.count \in Nat /\ taken.last \in Nat
      /\ scancode \in Nat /\ key \in Nat /\ Len(pressed) \in Nat
  BY Sizes DEF IInv, TypeOK, Keyboard
<1>1. CASE \/ print_steps \/ clear_steps
           \/ (\E c \in Text : PrintCall(c)) \/ ClearCall \/ GetKey \/ UNCHANGED vars
  <2>1. UNCHANGED <<scancode, key, taken, pressed>> /\ (pc = "discard" <=> pc' = "discard")
    <3>1. CASE print_steps \/ clear_steps
      BY <3>1, InsideLeaves DEF IInv
    <3>2. CASE (\E c \in Text : PrintCall(c)) \/ ClearCall \/ GetKey
      BY <3>2 DEF PrintCall, ClearCall, GetKey, Call, Goto, history
    <3>3. CASE UNCHANGED vars
      BY <3>3 DEF vars, local, history
    <3> QED BY <1>1, <3>1, <3>2, <3>3
  <2> QED BY <2>1 DEF IInv, Keyboard
<1>2. CASE keyboard_get_last_key
  <2>1. scancode # 0 /\ pc = "poll" /\ pc' = "discard" /\ key' = scancode /\ UNCHANGED <<scancode, taken, pressed>>
    BY <1>2 DEF keyboard_get_last_key, Goto, history
  <2> QED BY <1>0, <2>1 DEF IInv, Keyboard
<1>3. CASE keyboard_discard_last_key
  <2>1. /\ pc = "discard" /\ pc' = "idle" /\ scancode' = 0 /\ UNCHANGED <<key, pressed>>
        /\ taken' = [count |-> taken.count + 1, last |-> key]
    BY <1>3 DEF keyboard_discard_last_key, Goto
  <2>2. taken' \in [count : Nat, last : Nat] /\ taken'.last = key
    BY <1>0, <2>1
  <2> QED BY <1>0, <2>1, <2>2 DEF IInv, Keyboard
<1>4. CASE \E k \in Keys : keyboard_irq1_handler(k)
  <2>1. PICK k \in Keys : keyboard_irq1_handler(k)
    BY <1>4
  <2>2. UNCHANGED <<pc, key, taken>> /\ scancode' = Len(pressed) + 1 /\ pressed' = Append(pressed, k)
    BY <2>1 DEF keyboard_irq1_handler, local
  <2>3. Len(pressed') = Len(pressed) + 1
    BY <2>2 DEF IInv, TypeOK
  <2> QED BY <1>0, <2>2, <2>3 DEF IInv, Keyboard
<1> QED BY <1>1, <1>2, <1>3, <1>4 DEF Next, Shell

---------------------------------------------------------------------------
(* Where a character of the screen is in memory.                           *)

\* A smaller factor makes a product smaller by a line at least.
LEMMA LineBelow ==
  ASSUME NEW l \in Nat, NEW m \in Nat, l < m
  PROVE  l * MAX_ROW + MAX_ROW <= m * MAX_ROW /\ l * MAX_ROW \in Nat /\ m * MAX_ROW \in Nat
<1>0. MAX_ROW \in Nat \ {0}
  BY Sizes
<1>1. PICK n \in Nat : m = l + 1 + n
  <2>1. m - l - 1 \in Nat /\ m = l + 1 + (m - l - 1)
    OBVIOUS
  <2> QED BY <2>1
<1>2. m * MAX_ROW = l * MAX_ROW + MAX_ROW + n * MAX_ROW
  BY <1>0, <1>1, SMT
<1>3. n * MAX_ROW \in Nat /\ l * MAX_ROW \in Nat
  BY <1>0, ProductNat
<1> QED BY <1>0, <1>2, <1>3

\* No two places of the screen share a cell.
LEMMA CellsApart ==
  ASSUME NEW l \in Nat, NEW m \in Nat, NEW k \in Columns, NEW j \in Columns,
         l * MAX_ROW + k = m * MAX_ROW + j
  PROVE  l = m /\ k = j
<1>0. MAX_ROW \in Nat \ {0} /\ k \in Nat /\ j \in Nat /\ k < MAX_ROW /\ j < MAX_ROW
  BY Sizes DEF Columns
<1>1. l * MAX_ROW \in Nat /\ m * MAX_ROW \in Nat
  BY <1>0, ProductNat
<1>2. ~(l < m)
  <2> SUFFICES ASSUME l < m PROVE FALSE
    OBVIOUS
  <2>1. l * MAX_ROW + MAX_ROW <= m * MAX_ROW
    BY LineBelow
  <2> QED BY <1>0, <1>1, <2>1
<1>3. ~(m < l)
  <2> SUFFICES ASSUME m < l PROVE FALSE
    OBVIOUS
  <2>1. m * MAX_ROW + MAX_ROW <= l * MAX_ROW
    BY LineBelow
  <2> QED BY <1>0, <1>1, <2>1
<1>4. l = m
  BY <1>2, <1>3
<1> QED BY <1>0, <1>1, <1>4

\* Where a place of the screen lies among the cells, and which are scrolled.
LEMMA CellIndex ==
  ASSUME NEW l \in Rows, NEW k \in Columns
  PROVE  /\ l * MAX_ROW + k \in Cells /\ l * MAX_ROW + k < MAX_ROW * MAX_COL
         /\ l * MAX_ROW + k \in Nat
         /\ l + 1 < MAX_COL => /\ l * MAX_ROW + k < MAX_ROW * (MAX_COL - 1)
                               /\ (l * MAX_ROW + k) + MAX_ROW = (l + 1) * MAX_ROW + k
         /\ l + 1 = MAX_COL => ~(l * MAX_ROW + k < MAX_ROW * (MAX_COL - 1))
<1>0. /\ MAX_ROW \in Nat \ {0} /\ MAX_COL \in Nat \ {0} /\ k \in Nat /\ k < MAX_ROW
      /\ l \in Nat /\ l < MAX_COL /\ MAX_COL - 1 \in Nat
  BY Sizes DEF Columns, Rows
<1>1. l * MAX_ROW \in Nat /\ MAX_ROW * MAX_COL = MAX_COL * MAX_ROW /\ MAX_COL * MAX_ROW \in Nat
  BY <1>0, ProductNat, SMT
<1>2. l * MAX_ROW + MAX_ROW <= MAX_COL * MAX_ROW
  BY <1>0, LineBelow
<1>3. MAX_ROW * (MAX_COL + 1) = MAX_COL * MAX_ROW + MAX_ROW
  BY <1>0, SMT
<1>4. l * MAX_ROW + k < MAX_ROW * MAX_COL /\ l * MAX_ROW + k \in Nat
  BY <1>0, <1>1, <1>2
<1>5. l * MAX_ROW + k \in Cells
  BY <1>0, <1>1, <1>2, <1>3, <1>4 DEF Cells
<1>6. MAX_ROW * (MAX_COL - 1) = (MAX_COL - 1) * MAX_ROW /\ (MAX_COL - 1) * MAX_ROW \in Nat
  BY <1>0, ProductNat, SMT
<1>7. ASSUME l + 1 < MAX_COL
      PROVE  l * MAX_ROW + k < MAX_ROW * (MAX_COL - 1) /\ (l * MAX_ROW + k) + MAX_ROW = (l + 1) * MAX_ROW + k
  <2>1. l < MAX_COL - 1
    BY <1>0, <1>7
  <2>2. l * MAX_ROW + MAX_ROW <= (MAX_COL - 1) * MAX_ROW
    BY <1>0, <2>1, LineBelow
  <2>3. (l + 1) * MAX_ROW = l * MAX_ROW + MAX_ROW
    BY <1>0, SMT
  <2> QED BY <1>0, <1>1, <1>6, <2>2, <2>3
<1>8. ASSUME l + 1 = MAX_COL PROVE ~(l * MAX_ROW + k < MAX_ROW * (MAX_COL - 1))
  <2>1. l = MAX_COL - 1
    BY <1>0, <1>8
  <2> QED BY <1>0, <1>1, <1>6, <2>1
<1> QED BY <1>4, <1>5, <1>7, <1>8

---------------------------------------------------------------------------
(* The printer's moves and the screen's.                                   *)

\* A display is its three fields.
LEMMA AtIs ==
  ASSUME NEW fb \in [Cells -> Chars], NEW x \in Nat, NEW y \in Nat
  PROVE  At(fb, x, y) \in Displays /\ At(fb, x, y).fb = fb /\ At(fb, x, y).x = x /\ At(fb, x, y).y = y
<1> HIDE DEF Cells, Chars
<1> QED BY DEF At, Displays

\* Displays with the same fields are the same.
LEMMA SameDisplay ==
  ASSUME NEW d \in Displays
  PROVE  d = At(d.fb, d.x, d.y)
<1> HIDE DEF Cells, Chars
<1> QED BY DEF At, Displays

\* What the printer's carriage does on a paper with room for one more line.
LEMMA PaperMoves ==
  ASSUME NEW p \in Papers, NEW n \in Nat
  PROVE  /\ Feed(p) \in Papers /\ Feed(p).cell = p.cell /\ Feed(p).line = p.line + 1 /\ Feed(p).column = 0
         /\ Feed(p).top = IF (p.line + 1) - MAX_COL + 1 > p.top THEN (p.line + 1) - MAX_COL + 1 ELSE p.top
         /\ [p EXCEPT !.column = n] \in Papers
         /\ [p EXCEPT !.column = n].cell = p.cell /\ [p EXCEPT !.column = n].line = p.line
         /\ [p EXCEPT !.column = n].column = n /\ [p EXCEPT !.column = n].top = p.top
         /\ [p EXCEPT !.line = n] \in Papers
         /\ [p EXCEPT !.line = n].cell = p.cell /\ [p EXCEPT !.line = n].line = n
         /\ [p EXCEPT !.line = n].column = p.column /\ [p EXCEPT !.line = n].top = p.top
<1> HIDE DEF Lines, Columns, Chars
<1>1. [p EXCEPT !.column = n] \in Papers
         /\ [p EXCEPT !.column = n].cell = p.cell /\ [p EXCEPT !.column = n].line = p.line
         /\ [p EXCEPT !.column = n].column = n /\ [p EXCEPT !.column = n].top = p.top
  BY DEF Papers
<1>2. [p EXCEPT !.line = n] \in Papers
         /\ [p EXCEPT !.line = n].cell = p.cell /\ [p EXCEPT !.line = n].line = n
         /\ [p EXCEPT !.line = n].column = p.column /\ [p EXCEPT !.line = n].top = p.top
  BY DEF Papers
<1> DEFINE line == p.line + 1
           top == IF line - MAX_COL + 1 > p.top THEN line - MAX_COL + 1 ELSE p.top
           one == [p EXCEPT !.line = line]
           two == [one EXCEPT !.column = 0]
           new == [two EXCEPT !.top = top]
<1>3. line \in Nat /\ top \in Nat
  BY Sizes DEF Papers
<1>4. Feed(p) = [p EXCEPT !.line = line, !.column = 0, !.top = top]
  BY DEF Feed
<1>5. [p EXCEPT !.line = line, !.column = 0, !.top = top] = new
  OBVIOUS
<1> HIDE DEF line, top
<1>6. one \in Papers /\ one.cell = p.cell /\ one.line = line /\ one.top = p.top
  BY <1>3 DEF Papers
<1> HIDE DEF one
<1>7. two \in Papers /\ two.cell = p.cell /\ two.line = line /\ two.column = 0 /\ two.top = p.top
  BY <1>6 DEF Papers
<1> HIDE DEF two
<1>8. new \in Papers /\ new.cell = p.cell /\ new.line = line /\ new.column = 0 /\ new.top = top
  BY <1>3, <1>7 DEF Papers
<1> HIDE DEF new
<1>9. Feed(p) \in Papers /\ Feed(p).cell = p.cell /\ Feed(p).line = line /\ Feed(p).column = 0 /\ Feed(p).top = top
  BY <1>4, <1>5, <1>8
<1> QED BY <1>1, <1>2, <1>9 DEF line, top

\* A line feed of the printer, and the cursor one line down on the screen,
\* which scrolls if that is past its end.
LEMMA FeedShows ==
  ASSUME NEW d, NEW p, Matches(d, p), p.line <= MaxPrints + MaxKeys,
         NEW e \in Displays, e.fb = d.fb, e.x = 0, e.y = d.y + 1
  PROVE  Matches(scroll_screen(e), Feed(p))
<1>0. /\ MAX_ROW \in Nat \ {0} /\ MAX_COL \in Nat \ {0} /\ MaxPrints + MaxKeys \in Nat
      /\ d \in Displays /\ d.y \in Nat /\ d.fb \in [Cells -> Chars]
      /\ p \in Papers /\ p.line \in Nat /\ p.top \in Nat /\ p.line = p.top + d.y /\ d.y < MAX_COL
  BY Sizes DEF Matches, Displays, Papers
<1>1. /\ \A l \in Rows, k \in Columns : d.fb[l * MAX_ROW + k] = p.cell[<<p.top + l, k>>]
      /\ \A l \in Lines, k \in Columns : l >= p.top + MAX_COL => p.cell[<<l, k>>] = Blank
  BY DEF Matches
<1>2. /\ Feed(p) \in Papers /\ Feed(p).cell = p.cell /\ Feed(p).line = p.line + 1 /\ Feed(p).column = 0
      /\ Feed(p).top = IF (p.line + 1) - MAX_COL + 1 > p.top THEN (p.line + 1) - MAX_COL + 1 ELSE p.top
  BY <1>0, PaperMoves
<1> DEFINE s == scroll_screen(e)
           q == Feed(p)
<1>3. s \in Displays /\ s.x = 0
  BY ScrollIs
<1>4. CASE d.y + 1 < MAX_COL
  <2>1. s.fb = d.fb /\ s.y = d.y + 1
    BY <1>4, ScrollIs
  <2>2. q.top = p.top /\ q.line = q.top + s.y
    BY <1>0, <1>2, <1>4, <2>1
  <2> HIDE DEF s, q
  <2> QED BY <1>0, <1>1, <1>2, <1>3, <1>4, <2>1, <2>2 DEF Matches, s, q
<1>5. CASE d.y + 1 = MAX_COL
  <2>1. s.fb = Scrolled(d.fb) /\ s.y = MAX_COL - 1
    BY <1>0, <1>5, ScrollIs
  <2>2. q.top = p.top + 1 /\ q.line = q.top + s.y /\ s.y < MAX_COL
    BY <1>0, <1>2, <1>5, <2>1
  <2>3. ASSUME NEW l \in Rows, NEW k \in Columns PROVE Scrolled(d.fb)[l * MAX_ROW + k] = p.cell[<<(p.top + 1) + l, k>>]
    <3> DEFINE i == l * MAX_ROW + k
    <3>1. i \in Cells /\ i < MAX_ROW * MAX_COL
      BY CellIndex
    <3>2. Scrolled(d.fb)[i] = IF i < MAX_ROW * (MAX_COL - 1) THEN d.fb[i + MAX_ROW]
                              ELSE IF i < MAX_ROW * MAX_COL THEN Blank ELSE d.fb[i]
      BY <3>1 DEF Scrolled
    <3>3. l \in Nat /\ l < MAX_COL
      BY <1>0 DEF Rows
    <3>4. CASE l + 1 < MAX_COL
      <4>1. i < MAX_ROW * (MAX_COL - 1) /\ i + MAX_ROW = (l + 1) * MAX_ROW + k
        BY <3>4, CellIndex
      <4>2. l + 1 \in Rows /\ p.top + (l + 1) = (p.top + 1) + l
        BY <1>0, <3>3, <3>4 DEF Rows
      <4>3. d.fb[(l + 1) * MAX_ROW + k] = p.cell[<<p.top + (l + 1), k>>]
        BY <1>1, <4>2
      <4> HIDE DEF i
      <4>4. Scrolled(d.fb)[i] = d.fb[(l + 1) * MAX_ROW + k]
        BY <3>2, <4>1
      <4>5. Scrolled(d.fb)[i] = p.cell[<<(p.top + 1) + l, k>>]
        BY <4>2, <4>3, <4>4
      <4> QED BY <4>5 DEF i
    <3>5. CASE l + 1 = MAX_COL
      <4>1. ~(i < MAX_ROW * (MAX_COL - 1))
        BY <3>5, CellIndex
      <4>2. (p.top + 1) + l = p.top + MAX_COL /\ (p.top + 1) + l \in Lines
        BY <1>0, <3>3, <3>5, Sizes DEF Lines
      <4>3. p.cell[<<(p.top + 1) + l, k>>] = Blank
        <5>1. (p.top + 1) + l >= p.top + MAX_COL
          BY <1>0, <3>3, <4>2
        <5> QED BY <1>1, <4>2, <5>1
      <4> HIDE DEF i
      <4>4. Scrolled(d.fb)[i] = Blank
        BY <3>1, <3>2, <4>1
      <4> QED BY <4>3, <4>4 DEF i
    <3> QED BY <1>0, <3>3, <3>4, <3>5
  <2>4. ASSUME NEW l \in Lines, NEW k \in Columns, l >= (p.top + 1) + MAX_COL PROVE p.cell[<<l, k>>] = Blank
    <3>1. l >= p.top + MAX_COL
      BY <1>0, <2>4, Sizes DEF Lines
    <3> QED BY <1>1, <3>1
  <2>5. /\ \A l \in Rows, k \in Columns : s.fb[l * MAX_ROW + k] = q.cell[<<q.top + l, k>>]
        /\ \A l \in Lines, k \in Columns : l >= q.top + MAX_COL => q.cell[<<l, k>>] = Blank
    <3> HIDE DEF s, q
    <3>1. s.fb = Scrolled(d.fb) /\ q.top = p.top + 1 /\ q.cell = p.cell
      BY <1>2, <2>1, <2>2 DEF q
    <3> QED BY <2>3, <2>4, <3>1
  <2> HIDE DEF s, q
  <2> QED BY <1>0, <1>2, <1>3, <2>2, <2>5 DEF Matches, s, q
<1> QED BY <1>0, <1>4, <1>5

\* Moving to a column, or to the next line when there is none such.
LEMMA MoveShows ==
  ASSUME NEW d, NEW p, Matches(d, p), p.line <= MaxPrints + MaxKeys, NEW n \in Nat,
         NEW e \in Displays, e.fb = d.fb, e.x = n, e.y = d.y
  PROVE  Matches(scroll_screen(Wrap(e)), MoveTo(p, n)) /\ MoveTo(p, n).line <= p.line + 1
<1>0. /\ MAX_ROW \in Nat \ {0} /\ MAX_COL \in Nat /\ d \in Displays /\ d.y \in Nat
      /\ p \in Papers /\ p.line \in Nat /\ d.y < MAX_COL
  BY Sizes DEF Matches, Displays, Papers
<1>1. CASE n < MAX_ROW
  <2> DEFINE w == Wrap(e)
             q == [p EXCEPT !.column = n]
  <2>1. w \in Displays /\ w.fb = d.fb /\ w.x = n /\ w.y = d.y
    BY <1>1, WrapIs
  <2>2. scroll_screen(w) = w
    BY <1>0, <2>1, ScrollIs
  <2>3. MoveTo(p, n) = q
    BY <1>1 DEF MoveTo
  <2>4. q \in Papers /\ q.cell = p.cell /\ q.line = p.line /\ q.column = n /\ q.top = p.top
    BY <1>0, PaperMoves
  <2> HIDE DEF w, q
  <2>5. Matches(w, q)
    BY <1>0, <1>1, <2>1, <2>4 DEF Matches
  <2> QED BY <1>0, <2>2, <2>3, <2>4, <2>5 DEF w
<1>2. CASE n >= MAX_ROW
  <2>1. Wrap(e) \in Displays /\ Wrap(e).fb = d.fb /\ Wrap(e).x = 0 /\ Wrap(e).y = d.y + 1
    BY <1>2, WrapIs
  <2>2. MoveTo(p, n) = Feed(p)
    BY <1>0, <1>2 DEF MoveTo
  <2>3. Matches(scroll_screen(Wrap(e)), Feed(p))
    BY <2>1, FeedShows
  <2>4. Feed(p).line = p.line + 1
    BY <1>0, PaperMoves
  <2> QED BY <1>0, <2>2, <2>3, <2>4
<1> QED BY <1>0, <1>1, <1>2

\* e is d with c drawn at column k of line l, where the cursor is left.
Drawn(d, e, l, k, c) == /\ e \in Displays /\ e.fb = [d.fb EXCEPT ![l * MAX_ROW + k] = c]
                        /\ e.x = k /\ e.y = l
\* q is p with the head at that place.
Headed(p, q, l, k) == /\ q \in Papers /\ q.cell = p.cell /\ q.top = p.top
                      /\ q.line = p.top + l /\ q.column = k

\* A character struck on the paper and drawn on the screen, at the same place.
LEMMA StrikeShows ==
  ASSUME NEW d, NEW p, NEW e, NEW q, NEW c \in Chars, NEW l \in Rows, NEW k \in Columns,
         Matches(d, p), p.line <= MaxPrints + MaxKeys, Drawn(d, e, l, k, c), Headed(p, q, l, k)
  PROVE  /\ Matches(e, Strike(q, c)) /\ Strike(q, c).line = q.line /\ Strike(q, c).column = q.column
<1> USE DEF Drawn, Headed
<1>0. /\ MAX_ROW \in Nat \ {0} /\ MAX_COL \in Nat /\ d \in Displays /\ d.fb \in [Cells -> Chars]
      /\ p \in Papers /\ p.top \in Nat /\ p.cell \in [Lines \X Columns -> Chars]
      /\ p.line \in Nat /\ p.top <= p.line
  <2>1. d.y \in Nat /\ p.line = p.top + d.y
    BY DEF Matches, Displays
  <2> QED BY <2>1, Sizes DEF Matches, Displays, Papers
<1> DEFINE cell == [p.cell EXCEPT ![<<p.top + l, k>>] = c]
<1>1. Strike(q, c) = [q EXCEPT !.cell = cell]
  BY DEF Strike
<1>2. cell \in [Lines \X Columns -> Chars]
  BY <1>0
<1> DEFINE new == [q EXCEPT !.cell = cell]
<1>3. \A m \in Rows, j \in Columns : e.fb[m * MAX_ROW + j] = cell[<<p.top + m, j>>]
  <2> SUFFICES ASSUME NEW m \in Rows, NEW j \in Columns
               PROVE  [d.fb EXCEPT ![l * MAX_ROW + k] = c][m * MAX_ROW + j] = cell[<<p.top + m, j>>]
    OBVIOUS
  <2>1. m \in Nat /\ l \in Nat /\ m <= MAX_COL - 1 /\ j \in Columns
    BY <1>0, Sizes DEF Rows
  <2>2. p.top + m \in Lines
    BY <1>0, <2>1, Sizes DEF Lines
  <2>3. m * MAX_ROW + j \in Cells
    BY CellIndex
  <2>4. d.fb[m * MAX_ROW + j] = p.cell[<<p.top + m, j>>]
    BY DEF Matches
  <2>5. CASE m = l /\ j = k
    <3>1. <<p.top + l, k>> \in Lines \X Columns
      BY <2>2, <2>5
    <3> QED BY <1>0, <2>3, <2>5, <3>1
  <2>6. CASE ~(m = l /\ j = k)
    <3>1. m * MAX_ROW + j # l * MAX_ROW + k
      BY <2>1, <2>6, CellsApart
    <3>2. <<p.top + m, j>> # <<p.top + l, k>>
      BY <1>0, <2>1, <2>6
    <3>3. <<p.top + m, j>> \in Lines \X Columns
      BY <2>2
    <3> QED BY <1>0, <2>3, <2>4, <3>1, <3>2, <3>3
  <2> QED BY <2>5, <2>6
<1>4. \A m \in Lines, j \in Columns : m >= p.top + MAX_COL => cell[<<m, j>>] = Blank
  <2> SUFFICES ASSUME NEW m \in Lines, NEW j \in Columns, m >= p.top + MAX_COL
               PROVE  cell[<<m, j>>] = Blank
    OBVIOUS
  <2>1. l \in Nat /\ l < MAX_COL /\ m \in Nat
    BY <1>0, Sizes DEF Rows, Lines
  <2>2. <<m, j>> # <<p.top + l, k>>
    BY <1>0, <2>1
  <2>3. p.cell[<<m, j>>] = Blank
    BY DEF Matches
  <2> QED BY <1>0, <2>2, <2>3
<1> HIDE DEF cell
<1>5. new \in Papers /\ new.cell = cell /\ new.top = p.top /\ new.line = p.top + l /\ new.column = k
  <2> HIDE DEF Lines, Columns, Chars
  <2> QED BY <1>2 DEF Papers
<1> HIDE DEF new
<1>6. k < MAX_ROW /\ l < MAX_COL /\ l \in Nat
  BY <1>0 DEF Columns, Rows
<1>7. Matches(e, new)
  BY <1>0, <1>3, <1>4, <1>5, <1>6 DEF Matches
<1> QED BY <1>1, <1>5, <1>7 DEF new

\* Multiples of the tab distance are that far apart at least.
LEMMA StopsApart ==
  ASSUME NEW a \in Nat, NEW b \in Nat, a < b
  PROVE  Tab * a + Tab <= Tab * b /\ Tab * a \in Nat /\ Tab * b \in Nat
<1>0. Tab \in Nat \ {0}
  BY Sizes
<1>1. PICK n \in Nat : b = a + 1 + n
  <2>1. b - a - 1 \in Nat /\ b = a + 1 + (b - a - 1)
    OBVIOUS
  <2> QED BY <2>1
<1>2. Tab * b = Tab * a + Tab + Tab * n
  BY <1>0, <1>1, SMT
<1>3. Tab * n \in Nat /\ Tab * a \in Nat
  BY <1>0, ProductNat
<1> QED BY <1>0, <1>2, <1>3

\* print_char's tab stop is the first multiple of Tab to the right.
LEMMA TabChoice ==
  ASSUME NEW x \in Nat
  PROVE  (CHOOSE n \in (x + 1) .. (x + Tab) : n % Tab = 0) = ((x \div Tab) + 1) * Tab
<1> DEFINE q == x \div Tab
           stop == (q + 1) * Tab
<1>0. Tab \in Nat \ {0}
  BY Sizes
<1>1. q \in Nat /\ x % Tab \in Nat /\ x = Tab * q + (x % Tab)
  BY <1>0, DivMod
<1>2. stop \in Nat /\ x < stop /\ stop <= x + Tab
  BY TabStop
<1> HIDE DEF q
<1>3. stop = Tab * (q + 1) /\ q + 1 \in Nat
  BY <1>0, <1>1, SMT
<1> HIDE DEF stop
<1>4. ASSUME NEW n \in (x + 1) .. (x + Tab), n % Tab = 0 PROVE n = stop
  <2> DEFINE m == n \div Tab
  <2>1. n \in Nat /\ x < n /\ n <= x + Tab
    BY <1>0, <1>1, <1>4
  <2>2. m \in Nat /\ n = Tab * m + (n % Tab)
    BY <1>0, <2>1, DivMod
  <2>3. n = Tab * m
    <3>1. Tab * m \in Nat
      BY <1>0, <2>2, ProductNat
    <3> HIDE DEF m
    <3> QED BY <1>4, <2>2, <3>1
  <2> HIDE DEF m
  <2>4. ~(m < q + 1)
    <3> SUFFICES ASSUME m < q + 1 PROVE FALSE
      OBVIOUS
    <3>1. Tab * m + Tab <= stop
      BY <1>3, <2>2, StopsApart
    <3> QED BY <1>0, <1>2, <2>1, <2>3, <3>1
  <2>5. ~(q + 1 < m)
    <3> SUFFICES ASSUME q + 1 < m PROVE FALSE
      OBVIOUS
    <3>1. stop + Tab <= Tab * m
      BY <1>3, <2>2, StopsApart
    <3> QED BY <1>0, <1>2, <2>1, <2>3, <3>1
  <2>6. m = q + 1
    BY <1>3, <2>2, <2>4, <2>5
  <2> QED BY <1>3, <2>3, <2>6
<1>5. stop % Tab = 0
  <2> DEFINE m == stop \div Tab
             r == stop % Tab
  <2>1. m \in Nat /\ r \in Nat /\ r < Tab /\ stop = Tab * m + r
    BY <1>0, <1>2, DivMod
  <2> HIDE DEF m, r
  <2>2. Tab * m \in Nat
    BY <1>0, <2>1, ProductNat
  <2>3. ~(m < q + 1)
    <3> SUFFICES ASSUME m < q + 1 PROVE FALSE
      OBVIOUS
    <3>1. Tab * m + Tab <= stop
      BY <1>3, <2>1, StopsApart
    <3> QED BY <1>0, <1>2, <2>1, <2>2, <3>1
  <2>4. ~(q + 1 < m)
    <3> SUFFICES ASSUME q + 1 < m PROVE FALSE
      OBVIOUS
    <3>1. stop + Tab <= Tab * m
      BY <1>3, <2>1, StopsApart
    <3> QED BY <1>0, <1>2, <2>1, <2>2, <3>1
  <2>5. m = q + 1
    BY <1>3, <2>1, <2>3, <2>4
  <2>6. r = 0
    BY <1>3, <2>1, <2>2, <2>5
  <2> QED BY <2>6 DEF r
<1>6. stop \in (x + 1) .. (x + Tab)
  BY <1>0, <1>2
<1> DEFINE chosen == CHOOSE n \in (x + 1) .. (x + Tab) : n % Tab = 0
<1>7. chosen \in (x + 1) .. (x + Tab) /\ chosen % Tab = 0
  BY <1>5, <1>6
<1> HIDE DEF chosen
<1>8. chosen = stop
  BY <1>4, <1>7
<1> QED BY <1>8 DEF chosen, stop, q

\* The whole of print_char against the whole of the printer: on matching screen
\* and paper every character leads to matching screen and paper.
LEMMA PrintsAsTyped ==
  ASSUME NEW d, NEW p, Matches(d, p), p.line <= MaxPrints + MaxKeys, NEW c \in Chars
  PROVE  Matches(print_char(d, c), Type(p, c)) /\ Type(p, c).line <= p.line + 1
<1> DEFINE e == Advance(d, c)
<1>0. /\ MAX_ROW \in Nat \ {0} /\ MAX_COL \in Nat /\ MAX_ROW - 1 \in Nat /\ Blank \in Chars
      /\ d \in Displays /\ d.x \in Nat /\ d.y \in Nat /\ d.x < MAX_ROW /\ d.y < MAX_COL
      /\ p \in Papers /\ p.line \in Nat /\ p.top \in Nat /\ p.column \in Nat
      /\ d.x = p.column /\ p.line = p.top + d.y
  BY Sizes DEF Matches, Displays, Papers, Chars
<1>1. e \in Displays /\ print_char(d, c) = scroll_screen(Wrap(e))
  BY <1>0, AdvanceIs DEF print_char
<1>2. CASE c = "nl"
  <2>1. e.fb = d.fb /\ e.x = 0 /\ e.y = d.y + 1
    BY <1>0, <1>2, AdvanceIs
  <2> HIDE DEF e
  <2>2. Wrap(e) \in Displays /\ Wrap(e).fb = d.fb /\ Wrap(e).x = 0 /\ Wrap(e).y = d.y + 1
    BY <1>0, <1>1, <2>1, WrapIs
  <2>3. Matches(scroll_screen(Wrap(e)), Feed(p)) /\ Feed(p).line = p.line + 1
    BY <1>0, <2>2, FeedShows, PaperMoves
  <2>4. Type(p, c) = Feed(p)
    BY <1>2 DEF Type
  <2> QED BY <1>0, <1>1, <2>3, <2>4
<1>3. CASE c = "cr"
  <2>1. e.fb = d.fb /\ e.x = 0 /\ e.y = d.y
    BY <1>0, <1>3, AdvanceIs
  <2> HIDE DEF e
  <2>2. Type(p, c) = MoveTo(p, 0)
    BY <1>0, <1>3 DEF Type, MoveTo
  <2> QED BY <1>0, <1>1, <2>1, <2>2, MoveShows
<1>4. CASE c = "tab"
  <2> DEFINE stop == ((d.x \div Tab) + 1) * Tab
  <2>1. e.fb = d.fb /\ e.x = stop /\ e.y = d.y
    BY <1>0, <1>4, AdvanceIs
  <2>2. stop \in Nat
    BY <1>0, TabStop
  <2>3. stop = CHOOSE n \in (p.column + 1) .. (p.column + Tab) : n % Tab = 0
    BY <1>0, TabChoice
  <2> HIDE DEF e, stop
  <2>4. Type(p, c) = MoveTo(p, stop)
    BY <1>4, <2>3 DEF Type
  <2> QED BY <1>0, <1>1, <2>1, <2>2, <2>4, MoveShows
<1>5. CASE c = "unknown" \/ (c = "bs" /\ d.x = 0 /\ d.y = 0)
  <2>1. e = d
    BY <1>0, <1>5, AdvanceIs
  <2> HIDE DEF e
  <2>2. Wrap(e) \in Displays /\ Wrap(e).fb = d.fb /\ Wrap(e).x = d.x /\ Wrap(e).y = d.y
    BY <1>0, <1>1, <2>1, WrapIs
  <2>3. scroll_screen(Wrap(e)) = Wrap(e)
    BY <1>0, <2>2, ScrollIs
  <2>4. Type(p, c) = p
    BY <1>0, <1>5 DEF Type
  <2>5. Matches(Wrap(e), p)
    BY <2>2 DEF Matches
  <2> QED BY <1>0, <1>1, <2>3, <2>4, <2>5
<1>7. CASE c = "bs" /\ d.x > 0
  <2> DEFINE k == d.x - 1
             q == [p EXCEPT !.column = k]
  <2>1. k \in Nat /\ k \in Columns /\ d.y \in Rows
    BY <1>0, <1>7 DEF Columns, Rows
  <2>2. e.x = k /\ e.y = d.y /\ e.fb = [d.fb EXCEPT ![d.y * MAX_ROW + k] = Blank]
    BY <1>0, <1>7, AdvanceIs
  <2>3. q \in Papers /\ q.cell = p.cell /\ q.top = p.top /\ q.line = p.line /\ q.column = k
    BY <1>0, <2>1, PaperMoves
  <2>4. Type(p, c) = Strike(q, Blank)
    BY <1>0, <1>7 DEF Type
  <2> HIDE DEF e, k, q
  <2>5. Matches(e, Strike(q, Blank)) /\ Strike(q, Blank).line = p.line
    <3>1. Drawn(d, e, d.y, k, Blank) /\ Headed(p, q, d.y, k)
      BY <1>0, <1>1, <2>2, <2>3 DEF Drawn, Headed
    <3>2. Matches(e, Strike(q, Blank)) /\ Strike(q, Blank).line = q.line
      BY <1>0, <2>1, <3>1, StrikeShows
    <3> QED BY <2>3, <3>2
  <2>6. k < MAX_ROW
    BY <1>0, <2>1 DEF Columns
  <2>7. Wrap(e) \in Displays /\ Wrap(e).fb = e.fb /\ Wrap(e).x = e.x /\ Wrap(e).y = e.y
    BY <1>1, <2>2, <2>6, WrapIs
  <2>8. scroll_screen(Wrap(e)) = Wrap(e)
    BY <1>0, <2>2, <2>7, ScrollIs
  <2>9. Matches(Wrap(e), Strike(q, Blank))
    BY <2>5, <2>7 DEF Matches
  <2> QED BY <1>0, <1>1, <2>4, <2>5, <2>8, <2>9
<1>8. CASE c = "bs" /\ d.x = 0 /\ d.y > 0
  <2> DEFINE l == d.y - 1
             k == MAX_ROW - 1
             up == [p EXCEPT !.line = p.line - 1]
             q == [up EXCEPT !.column = k]
  <2>1. l \in Nat /\ l \in Rows /\ k \in Nat /\ k \in Columns /\ p.line - 1 \in Nat /\ p.line - 1 = p.top + l /\ p.line > p.top
    BY <1>0, <1>8 DEF Columns, Rows
  <2>2. e.x = k /\ e.y = l /\ e.fb = [d.fb EXCEPT ![l * MAX_ROW + k] = Blank]
    BY <1>0, <1>8, AdvanceIs
  <2>3. Type(p, c) = Strike([p EXCEPT !.line = p.line - 1, !.column = MAX_ROW - 1], Blank)
    BY <1>0, <1>8, <2>1 DEF Type
  <2>4. [p EXCEPT !.line = p.line - 1, !.column = MAX_ROW - 1] = q
    OBVIOUS
  <2>5. up \in Papers /\ up.cell = p.cell /\ up.top = p.top /\ up.line = p.line - 1
    BY <1>0, <2>1, PaperMoves
  <2> HIDE DEF up
  <2>6. q \in Papers /\ q.cell = p.cell /\ q.top = p.top /\ q.line = p.line - 1 /\ q.column = k
    BY <2>1, <2>5, PaperMoves
  <2> HIDE DEF e, k, q, l
  <2>7. Matches(e, Strike(q, Blank)) /\ Strike(q, Blank).line = p.line - 1
    <3>1. Drawn(d, e, l, k, Blank) /\ Headed(p, q, l, k)
      BY <1>0, <1>1, <2>1, <2>2, <2>6 DEF Drawn, Headed
    <3>2. Matches(e, Strike(q, Blank)) /\ Strike(q, Blank).line = q.line
      BY <1>0, <2>1, <3>1, StrikeShows
    <3> QED BY <2>6, <3>2
  <2>8. k < MAX_ROW /\ l < MAX_COL
    BY <1>0, <2>1 DEF Columns, Rows
  <2>9. Wrap(e) \in Displays /\ Wrap(e).fb = e.fb /\ Wrap(e).x = e.x /\ Wrap(e).y = e.y
    BY <1>1, <2>2, <2>8, WrapIs
  <2>10. scroll_screen(Wrap(e)) = Wrap(e)
    BY <1>0, <2>2, <2>8, <2>9, ScrollIs
  <2>11. Matches(Wrap(e), Strike(q, Blank))
    BY <2>7, <2>9 DEF Matches
  <2> QED BY <1>0, <1>1, <2>3, <2>4, <2>7, <2>10, <2>11
<1>9. CASE c \notin Controls
  <2> DEFINE drawn == Draw(d, c)
             struck == Strike(p, c)
  <2>1. drawn \in Displays /\ drawn.x = d.x /\ drawn.y = d.y /\ drawn.fb = [d.fb EXCEPT ![d.y * MAX_ROW + d.x] = c]
    BY <1>0, DrawType DEF Location
  <2>2. d.x \in Columns /\ d.y \in Rows
    BY <1>0 DEF Columns, Rows
  <2>3. Matches(drawn, struck) /\ struck.line = p.line /\ struck.column = p.column
    <3>1. Drawn(d, drawn, d.y, d.x, c) /\ Headed(p, p, d.y, d.x)
      BY <1>0, <2>1 DEF Drawn, Headed
    <3> HIDE DEF drawn, e
    <3>2. PICK l \in Rows, k \in Columns : l = d.y /\ k = d.x
      BY <2>2
    <3>3. Matches(drawn, Strike(p, c)) /\ Strike(p, c).line = p.line /\ Strike(p, c).column = p.column
      BY <3>1, <3>2, StrikeShows
    <3> QED BY <3>3
  <2>4. e.x = d.x + 1 /\ e.y = d.y /\ e.fb = drawn.fb
    BY <1>0, <1>9, <2>1, AdvanceIs
  <2>5. Type(p, c) = MoveTo(struck, p.column + 1)
    BY <1>9 DEF Type, Controls
  <2> HIDE DEF e, drawn, struck
  <2>6. p.column + 1 \in Nat /\ e.x = p.column + 1 /\ e.y = drawn.y /\ struck.line <= MaxPrints + MaxKeys
    BY <1>0, <2>1, <2>3, <2>4
  <2>7. Matches(scroll_screen(Wrap(e)), MoveTo(struck, p.column + 1)) /\ MoveTo(struck, p.column + 1).line <= struck.line + 1
    BY <1>1, <2>3, <2>4, <2>6, MoveShows
  <2> QED BY <1>1, <2>3, <2>5, <2>7
<1> QED BY <1>0, <1>2, <1>3, <1>4, <1>5, <1>7, <1>8, <1>9 DEF Controls

---------------------------------------------------------------------------
(* The rest of a call leads to what the whole of it would have led to.     *)

\* A cleared screen shows a blank paper.
LEMMA BlankMatches ==
  ASSUME NEW fb \in [Cells -> Chars], \A l \in Rows, k \in Columns : fb[l * MAX_ROW + k] = Blank
  PROVE  Matches(At(fb, 0, 0), BlankPaper) /\ BlankPaper.line = 0
<1> DEFINE cell == [q \in Lines \X Columns |-> Blank]
<1>1. BlankPaper = [cell |-> cell, line |-> 0, column |-> 0, top |-> 0]
  BY DEF BlankPaper, Columns
<1>2. cell \in [Lines \X Columns -> Chars] /\ \A q \in Lines \X Columns : cell[q] = Blank
  BY DEF Chars
<1> HIDE DEF cell
<1>3. /\ BlankPaper \in Papers /\ BlankPaper.cell = cell
      /\ BlankPaper.line = 0 /\ BlankPaper.column = 0 /\ BlankPaper.top = 0
  <2> HIDE DEF Lines, Columns, Chars
  <2> QED BY <1>1, <1>2 DEF Papers
<1> DEFINE d == At(fb, 0, 0)
           p == BlankPaper
<1>4. d \in Displays /\ d.fb = fb /\ d.x = 0 /\ d.y = 0
  BY AtIs
<1>5. \A l \in Rows : 0 + l = l /\ l \in Lines
  BY Sizes DEF Rows, Lines
<1>6. \A l \in Rows, k \in Columns : fb[l * MAX_ROW + k] = cell[<<0 + l, k>>]
  BY <1>2, <1>5
<1>7. \A l \in Lines, k \in Columns : cell[<<l, k>>] = Blank
  BY <1>2
<1>8. 0 < MAX_ROW /\ 0 < MAX_COL /\ 0 = 0 + 0
  BY Sizes
<1> HIDE DEF d, p
<1>9. p \in Papers /\ p.cell = cell /\ p.line = 0 /\ p.column = 0 /\ p.top = 0
  BY <1>3 DEF p
<1>10. Matches(d, p)
  BY <1>4, <1>6, <1>7, <1>8, <1>9 DEF Matches
<1> QED BY <1>9, <1>10 DEF d, p

\* What is left to do once the cursor has moved.
LEMMA Remains ==
  ASSUME NEW fb \in [Cells -> Chars], NEW x \in Nat, NEW y \in Nat
  PROVE  /\ x < MAX_ROW => Wrap(At(fb, x, y)) = At(fb, x, y)
         /\ x >= MAX_ROW => Wrap(At(fb, x, y)) = At(fb, 0, y + 1)
         /\ y < MAX_COL => scroll_screen(At(fb, x, y)) = At(fb, x, y)
         /\ ~(y < MAX_COL) => scroll_screen(At(fb, x, y)) = At(Scrolled(fb), x, MAX_COL - 1)
<1> DEFINE d == At(fb, x, y)
<1>1. d \in Displays /\ d.fb = fb /\ d.x = x /\ d.y = y
  BY AtIs
<1> HIDE DEF d
<1>2. ASSUME x < MAX_ROW PROVE Wrap(d) = d
  <2>1. ~(x >= MAX_ROW)
    BY <1>2, Sizes
  <2> QED BY <1>1, <2>1 DEF Wrap
<1>3. ASSUME x >= MAX_ROW PROVE Wrap(d) = At(fb, 0, y + 1)
  <2>1. Wrap(d) \in Displays /\ Wrap(d).fb = fb /\ Wrap(d).x = 0 /\ Wrap(d).y = y + 1
    BY <1>1, <1>3, WrapIs
  <2> QED BY <2>1, SameDisplay
<1>4. ASSUME y < MAX_COL PROVE scroll_screen(d) = d
  BY <1>1, <1>4, ScrollIs
<1>5. ASSUME ~(y < MAX_COL) PROVE scroll_screen(d) = At(Scrolled(fb), x, MAX_COL - 1)
  <2>1. /\ scroll_screen(d) \in Displays /\ scroll_screen(d).fb = Scrolled(fb)
        /\ scroll_screen(d).x = x /\ scroll_screen(d).y = MAX_COL - 1
    BY <1>1, <1>5, ScrollIs
  <2> QED BY <2>1, SameDisplay
<1> QED BY <1>2, <1>3, <1>4, <1>5 DEF d

\* The steps of print_char.
LEMMA PrintSteps ==
  ASSUME IInv, print_steps \/ clear_steps
  PROVE  Printing'
<1> SUFFICES ASSUME raced' = "never" PROVE Printing'
  BY DEF Printing
<1>1. UNCHANGED <<char, pressed, prints, paper, raced>> /\ raced = "never"
  BY InsideLeaves DEF IInv
<1>2. paper.line <= prints + Len(pressed)
  BY <1>1 DEF IInv, Printing
<1>3. /\ framebuffer \in [Cells -> Chars] /\ cursor_x \in Nat /\ cursor_y \in Nat /\ reg \in Nat
      /\ cursor_y + 1 \in Nat /\ 0 \in Nat
  BY Sizes DEF IInv, TypeOK, Chars
<1> USE DEF Goto
<1>4. CASE PrintLoadY \/ PrintLoadX \/ PrintLoad \/ PrintTabLoad \/ FeedLoad \/ ShowLoadY \/ ShowLoadX
  <2>1. UNCHANGED <<framebuffer, cursor_x, cursor_y>>
    BY <1>4 DEF PrintLoadY, PrintLoadX, PrintLoad, PrintTabLoad, FeedLoad, ShowLoadY, ShowLoadX, Load, screen
  <2>2. Now' = Now /\ get_cursor_location' = get_cursor_location
    BY <2>1 DEF Now, get_cursor_location
  <2>3. CASE PrintLoadY
    BY <1>1, <1>2, <2>1, <2>2, <2>3 DEF IInv, Printing, PrintLoadY, Load
  <2>4. CASE PrintLoadX
    <3>1. pc = "load_x" /\ pc' = "draw" /\ reg' = get_cursor_location
      BY <1>1, <2>4 DEF IInv, Printing, PrintLoadX, Load, get_cursor_location
    <3> QED BY <1>1, <1>2, <2>1, <2>2, <3>1 DEF IInv, Printing
  <2>5. CASE PrintLoad \/ FeedLoad
    BY <1>1, <1>2, <2>1, <2>2, <2>5 DEF IInv, Printing, PrintLoad, FeedLoad, Load
  <2>6. CASE PrintTabLoad
    BY <1>1, <1>2, <2>1, <2>2, <2>6 DEF IInv, Printing, PrintTabLoad, Load
  <2>7. CASE ShowLoadY \/ ShowLoadX
    BY <1>1, <1>2, <2>1, <2>2, <2>7 DEF IInv, Printing, ShowLoadY, ShowLoadX, Load
  <2> QED BY <1>4, <2>3, <2>4, <2>5, <2>6, <2>7
<1>5. CASE ShowHigh \/ ShowLow
  <2>1. UNCHANGED <<framebuffer, cursor_x, cursor_y>>
    BY <1>5 DEF ShowHigh, ShowLow, Select, Output, screen
  <2>2. Now' = Now
    BY <2>1 DEF Now
  <2> QED BY <1>1, <1>2, <1>5, <2>2 DEF IInv, Printing, ShowHigh, ShowLow, Select, Output
<1>6. CASE PrintDraw
  <2>1. /\ pc = "draw" /\ pc' = "load" /\ UNCHANGED <<cursor_x, cursor_y>>
        /\ framebuffer' = [framebuffer EXCEPT ![get_cursor_location] = char]
    BY <1>1, <1>6 DEF IInv, Printing, PrintDraw, StoreScreen
  <2> QED BY <1>1, <1>2, <2>1 DEF IInv, Printing
<1>7. CASE PrintAdvance \/ PrintReturn \/ PrintTabStore
  <2>1. UNCHANGED <<framebuffer, cursor_y>> /\ pc' = "wrap" /\ pc \in {"advance", "return", "tab_store"}
    BY <1>7 DEF PrintAdvance, PrintReturn, PrintTabStore, StoreX
  <2>2. Now' = At(framebuffer, cursor_x', cursor_y)
    BY <2>1 DEF Now, At
  <2>3. /\ pc = "advance" => cursor_x' = cursor_x + 1
        /\ pc = "return" => cursor_x' = 0
        /\ pc = "tab_store" => cursor_x' = ((cursor_x \div Tab) + 1) * Tab
    BY <1>1, <1>7 DEF IInv, Printing, PrintAdvance, PrintReturn, PrintTabStore, StoreX
  <2>4. Matches(scroll_screen(Wrap(Now')), paper)
    BY <1>1, <2>1, <2>2, <2>3 DEF IInv, Printing
  <2> QED BY <1>1, <1>2, <2>1, <2>4 DEF Printing
<1>8. CASE FeedReturn
  <2>1. UNCHANGED <<framebuffer, cursor_y>> /\ pc = "feed" /\ pc' = "feed_load" /\ cursor_x' = 0
    BY <1>8 DEF FeedReturn, StoreX
  <2> QED BY <1>1, <1>2, <2>1 DEF IInv, Printing
<1>9. CASE FeedStore
  <2>1. /\ UNCHANGED <<framebuffer, cursor_x>> /\ pc = "feed_store" /\ pc' \in {"wrap", "scroll"}
        /\ cursor_x = 0 /\ cursor_y' = cursor_y + 1
    BY <1>1, <1>9 DEF IInv, Printing, Locals, FeedStore, StoreY
  <2>2. Now' = At(framebuffer, 0, cursor_y + 1)
    BY <2>1 DEF Now, At
  <2>3. Matches(scroll_screen(Now'), paper)
    BY <1>1, <2>1, <2>2 DEF IInv, Printing
  <2>4. Wrap(Now') = Now'
    <3>1. 0 < MAX_ROW
      BY Sizes
    <3> QED BY <1>3, <2>2, <3>1, Remains
  <2> QED BY <1>1, <1>2, <2>1, <2>3, <2>4 DEF Printing
<1>10. CASE PrintWrap
  <2>1. /\ UNCHANGED <<framebuffer, cursor_x, cursor_y>> /\ pc = "wrap"
        /\ pc' = IF cursor_x >= MAX_ROW THEN "feed" ELSE "scroll"
    BY <1>10 DEF PrintWrap, screen
  <2>2. Now = At(framebuffer, cursor_x, cursor_y) /\ Now' = Now
    BY <2>1 DEF Now, At
  <2>3. Matches(scroll_screen(Wrap(Now)), paper)
    BY <1>1, <2>1 DEF IInv, Printing
  <2>4. CASE cursor_x >= MAX_ROW
    <3>1. Wrap(Now) = At(framebuffer, 0, cursor_y + 1)
      BY <1>3, <2>2, <2>4, Remains
    <3> QED BY <1>1, <1>2, <2>1, <2>3, <2>4, <3>1 DEF Printing
  <2>5. CASE ~(cursor_x >= MAX_ROW)
    <3>1. Wrap(Now) = Now
      BY <1>3, <2>2, <2>5, Remains, Sizes
    <3> QED BY <1>1, <1>2, <2>1, <2>2, <2>3, <2>5, <3>1 DEF Printing
  <2> QED BY <2>4, <2>5
<1>11. CASE ScrollTest
  <2>1. /\ UNCHANGED <<framebuffer, cursor_x, cursor_y>> /\ pc = "scroll"
        /\ pc' = IF cursor_y < MAX_COL THEN "show" ELSE "copy"
    BY <1>11 DEF ScrollTest, screen
  <2>2. Now = At(framebuffer, cursor_x, cursor_y) /\ Now' = Now
    BY <2>1 DEF Now, At
  <2>3. Matches(scroll_screen(Now), paper)
    BY <1>1, <2>1 DEF IInv, Printing
  <2>4. CASE cursor_y < MAX_COL
    <3>1. scroll_screen(Now) = Now
      BY <1>3, <2>2, <2>4, Remains
    <3> QED BY <1>1, <1>2, <2>1, <2>2, <2>3, <2>4, <3>1 DEF Printing
  <2>5. CASE ~(cursor_y < MAX_COL)
    <3>1. scroll_screen(Now) = At(Scrolled(framebuffer), cursor_x, MAX_COL - 1)
      BY <1>3, <2>2, <2>5, Remains
    <3> QED BY <1>1, <1>2, <2>1, <2>3, <2>5, <3>1 DEF Printing
  <2> QED BY <2>4, <2>5
<1>12. CASE ScrollCopy
  <2>1. pc = "copy" /\ pc' = "clamp" /\ UNCHANGED <<cursor_x, cursor_y>> /\ framebuffer' = Scrolled(framebuffer)
    BY <1>12 DEF ScrollCopy, StoreScreen
  <2> QED BY <1>1, <1>2, <2>1 DEF IInv, Printing
<1>13. CASE ScrollClamp
  <2>1. pc = "clamp" /\ pc' = "show" /\ UNCHANGED <<framebuffer, cursor_x>> /\ cursor_y' = MAX_COL - 1
    BY <1>13 DEF ScrollClamp, StoreY
  <2>2. Now' = At(framebuffer, cursor_x, MAX_COL - 1)
    BY <2>1 DEF Now, At
  <2>3. Matches(Now', paper)
    BY <1>1, <2>1, <2>2 DEF IInv, Printing
  <2> QED BY <1>1, <1>2, <2>1, <2>3 DEF Printing
<1>14. CASE ClearFill
  <2>1. /\ pc = "clear" /\ pc' = "clear_x"
        /\ framebuffer' = [i \in Cells |-> IF i < MAX_ROW * MAX_COL THEN Blank ELSE framebuffer[i]]
    BY <1>14 DEF ClearFill, StoreScreen
  <2>2. \A l \in Rows, k \in Columns : framebuffer'[l * MAX_ROW + k] = Blank
    <3> SUFFICES ASSUME NEW l \in Rows, NEW k \in Columns PROVE framebuffer'[l * MAX_ROW + k] = Blank
      OBVIOUS
    <3> DEFINE i == l * MAX_ROW + k
    <3>1. i \in Cells /\ i < MAX_ROW * MAX_COL
      BY CellIndex
    <3> HIDE DEF i
    <3>2. framebuffer'[i] = Blank
      BY <2>1, <3>1
    <3> QED BY <3>2 DEF i
  <2> QED BY <1>1, <1>2, <2>1, <2>2 DEF IInv, Printing
<1>15. CASE ClearX
  <2>1. pc = "clear_x" /\ pc' = "clear_y" /\ cursor_x' = 0 /\ UNCHANGED framebuffer
    BY <1>15 DEF ClearX, StoreX
  <2> QED BY <1>1, <1>2, <2>1 DEF IInv, Printing
<1>16. CASE ClearY
  <2>1. pc = "clear_y" /\ pc' = "show" /\ cursor_y' = 0 /\ UNCHANGED <<framebuffer, cursor_x>>
    BY <1>16 DEF ClearY, StoreY
  <2>2. /\ cursor_x = 0 /\ paper = BlankPaper
        /\ \A l \in Rows, k \in Columns : framebuffer[l * MAX_ROW + k] = Blank
    BY <1>1, <2>1 DEF IInv, Printing
  <2>3. Now' = At(framebuffer, 0, 0)
    BY <2>1, <2>2 DEF Now, At
  <2>4. Matches(Now', paper)
    BY <1>3, <2>2, <2>3, BlankMatches
  <2> QED BY <1>1, <1>2, <2>1, <2>4 DEF Printing
<1> QED BY <1>4, <1>5, <1>6, <1>7, <1>8, <1>9, <1>10, <1>11, <1>12, <1>13, <1>14, <1>15, <1>16
        DEF print_steps, clear_steps

\* While nothing has raced there is room on the paper for another line.
LEMMA RoomOnPaper ==
  ASSUME IInv, raced = "never"
  PROVE  /\ paper.line <= prints + Len(pressed)
         /\ ~Busy => Matches(Now, paper) /\ paper.line \in Nat /\ paper.line <= MaxPrints + MaxKeys
<1>1. prints \in Nat /\ prints <= MaxPrints /\ Len(pressed) \in Nat /\ Len(pressed) <= MaxKeys
  BY Sizes DEF IInv, Locals
<1>2. paper.line <= prints + Len(pressed)
  BY DEF IInv, Printing
<1>3. ~Busy => Matches(Now, paper)
  BY DEF IInv, Printing, Busy
<1>4. ~Busy => paper.line \in Nat
  BY <1>3 DEF Matches, Papers
<1>5. ~Busy => paper.line <= MaxPrints + MaxKeys
  BY <1>1, <1>2, <1>4, Sizes
<1> QED BY <1>2, <1>3, <1>4, <1>5

\* A call of print_char begins, with all of its work before it.
LEMMA PrintBegins ==
  ASSUME IInv, NEW c \in Text, PrintCall(c)
  PROVE  Printing'
<1> SUFFICES ASSUME raced' = "never" PROVE Printing'
  BY DEF Printing
<1>1. /\ UNCHANGED <<framebuffer, cursor_x, cursor_y, pressed>> /\ raced = "never" /\ pc = "idle"
      /\ pc' = CASE c = "nl" -> "feed" [] c = "cr" -> "return" [] c = "tab" -> "tab" [] OTHER -> "load_y"
      /\ char' = c /\ paper' = Type(paper, c) /\ prints' = prints + 1
  BY DEF PrintCall, Call, Goto, screen
<1>2. /\ framebuffer \in [Cells -> Chars] /\ cursor_x \in Nat /\ cursor_y \in Nat
      /\ cursor_y + 1 \in Nat /\ 0 \in Nat /\ c \in Chars /\ c # "bs" /\ c # "unknown"
      /\ prints \in Nat /\ Len(pressed) \in Nat
  BY Sizes, ConsoleAssumption DEF IInv, TypeOK, Locals, Chars
<1>3. /\ Matches(Now, paper) /\ paper.line <= prints + Len(pressed)
      /\ paper.line <= MaxPrints + MaxKeys /\ paper.line \in Nat
  BY <1>1, RoomOnPaper DEF Busy
<1>4. Matches(print_char(Now, c), paper') /\ paper'.line <= paper.line + 1
  BY <1>1, <1>2, <1>3, PrintsAsTyped
<1>5. paper'.line <= prints' + Len(pressed')
  <2>1. paper' \in Papers
    BY <1>4 DEF Matches
  <2>2. paper'.line \in Nat
    BY <2>1 DEF Papers
  <2> QED BY <1>1, <1>2, <1>3, <1>4, <2>2
<1>6. Now \in Displays /\ Now.fb = framebuffer /\ Now.x = cursor_x /\ Now.y = cursor_y
  BY NowType DEF IInv
<1> DEFINE e == Advance(Now, c)
<1>7. e \in Displays /\ Matches(scroll_screen(Wrap(e)), paper')
  BY <1>2, <1>4, <1>6, AdvanceIs DEF print_char
<1>8. e = At(e.fb, e.x, e.y)
  BY <1>7, SameDisplay
<1>9. CASE c = "nl"
  <2>1. e.fb = framebuffer /\ e.x = 0 /\ e.y = cursor_y + 1
    BY <1>2, <1>6, <1>9, AdvanceIs
  <2> HIDE DEF e
  <2>2. Wrap(e) = e /\ e = At(framebuffer, 0, cursor_y + 1)
    <3>1. 0 < MAX_ROW
      BY Sizes
    <3> QED BY <1>2, <1>8, <2>1, <3>1, Remains
  <2>3. pc' = "feed"
    BY <1>1, <1>9
  <2> QED BY <1>1, <1>5, <1>7, <2>2, <2>3 DEF Printing
<1>10. CASE c = "cr"
  <2>1. e.fb = framebuffer /\ e.x = 0 /\ e.y = cursor_y
    BY <1>2, <1>6, <1>10, AdvanceIs
  <2> HIDE DEF e
  <2>2. pc' = "return"
    BY <1>1, <1>10
  <2> QED BY <1>1, <1>5, <1>7, <1>8, <2>1, <2>2 DEF Printing
<1>11. CASE c = "tab"
  <2>1. e.fb = framebuffer /\ e.x = ((cursor_x \div Tab) + 1) * Tab /\ e.y = cursor_y
    BY <1>2, <1>6, <1>11, AdvanceIs
  <2> HIDE DEF e
  <2>2. pc' = "tab"
    BY <1>1, <1>11
  <2> QED BY <1>1, <1>5, <1>7, <1>8, <2>1, <2>2 DEF Printing
<1>12. CASE c \notin Controls
  <2>1. /\ e.fb = [framebuffer EXCEPT ![get_cursor_location] = c]
        /\ e.x = cursor_x + 1 /\ e.y = cursor_y
    BY <1>2, <1>6, <1>12, AdvanceIs DEF get_cursor_location
  <2> HIDE DEF e
  <2>2. pc' = "load_y" /\ get_cursor_location' = get_cursor_location
    BY <1>1, <1>12 DEF Controls, get_cursor_location
  <2> QED BY <1>1, <1>5, <1>7, <1>8, <2>1, <2>2 DEF Printing
<1> QED BY <1>2, <1>9, <1>10, <1>11, <1>12 DEF Controls

\* The handler, run between two calls, prints its key as the printer does; run
\* inside a call it is a race.
LEMMA HandlerPrints ==
  ASSUME IInv, NEW k \in Keys, keyboard_irq1_handler(k)
  PROVE  Printing'
<1> SUFFICES ASSUME raced' = "never" PROVE Printing'
  BY DEF Printing
<1> DEFINE after == print_char(Now, k)
<1>1. /\ UNCHANGED <<pc, prints>> /\ ~Busy /\ raced = "never"
      /\ framebuffer' = after.fb /\ cursor_x' = after.x /\ cursor_y' = after.y
      /\ pressed' = Append(pressed, k) /\ paper' = Type(paper, k)
  BY DEF keyboard_irq1_handler, local, Now
<1>2. /\ Matches(Now, paper) /\ paper.line <= prints + Len(pressed)
      /\ paper.line <= MaxPrints + MaxKeys /\ paper.line \in Nat
  BY <1>1, RoomOnPaper
<1>3. Matches(after, paper') /\ paper'.line <= paper.line + 1
  BY <1>1, <1>2, PrintsAsTyped DEF Chars
<1> HIDE DEF after
<1>4. after \in Displays /\ paper' \in Papers
  BY <1>3 DEF Matches
<1>5. Now' = after
  <2>1. after = At(after.fb, after.x, after.y)
    BY <1>4, SameDisplay
  <2> QED BY <1>1, <2>1 DEF Now, At
<1>6. paper'.line <= prints' + Len(pressed')
  <2>1. Len(pressed') = Len(pressed) + 1 /\ Len(pressed) \in Nat /\ prints \in Nat
    BY <1>1, Sizes DEF IInv, TypeOK, Locals
  <2>2. paper'.line \in Nat
    BY <1>4 DEF Papers
  <2> QED BY <1>1, <1>2, <1>3, <2>1, <2>2
<1> QED BY <1>1, <1>3, <1>5, <1>6 DEF Printing, Busy

\* The steps outside the calls.
LEMMA OtherPrinting ==
  ASSUME IInv, ClearCall \/ GetKey \/ keyboard_get_last_key \/ keyboard_discard_last_key \/ UNCHANGED vars
  PROVE  Printing'
<1>1. UNCHANGED <<framebuffer, cursor_x, cursor_y, pressed>>
  BY DEF ClearCall, Call, GetKey, keyboard_get_last_key, keyboard_discard_last_key, vars, screen, history
<1>2. Now' = Now /\ get_cursor_location' = get_cursor_location
  BY <1>1 DEF Now, get_cursor_location
<1>3. CASE ClearCall
  <2>1. pc' = "clear" /\ paper' = BlankPaper /\ prints' = prints + 1
    BY <1>3 DEF ClearCall, Call, Goto
  <2>2. prints \in Nat /\ Len(pressed) \in Nat
    BY Sizes DEF IInv, Locals
  <2>3. BlankPaper.line = 0
    BY DEF BlankPaper
  <2>4. paper'.line <= prints' + Len(pressed')
    BY <1>1, <2>1, <2>2, <2>3
  <2> QED BY <2>1, <2>4 DEF Printing
<1>4. CASE GetKey \/ keyboard_get_last_key \/ keyboard_discard_last_key
  <2>1. UNCHANGED <<prints, paper, raced>> /\ pc \in {"idle", "poll", "discard"} /\ pc' \in {"idle", "poll", "discard"}
    BY <1>4 DEF GetKey, keyboard_get_last_key, keyboard_discard_last_key, Goto, history
  <2> QED BY <1>1, <1>2, <2>1 DEF IInv, Printing
<1>5. CASE UNCHANGED vars
  <2>1. UNCHANGED <<prints, paper, raced, pc, reg, char>>
    BY <1>5 DEF vars, local, history
  <2> QED BY <1>1, <1>2, <2>1 DEF IInv, Printing
<1> QED BY <1>3, <1>4, <1>5

---------------------------------------------------------------------------
(* The invariant holds.                                                    *)

\* It holds of a blank screen.
LEMMA InitHolds == Init => IInv
<1> SUFFICES ASSUME Init PROVE IInv
  OBVIOUS
<1> USE DEF Init
<1>1. TypeOK
  <2>1. framebuffer \in [Cells -> Text \cup Keys \cup {Blank}]
    OBVIOUS
  <2>2. shown \in [high : Nat, low : Nat]
    OBVIOUS
  <2> QED BY <2>1, <2>2, Sizes DEF TypeOK
<1>2. Locals
  BY Sizes DEF Locals, Chars
<1>3. Position
  BY Sizes DEF Position
<1>4. Showing
  <2>1. get_cursor_location = 0
    BY Sizes DEF get_cursor_location
  <2>2. 0 \div Byte = 0 /\ 0 % Byte = 0
    BY Sizes, SMT
  <2> QED BY <2>1, <2>2 DEF Showing, display_cursor
<1>5. Keyboard
  BY DEF Keyboard
<1>6. Printing
  <2>1. \A l \in Rows, k \in Columns : framebuffer[l * MAX_ROW + k] = Blank
    BY CellIndex
  <2>2. framebuffer \in [Cells -> Chars]
    BY DEF Chars
  <2>3. Now = At(framebuffer, 0, 0)
    BY DEF Now, At
  <2>4. Matches(Now, paper) /\ paper.line = 0
    BY <2>1, <2>2, <2>3, BlankMatches
  <2>5. paper.line <= prints + Len(pressed)
    BY <2>4
  <2> QED BY <2>4, <2>5 DEF Printing
<1> QED BY <1>1, <1>2, <1>3, <1>4, <1>5, <1>6 DEF IInv

\* Every step of the shell and of the handler keeps it.
LEMMA StepHolds == IInv /\ [Next]_vars => IInv'
<1> SUFFICES ASSUME IInv, [Next]_vars PROVE IInv'
  OBVIOUS
<1>1. Keyboard'
  BY KeyboardStep
<1>2. CASE \E c \in Text : PrintCall(c)
  BY <1>1, <1>2, CallSteps, PrintBegins DEF IInv
<1>3. CASE ClearCall \/ GetKey
  BY <1>1, <1>3, CallSteps, OtherPrinting DEF IInv
<1>4. CASE print_steps \/ clear_steps
  <2>1. TypeOK' /\ Locals' /\ Position' /\ Showing'
    BY <1>4, LoadSteps, CursorSteps, DrawSteps, BoardSteps DEF print_steps, clear_steps
  <2> QED BY <1>1, <1>4, <2>1, PrintSteps DEF IInv
<1>5. CASE keyboard_get_last_key \/ keyboard_discard_last_key
  BY <1>1, <1>5, KeySteps, OtherPrinting DEF IInv
<1>6. CASE \E k \in Keys : keyboard_irq1_handler(k)
  BY <1>1, <1>6, HandlerStep, HandlerPrints DEF IInv
<1>7. CASE UNCHANGED vars
  <2>1. Printing'
    BY <1>7, OtherPrinting
  <2>2. TypeOK' /\ Locals' /\ Position' /\ Showing'
    BY <1>7 DEF vars, screen, vga, local, history, IInv, TypeOK, Locals, Position, Showing, Busy,
                get_cursor_location, display_cursor
  <2> QED BY <1>1, <2>1, <2>2 DEF IInv
<1> QED BY <1>2, <1>3, <1>4, <1>5, <1>6, <1>7 DEF Next, Shell

\* The inductive invariant of the screen and the keyboard.
LEMMA Invariant == Spec => []IInv
<1> QED BY InitHolds, StepHolds, PTL DEF Spec

\* The variables of display.c and keyboard.c keep their types, the cursor among
\* them, wherever the handler interrupts print_char.
THEOREM TypeCorrect == Spec => []TypeOK
<1>1. IInv => TypeOK
  BY DEF IInv
<1> QED BY <1>1, Invariant, PTL

\* When a call of print_char or clear_screen has returned the cursor is on the
\* screen, however the handler's print_char moved it in the middle of the call.
THEOREM CursorReturns == Spec => []CursorOnScreen
<1>1. IInv => CursorOnScreen
  BY DEF IInv, Position, CursorOnScreen, Busy
<1> QED BY <1>1, Invariant, PTL

\* A call of print_char or clear_screen that the handler left alone ends with
\* the VGA board's cursor at cursor_x, cursor_y, whatever raced before.
THEOREM BoardKnowsCursor == Spec => []CursorShown
<1>1. IInv => CursorShown
  BY DEF IInv, Showing, CursorShown
<1> QED BY <1>1, Invariant, PTL

\* For every screen size, tab distance and text: as long as no key came inside a
\* call, print_char, scroll_screen and clear_screen show what a printer prints.
THEOREM ScreenShowsPaper == Spec => []ScreenIsPaper
<1>1. IInv => ScreenIsPaper
  <2> SUFFICES ASSUME IInv, ~Busy, raced = "never"
               PROVE  /\ cursor_x = paper.column /\ cursor_y = paper.line - paper.top
                      /\ \A l \in Rows, k \in Columns :
                           framebuffer[l * MAX_ROW + k] = paper.cell[<<paper.top + l, k>>]
    BY DEF ScreenIsPaper, Rows, Columns
  <2>1. Matches(Now, paper)
    BY RoomOnPaper
  <2>2. Now.fb = framebuffer /\ Now.x = cursor_x /\ Now.y = cursor_y /\ cursor_y \in Nat
    BY NowType DEF IInv
  <2>3. paper.top \in Nat
    BY <2>1 DEF Matches, Papers
  <2> QED BY <2>1, <2>2, <2>3 DEF Matches
<1> QED BY <1>1, Invariant, PTL

\* get_key returns no key press twice and none before an earlier one, with the
\* handler between its reading of the scan code and its discarding it.
THEOREM KeysReturnedInOrder == Spec => KeysInOrder
<1>1. IInv /\ [Next]_vars => [taken' # taken => taken'.last > taken.last]_vars
  BY KeyboardStep
<1> QED BY <1>1, Invariant, PTL DEF Spec, KeysInOrder
===========================================================================
