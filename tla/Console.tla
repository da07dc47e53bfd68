------------------------------ MODULE Console ------------------------------
(***************************************************************************)
(* display.c and keyboard.c: a text screen that two contexts print on.     *)
(* The shell prints text and waits for keys; the IRQ1 handler runs to its  *)
(* end between any two of the shell's steps (it is an interrupt gate), and *)
(* echoes the key it received by the same print_char.                      *)
(*                                                                         *)
(* print_char, as the shell runs it, is cut where gcc -O0 loads and stores *)
(* the shared variables and where it talks to the VGA board; the copying   *)
(* loop of scroll_screen and the filling loop of clear_screen are one step *)
(* each.  A key is named by the number of its key press.                   *)
(***************************************************************************)
EXTENDS Integers, Sequences

CONSTANTS MAX_ROW,     \* columns of the screen (80)
          MAX_COL,     \* lines of the screen (25)
          Tab,         \* distance of tab stops (8)
          Byte,        \* values of a byte of the hardware cursor (256)
          Text,        \* the characters the shell prints
          Keys,        \* what the keys mean; "unknown" is KEY_UNKNOWN
          MaxPrints,   \* bound: characters the shell prints
          MaxKeys      \* bound: keys pressed

Controls == {"bs", "tab", "cr", "nl", "unknown"}
Blank == " "

ASSUME ConsoleAssumption ==
  /\ {MAX_ROW, MAX_COL, Tab, Byte} \subseteq Nat \ {0} /\ Byte > 1
  /\ "bs" \notin Text /\ "unknown" \notin Text
  /\ MaxPrints \in Nat /\ MaxKeys \in Nat

VARIABLES framebuffer,  \* the screen, and the line of memory after it
          cursor_x, cursor_y,
          index,        \* the VGA board's selected register: "high" or "low"
          shown,        \* its cursor: [high, low]
          scancode,     \* the key press last stored, 0 if discarded
          pc,           \* where the shell is
          reg,          \* what it has loaded: a cursor value or a location
          char,         \* the character it prints
          then,         \* where a line feed in print_char goes on
          key,          \* the key press get_key has read
          pressed,      \* [1 .. n -> Keys]: the keys pressed so far (history)
          prints,       \* characters and screens printed so far (history)
          taken,        \* [count, last]: the keys get_key returned (history)
          paper,        \* what a printer would have printed (history)
          raced         \* has the handler run inside a call that changes the
                        \* screen: "never", in an "earlier" one, "now" (history)

screen == <<framebuffer, cursor_x, cursor_y>>
vga == <<index, shown>>
local == <<pc, reg, char, then, key>>
history == <<prints, taken, paper, raced, pressed>>
vars == <<screen, vga, scancode, local, history>>

Cells == 0 .. (MAX_ROW * (MAX_COL + 1) - 1)

---------------------------------------------------------------------------
(* What a printer does: the paper never loses a line, the screen is the    *)
(* part of it from line top on.                                            *)

Lines == 0 .. (MaxPrints + MaxKeys + MAX_COL)
BlankPaper == [cell |-> [p \in Lines \X (0 .. (MAX_ROW - 1)) |-> Blank],
               line |-> 0, column |-> 0, top |-> 0]

Feed(p) == LET line == p.line + 1
           IN [p EXCEPT !.line = line, !.column = 0,
                        !.top = IF line - MAX_COL + 1 > @ THEN line - MAX_COL + 1 ELSE @]
MoveTo(p, column) == IF column < MAX_ROW THEN [p EXCEPT !.column = column] ELSE Feed(p)
Strike(p, c) == [p EXCEPT !.cell[<<p.line, p.column>>] = c]

Type(p, c) ==
  CASE c = "nl"      -> Feed(p)
    [] c = "cr"      -> [p EXCEPT !.column = 0]
    [] c = "tab"     -> MoveTo(p, CHOOSE n \in (p.column + 1) .. (p.column + Tab) : n % Tab = 0)
    [] c = "bs"      -> IF p.column > 0 THEN Strike([p EXCEPT !.column = @ - 1], Blank)
                        ELSE IF p.line > p.top
                        THEN Strike([p EXCEPT !.line = @ - 1, !.column = MAX_ROW - 1], Blank)
                        ELSE p
    [] c = "unknown" -> p
    [] OTHER         -> MoveTo(Strike(p, c), p.column + 1)

---------------------------------------------------------------------------
(* display.c, as one uninterrupted call.  d is [fb, x, y].                 *)

Location(d) == d.y * MAX_ROW + d.x
get_cursor_location == cursor_y * MAX_ROW + cursor_x

Draw(d, c) == [d EXCEPT !.fb[Location(d)] = c]

\* Broken: the last line is not blanked.
ScrolledNotBlanked(fb) == [i \in Cells |-> IF i < MAX_ROW * (MAX_COL - 1) THEN fb[i + MAX_ROW] ELSE fb[i]]

Scrolled(fb) == [i \in Cells |->
                   IF i < MAX_ROW * (MAX_COL - 1) THEN fb[i + MAX_ROW]
                   ELSE IF i < MAX_ROW * MAX_COL THEN Blank
                   ELSE fb[i]]

scroll_screen(d) ==
  IF d.y < MAX_COL THEN d ELSE [d EXCEPT !.fb = Scrolled(@), !.y = MAX_COL - 1]

Advance(d, c) ==
  CASE c = "bs" /\ d.x > 0            -> Draw([d EXCEPT !.x = @ - 1], Blank)
    [] c = "bs" /\ d.x = 0 /\ d.y > 0 -> Draw([d EXCEPT !.y = @ - 1, !.x = MAX_ROW - 1], Blank)
    [] c = "tab"                      -> [d EXCEPT !.x = ((@ \div Tab) + 1) * Tab]
    [] c = "cr"                       -> [d EXCEPT !.x = 0]
    [] c = "nl"                       -> [d EXCEPT !.x = 0, !.y = @ + 1]
    [] c \notin Controls              -> [Draw(d, c) EXCEPT !.x = @ + 1]
    [] OTHER                          -> d

Wrap(d) == IF d.x >= MAX_ROW THEN [d EXCEPT !.x = 0, !.y = @ + 1] ELSE d

print_char(d, c) == scroll_screen(Wrap(Advance(d, c)))

display_cursor(location) == [high |-> location \div Byte, low |-> location % Byte]

---------------------------------------------------------------------------
(* keyboard.c: the handler, whole.  Releases of keys change nothing.       *)

Busy == pc \notin {"idle", "poll", "discard"}

keyboard_irq1_handler(k) ==
  LET after == print_char([fb |-> framebuffer, x |-> cursor_x, y |-> cursor_y], k)
      n == Len(pressed) + 1
  IN /\ n <= MaxKeys
     /\ scancode' = n
     /\ framebuffer' = after.fb /\ cursor_x' = after.x /\ cursor_y' = after.y
     /\ shown' = display_cursor(Location(after)) /\ index' = "low"
     /\ pressed' = Append(pressed, k)
     /\ paper' = Type(paper, k)
     /\ raced' = IF Busy THEN "now" ELSE raced
     /\ UNCHANGED <<local, prints, taken>>

---------------------------------------------------------------------------
(* print_char and clear_screen as the shell runs them, step by step.       *)

Goto(here, there) == pc = here /\ pc' = there

\* A call of the shell that changes the screen begins.
Call == /\ prints < MaxPrints
        /\ prints' = prints + 1
        /\ raced' = IF raced = "never" THEN "never" ELSE "earlier"
        /\ UNCHANGED <<screen, vga, scancode, taken, pressed>>

PrintCall(c) ==
  /\ Call
  /\ Goto("idle", CASE c = "nl" -> "feed" [] c = "cr" -> "return" [] c = "tab" -> "tab" [] OTHER -> "load_y")
  /\ char' = c
  /\ then' = "wrap"
  /\ paper' = Type(paper, c)
  /\ UNCHANGED <<reg, key>>

\* A load of a shared variable, a store of one.
Load(here, value, there) == /\ Goto(here, there)
                            /\ reg' = value
                            /\ UNCHANGED <<screen, vga, scancode, char, then, key, history>>
StoreX(here, value, there) == /\ Goto(here, there)
                              /\ cursor_x' = value
                              /\ UNCHANGED <<framebuffer, cursor_y, vga, scancode, reg, char, then, key, history>>
StoreY(here, value, there) == /\ Goto(here, there)
                              /\ cursor_y' = value
                              /\ UNCHANGED <<framebuffer, cursor_x, vga, scancode, reg, char, then, key, history>>
StoreScreen(here, value, there) == /\ Goto(here, there)
                                   /\ framebuffer' = value
                                   /\ UNCHANGED <<cursor_x, cursor_y, vga, scancode, reg, char, then, key, history>>

\* A printable character.
PrintLoadY == Load("load_y", cursor_y, "load_x")
PrintLoadX == Load("load_x", reg * MAX_ROW + cursor_x, "draw")
PrintDraw == StoreScreen("draw", [framebuffer EXCEPT ![reg] = char], "load")
PrintLoad == Load("load", cursor_x, "advance")
PrintAdvance == StoreX("advance", reg + 1, "wrap")

PrintReturn == StoreX("return", 0, "wrap")
PrintTabLoad == Load("tab", cursor_x, "tab_store")
PrintTabStore == StoreX("tab_store", ((reg \div Tab) + 1) * Tab, "wrap")

\* cursor_x = 0; cursor_y++;
FeedReturn == StoreX("feed", 0, "feed_load")
FeedLoad == Load("feed_load", cursor_y, "feed_store")
FeedStore == StoreY("feed_store", reg + 1, then)

\* Broken: one column too many.
PrintWrapLate == /\ Goto("wrap", IF cursor_x > MAX_ROW THEN "feed" ELSE "scroll")
                 /\ then' = "scroll"
                 /\ UNCHANGED <<screen, vga, scancode, reg, char, key, history>>

\* Past the width of the screen?
PrintWrap == /\ Goto("wrap", IF cursor_x >= MAX_ROW THEN "feed" ELSE "scroll")
             /\ then' = "scroll"
             /\ UNCHANGED <<screen, vga, scancode, reg, char, key, history>>

\* scroll_screen.
ScrollTest == /\ Goto("scroll", IF cursor_y < MAX_COL THEN "show" ELSE "copy")
              /\ UNCHANGED <<screen, vga, scancode, reg, char, then, key, history>>
ScrollCopy == StoreScreen("copy", Scrolled(framebuffer), "clamp")

\* Broken: the cursor is not moved up with the text.
ScrollForgetsCursor == StoreY("clamp", cursor_y, "show")

ScrollClamp == StoreY("clamp", MAX_COL - 1, "show")

\* display_cursor: two registers, each selected and then written.
ShowLoadY == Load("show", cursor_y, "show_x")
ShowLoadX == Load("show_x", reg * MAX_ROW + cursor_x, "select_high")
Select(here, r, there) == /\ Goto(here, there)
                          /\ index' = r
                          /\ UNCHANGED <<screen, shown, scancode, reg, char, then, key, history>>
Output(here, r, there) == /\ Goto(here, there)
                          /\ shown' = [shown EXCEPT ![index] = display_cursor(reg)[r]]
                          /\ UNCHANGED <<screen, index, scancode, reg, char, then, key, history>>
ShowHigh == Select("select_high", "high", "high") \/ Output("high", "high", "select_low")

\* Broken: the register for the low byte is not selected.
ShowLowUnselected == Select("select_low", index, "low") \/ Output("low", "low", "idle")

ShowLow == Select("select_low", "low", "low") \/ Output("low", "low", "idle")

ClearCall == /\ Call
             /\ Goto("idle", "clear")
             /\ paper' = BlankPaper
             /\ UNCHANGED <<reg, char, then, key>>
ClearFill == StoreScreen("clear", [i \in Cells |-> IF i < MAX_ROW * MAX_COL THEN Blank ELSE framebuffer[i]], "clear_x")
ClearX == StoreX("clear_x", 0, "clear_y")
ClearY == StoreY("clear_y", 0, "show")

print_steps == \/ PrintLoadY \/ PrintLoadX \/ PrintDraw \/ PrintLoad \/ PrintAdvance
               \/ PrintReturn \/ PrintTabLoad \/ PrintTabStore
               \/ FeedReturn \/ FeedLoad \/ FeedStore \/ PrintWrap
               \/ ScrollTest \/ ScrollCopy \/ ScrollClamp
               \/ ShowLoadY \/ ShowLoadX \/ ShowHigh \/ ShowLow
clear_steps == ClearFill \/ ClearX \/ ClearY

---------------------------------------------------------------------------
(* get_key: poll until a key is there, then discard it.                    *)

GetKey == /\ Goto("idle", "poll")
          /\ UNCHANGED <<screen, vga, scancode, reg, char, then, key, history>>

keyboard_get_last_key == /\ scancode # 0
                         /\ pressed[scancode] # "unknown"
                         /\ Goto("poll", "discard")
                         /\ key' = scancode
                         /\ UNCHANGED <<screen, vga, scancode, reg, char, then, history>>

\* Broken: the key is not discarded.
KeepLastKey == /\ Goto("discard", "idle")
               /\ taken' = [count |-> taken.count + 1, last |-> key]
               /\ UNCHANGED <<screen, vga, scancode, reg, char, then, key, prints, pressed, paper, raced>>

keyboard_discard_last_key == /\ Goto("discard", "idle")
                             /\ scancode' = 0
                             /\ taken' = [count |-> taken.count + 1, last |-> key]
                             /\ UNCHANGED <<screen, vga, reg, char, then, key, prints, pressed, paper, raced>>

Init == /\ framebuffer = [i \in Cells |-> Blank]
        /\ cursor_x = 0 /\ cursor_y = 0
        /\ index = "low" /\ shown = [high |-> 0, low |-> 0]
        /\ scancode = 0
        /\ pc = "idle" /\ reg = 0 /\ char = Blank /\ then = "wrap" /\ key = 0
        /\ pressed = <<>> /\ prints = 0 /\ taken = [count |-> 0, last |-> 0]
        /\ paper = BlankPaper
        /\ raced = "never"

Shell == \/ \E c \in Text : PrintCall(c)
         \/ ClearCall
         \/ print_steps
         \/ clear_steps
         \/ GetKey \/ keyboard_get_last_key \/ keyboard_discard_last_key

Next == Shell \/ \E k \in Keys : keyboard_irq1_handler(k)

Spec == Init /\ [][Next]_vars

---------------------------------------------------------------------------
(* What is claimed.                                                        *)

TypeOK == /\ framebuffer \in [Cells -> Text \cup Keys \cup {Blank}]
          /\ cursor_x \in 0 .. (MAX_ROW + Tab) /\ cursor_y \in 0 .. MAX_COL
          /\ index \in {"high", "low"} /\ shown \in [high : Nat, low : Nat]
          /\ scancode \in 0 .. MaxKeys /\ key \in 0 .. MaxKeys /\ reg \in Nat
          /\ pressed \in Seq(Keys)

\* Whatever the handler interrupts, the cursor is on the screen again when the
\* shell's call returns.
CursorOnScreen == ~Busy => cursor_x < MAX_ROW /\ cursor_y < MAX_COL

\* Until the handler has interrupted a call that changes the screen, the screen
\* shows what a printer given the same characters would have on its last
\* MAX_COL lines, and the cursor is where its head is.
ScreenIsPaper ==
  ~Busy /\ raced = "never" =>
    /\ cursor_x = paper.column /\ cursor_y = paper.line - paper.top
    /\ \A line \in 0 .. (MAX_COL - 1), column \in 0 .. (MAX_ROW - 1) :
         framebuffer[line * MAX_ROW + column] = paper.cell[<<paper.top + line, column>>]

\* A call that the handler did not interrupt leaves the hardware cursor where
\* the cursor is, whatever happened in earlier calls.
CursorShown == ~Busy /\ raced # "now" => shown = display_cursor(get_cursor_location)

\* get_key returns each key press at most once and in the order of the presses.
KeysInOrder == [][taken' # taken => taken'.last > taken.last]_vars
=============================================================================
