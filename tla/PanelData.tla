------------------------------ MODULE PanelData ------------------------------
(***************************************************************************)
(* What the Blynk panel and the LED of the wireless DMX module say: the    *)
(* colours of blizzard_wdmx.c, and the sliders V0 to V7 with the page V8   *)
(* of blizzard_blynk.cpp.  An LED is the set of its pins that are low.     *)
(***************************************************************************)
EXTENDS DmxData, FiniteSets

Pins == {"red", "green", "blue"}

Colors == {"off", "red", "green", "blue", "yellow", "cyan", "magenta", "white"}

\* check_wdmx_color compares all three pins.
Lit(color) ==
  CASE color = "off"     -> {}
    [] color = "white"   -> Pins
    [] color = "yellow"  -> {"red", "green"}
    [] color = "cyan"    -> {"green", "blue"}
    [] color = "magenta" -> {"red", "blue"}
    [] OTHER             -> {color}

check_wdmx_color(color, led) == led = Lit(color)

\* Fault: green and blue counted for each other.
Count_crossed(led) ==
  (IF "red" \in led THEN 1 ELSE 0) + (IF "green" \in led THEN 2 ELSE 0)
    + (IF "blue" \in led THEN 4 ELSE 0)

\* count of get_wdmx_color.
Count(led) ==
  (IF "red" \in led THEN 1 ELSE 0) + (IF "blue" \in led THEN 2 ELSE 0)
    + (IF "green" \in led THEN 4 ELSE 0)

get_wdmx_color(led) ==
  <<"off", "red", "blue", "magenta", "green", "yellow", "cyan", "white">>[Count(led) + 1]

\* The colour that update_blynk_wdmx_led gives V16, as the parts of its hexadecimal
\* number that are FF.
update_blynk_wdmx_led(color) ==
  CASE color = "cyan"    -> {"red", "blue"}
    [] color = "magenta" -> {"green", "blue"}
    [] OTHER             -> Lit(color)

\* V0 to V7 on a page: the argument of setDMXData has 16 bits.
SliderWrites(v, octet) == setDMXData((v + 1 + 8 * octet) % 65536)

-----------------------------------------------------------------------------
(* Properties.                                                             *)

\* The two ways of reading the LED, check_wdmx_color and get_wdmx_color, agree on
\* every combination of pins; the panel shows the LED's colour, but for cyan and
\* magenta, which it takes for each other.
ColorsAgree ==
  \A led \in SUBSET Pins :
    /\ \A c \in Colors : check_wdmx_color(c, led) <=> c = get_wdmx_color(led)
    /\ LET c == get_wdmx_color(led)
       IN  update_blynk_wdmx_led(c) =
             CASE c = "cyan"    -> Lit("magenta")
               [] c = "magenta" -> Lit("cyan")
               [] OTHER         -> led

\* Whatever page is chosen the sliders leave the start code alone and stay within
\* the buffer, and no two of them on any two pages share a channel.
SlidersApart ==
  \A v \in 0 .. 7, octet \in 0 .. 255 :
    /\ SliderWrites(v, octet) \subseteq 1 .. DMX_MAX_SLOTS - 1
    /\ octet < 64 => SliderWrites(v, octet) # {}
    /\ \A w \in 0 .. 7, page \in 0 .. 255 :
         v # w \/ octet # page
           => SliderWrites(v, octet) \cap SliderWrites(w, page) = {}

=============================================================================
