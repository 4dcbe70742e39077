----------------------------- MODULE WdmxPanel -----------------------------
(***************************************************************************)
(* The wireless DMX module of blizzard_wdmx.c and the widgets V13, V14 and *)
(* V15 of blizzard_blynk.cpp that operate it.  Two tasks use it: main.c,   *)
(* which starts it and turns it on, and the Blynk task, which runs one     *)
(* handler after the other and spends seconds in easy_wdmx_connect (at     *)
(* this commit the line of main.c that starts that task is a comment).     *)
(*                                                                         *)
(* The module itself is outside: its LED may change at any time.  The code *)
(* reads the three pins one after the other, and a mixture of two colours  *)
(* it may see is one more colour that the LED had.                         *)
(***************************************************************************)
EXTENDS PanelData

CONSTANTS
  CONNECT_TIMEOUT,  \* 50 in blizzard_wdmx.h
  WDMX_MAX_MODES    \* 9

ASSUME PanelAssumption == CONNECT_TIMEOUT \in Nat /\ WDMX_MAX_MODES \in Nat

VARIABLES
  main,      \* step of main.c
  enabled,   \* WDMX_ENABLE
  on,        \* WDMX_POWER_ON, and the level of the power pin
  busy,      \* WDMX_BUSY
  button,    \* level of the button pin
  led,       \* pins of the LED that are low
  step,      \* step of the Blynk task
  timeout,   \* of enter_wdmx_config_mode
  presses,   \* i of select_wdmx_mode
  v14, v15   \* what the power and button widgets show

waitVars == <<timeout, presses>>
vars == <<main, enabled, on, busy, button, led, step, waitVars, v14, v15>>

EnterSteps  == {"wait_off", "wait_white", "switch", "wait_not_white"}
SelectSteps == {"find", "press", "select"}

TypeOK ==
  /\ main \in {"init", "started", "done"}
  /\ enabled \in BOOLEAN /\ on \in BOOLEAN /\ busy \in BOOLEAN
  /\ button \in BOOLEAN /\ v14 \in BOOLEAN /\ v15 \in BOOLEAN
  /\ led \in SUBSET Pins
  /\ step \in {"idle"} \cup EnterSteps \cup SelectSteps
  /\ timeout \in 0 .. CONNECT_TIMEOUT + 1
  /\ presses \in 0 .. WDMX_MAX_MODES + 1

Init ==
  /\ main = "init" /\ enabled = FALSE /\ on = FALSE /\ busy = FALSE /\ button = FALSE
  /\ led \in SUBSET Pins /\ step = "idle" /\ timeout = 0 /\ presses = 0
  /\ v14 = FALSE /\ v15 = FALSE

-----------------------------------------------------------------------------
(* main.c.                                                                 *)

startWDMX ==
  /\ main = "init" /\ main' = "started"
  /\ enabled' = TRUE /\ button' = FALSE
  /\ UNCHANGED <<on, busy, led, step, waitVars, v14, v15>>

\* turn_on_wdmx: the Blynk task may be anywhere in a connect.
main_turn_on ==
  /\ main = "started" /\ main' = "done"
  /\ on' = TRUE
  /\ UNCHANGED <<enabled, busy, button, led, step, waitVars, v14, v15>>

Main == startWDMX \/ main_turn_on

LedChange ==
  /\ led' \in SUBSET Pins \ {led}
  /\ UNCHANGED <<main, enabled, on, busy, button, step, waitVars, v14, v15>>

-----------------------------------------------------------------------------
(* Handlers of the widgets.  While the module is disabled every call does  *)
(* nothing, and easy_wdmx_connect returns no particular value.             *)

Handling == step = "idle" /\ ~busy

V14(val) ==
  /\ Handling
  /\ v14' = val /\ on' = IF enabled THEN val ELSE on
  /\ UNCHANGED <<main, enabled, busy, button, led, step, waitVars, v15>>

V15(val) ==
  /\ Handling
  /\ v15' = val /\ button' = IF enabled THEN val ELSE button
  /\ UNCHANGED <<main, enabled, on, busy, led, step, waitVars, v14>>

\* easy_wdmx_connect begins with turn_off_wdmx.
V13 ==
  /\ Handling /\ enabled
  /\ busy' = TRUE /\ on' = FALSE
  /\ step' = "wait_off" /\ timeout' = 0
  /\ UNCHANGED <<main, enabled, button, led, presses, v14, v15>>

V13_disabled ==
  /\ Handling /\ ~enabled
  /\ v14' \in BOOLEAN
  /\ UNCHANGED <<main, enabled, on, busy, button, led, step, waitVars, v15>>

-----------------------------------------------------------------------------
(* easy_wdmx_connect.  Blue is WDMX_MODE_TRANSMIT.                         *)

Shows(color) == check_wdmx_color(color, led)

\* Fault: the error path leaves the module busy.
Busy_after_error == TRUE

\* WDMX_BUSY after CON_ERROR.
Busy_after == FALSE

\* Fault: the button stays as the failed wait left it.
Button_after_error == button

\* The button after a connect that failed: V13 releases it.
Button_after == FALSE

\* CONNECT_ERROR, and what V13 does about it: the power stays as it is.
Fail ==
  /\ step' = "idle" /\ busy' = Busy_after /\ button' = Button_after /\ v14' = FALSE
  /\ timeout' = 0 /\ presses' = 0
  /\ UNCHANGED on

\* "timeout++ > CONNECT_TIMEOUT": one more than the bound is let through.
Wait ==
  IF timeout > CONNECT_TIMEOUT
    THEN Fail
    ELSE timeout' = timeout + 1 /\ UNCHANGED <<on, busy, button, step, presses, v14>>

wait_off ==
  /\ step = "wait_off"
  /\ IF Shows("off")
       THEN /\ step' = "wait_white" /\ timeout' = 0 /\ button' = TRUE
            /\ UNCHANGED <<on, busy, presses, v14>>
       ELSE Wait
  /\ UNCHANGED <<main, enabled, led, v15>>

\* Fault: the power is not switched back on.
Power_after_white_kept == on

Power_after_white == TRUE

wait_white ==
  /\ step = "wait_white"
  /\ IF Shows("white")
       THEN /\ step' = "switch" /\ timeout' = 0 /\ on' = Power_after_white
            /\ UNCHANGED <<busy, button, presses, v14>>
       ELSE Wait
  /\ UNCHANGED <<main, enabled, led, v15>>

\* After WDMX_SWITCH_DELAY.
switch_off ==
  /\ step = "switch" /\ step' = "wait_not_white"
  /\ button' = FALSE
  /\ UNCHANGED <<main, enabled, on, busy, led, waitVars, v14, v15>>

wait_not_white ==
  /\ step = "wait_not_white"
  /\ IF ~Shows("white")
       THEN /\ step' = "find" /\ timeout' = 0 /\ presses' = 0
            /\ UNCHANGED <<on, busy, button, v14>>
       ELSE Wait
  /\ UNCHANGED <<main, enabled, led, v15>>

\* The mode is shown: hold the button.  Otherwise press it once.
find_mode ==
  /\ step = "find"
  /\ step' = IF Shows("blue") THEN "select" ELSE "press"
  /\ button' = TRUE
  /\ UNCHANGED <<main, enabled, on, busy, led, waitVars, v14, v15>>

\* Fault: the button is pressed until the mode is found.
ModesSeen_never == FALSE

ModesSeen == presses > WDMX_MAX_MODES

\* The colour after the last press is not looked at.
press_wdmx_button ==
  /\ step = "press"
  /\ IF ModesSeen
       THEN Fail
       ELSE /\ step' = "find" /\ presses' = presses + 1 /\ button' = FALSE
            /\ UNCHANGED <<on, busy, timeout, v14>>
  /\ UNCHANGED <<main, enabled, led, v15>>

\* Fault: the wait ends with the wrong colour.
Selected_off == Shows("off")

Selected == Shows("white")

\* The wait for white has neither a timeout nor a delay.
select_mode ==
  /\ step = "select"
  /\ Selected
  /\ step' = "idle" /\ busy' = FALSE /\ button' = FALSE /\ v14' = TRUE
  /\ timeout' = 0 /\ presses' = 0
  /\ UNCHANGED <<main, enabled, on, led, v15>>

Connect == \/ wait_off \/ wait_white \/ switch_off \/ wait_not_white
           \/ find_mode \/ press_wdmx_button \/ select_mode

Next == \/ Main \/ LedChange \/ Connect
        \/ V13 \/ V13_disabled \/ \E val \in BOOLEAN : V14(val) \/ V15(val)

Spec == Init /\ [][Next]_vars

\* Both tasks run; what the user and the LED do is open.
FairSpec == Spec /\ WF_vars(Main) /\ WF_vars(Connect)

-----------------------------------------------------------------------------
(* Properties.                                                             *)

\* Between handlers the button pin is high only while the user holds the button
\* widget: no connect, however it ends, leaves the button pressed.
NotLeftPressed == step = "idle" /\ button => v15

\* A connect that reports success leaves the module powered, also when main.c
\* turned it on in between.
SuccessMeansPowered == [][step = "select" /\ step' = "idle" => on' /\ v14']_vars

\* Every connect gives the panel back, but for the wait that has no timeout.
ConnectEnds == busy ~> (~busy \/ step = "select")

\* That wait ends too when the LED stays white.
WhiteEnds == <>[]Shows("white") => []<>(step = "idle")

=============================================================================
