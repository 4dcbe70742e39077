-------------------------- MODULE WdmxPanelProofs --------------------------
(***************************************************************************)
(* Theorems about WdmxPanel, for every bound of its loops.                 *)
(***************************************************************************)
EXTENDS WdmxPanel, TLAPS

USE PanelAssumption DEF PanelAssumption

\* From the wait for not-white on, a connect has the module powered.
Powered == step \in {"switch", "wait_not_white", "find", "press", "select"} => on

\* Before startWDMX nothing presses the button and no connect begins.
Unstarted == ~enabled => ~button /\ step = "idle"

\* TypeOK in three parts.
Flags ==
  /\ enabled \in BOOLEAN /\ on \in BOOLEAN /\ busy \in BOOLEAN
  /\ button \in BOOLEAN /\ v14 \in BOOLEAN /\ v15 \in BOOLEAN

Waits == timeout \in 0 .. CONNECT_TIMEOUT + 1 /\ presses \in 0 .. WDMX_MAX_MODES + 1

Places ==
  /\ main \in {"init", "started", "done"} /\ led \in SUBSET Pins
  /\ step \in {"idle"} \cup EnterSteps \cup SelectSteps

PanelInv == TypeOK /\ NotLeftPressed /\ Powered /\ Unstarted

LEMMA PanelInit == Init => PanelInv
<1> SUFFICES ASSUME Init PROVE PanelInv
  OBVIOUS
<1>1. TypeOK
  <2>1. Flags
    BY DEF Init, Flags, EnterSteps, SelectSteps
  <2>2. Waits
    BY DEF Init, Waits, EnterSteps, SelectSteps
  <2>3. Places
    BY DEF Init, Places, EnterSteps, SelectSteps
  <2> QED BY <2>1, <2>2, <2>3 DEF TypeOK, Flags, Waits, Places
<1>2. NotLeftPressed /\ Powered /\ Unstarted
  BY DEF Init, NotLeftPressed, Powered, Unstarted
<1> QED BY <1>1, <1>2 DEF PanelInv

Outside == Main \/ LedChange \/ V13 \/ V13_disabled \/ \E val \in BOOLEAN : V14(val) \/ V15(val)

\* Main.c, the LED and the widgets keep the invariant.
LEMMA OutsideKeeps ==
  ASSUME PanelInv, Outside
  PROVE  PanelInv'
<1> USE DEF PanelInv, waitVars
<1>1. CASE Main
  <2>1. TypeOK'
    BY <1>1 DEF Main, startWDMX, main_turn_on, TypeOK
  <2>2. NotLeftPressed' /\ Powered' /\ Unstarted'
    BY <1>1 DEF Main, startWDMX, main_turn_on, NotLeftPressed, Powered, Unstarted
  <2> QED BY <2>1, <2>2
<1>2. CASE LedChange
  <2>1. TypeOK'
    BY <1>2 DEF LedChange, TypeOK
  <2>2. NotLeftPressed' /\ Powered' /\ Unstarted'
    BY <1>2 DEF LedChange, NotLeftPressed, Powered, Unstarted
  <2> QED BY <2>1, <2>2
<1>3. CASE V13 \/ V13_disabled
  <2>1. TypeOK'
    <3>1. Flags'
      BY <1>3 DEF V13, V13_disabled, TypeOK, Flags, EnterSteps, SelectSteps
    <3>2. Waits'
      BY <1>3 DEF V13, V13_disabled, TypeOK, Waits, EnterSteps, SelectSteps
    <3>3. Places'
      BY <1>3 DEF V13, V13_disabled, TypeOK, Places, EnterSteps, SelectSteps
    <3> QED BY <3>1, <3>2, <3>3 DEF TypeOK, Flags, Waits, Places
  <2>2. NotLeftPressed' /\ Powered' /\ Unstarted'
    BY <1>3 DEF V13, V13_disabled, Handling, NotLeftPressed, Powered, Unstarted
  <2> QED BY <2>1, <2>2
<1>4. CASE \E val \in BOOLEAN : V14(val) \/ V15(val)
  <2> PICK val \in BOOLEAN : V14(val) \/ V15(val)
    BY <1>4
  <2>1. TypeOK'
    BY DEF V14, V15, Handling, TypeOK
  <2>2. Powered' /\ Unstarted'
    BY DEF V14, V15, Handling, Powered, Unstarted
  <2>3. CASE V14(val)
    BY <2>1, <2>2, <2>3 DEF V14, NotLeftPressed
  <2>4. CASE V15(val)
    <3>1. NotLeftPressed'
      <4>1. CASE enabled
        <5>1. button' = v15'
          BY <2>4, <4>1 DEF V15
        <5> QED BY Zenon, <5>1 DEF NotLeftPressed
      <4>2. CASE ~enabled
        <5>1. ~button
          BY <4>2 DEF Unstarted
        <5>2. button' = button
          BY <2>4, <4>2 DEF V15
        <5> QED BY Zenon, <5>1, <5>2 DEF NotLeftPressed
      <4> QED BY <4>1, <4>2
    <3> QED BY <2>1, <2>2, <3>1
  <2> QED BY <2>3, <2>4
<1> QED BY <1>1, <1>2, <1>3, <1>4 DEF Outside

\* A connect that fails keeps the invariant.
LEMMA FailKeeps ==
  ASSUME PanelInv, Fail, UNCHANGED <<main, enabled, led, v15>>
  PROVE  PanelInv'
<1>1. TypeOK'
  <2>1. Flags'
    BY DEF PanelInv, TypeOK, Fail, Busy_after, Button_after, Flags, EnterSteps, SelectSteps
  <2>2. Waits'
    BY DEF PanelInv, TypeOK, Fail, Busy_after, Button_after, Waits, EnterSteps, SelectSteps
  <2>3. Places'
    BY DEF PanelInv, TypeOK, Fail, Busy_after, Button_after, Places, EnterSteps, SelectSteps
  <2> QED BY <2>1, <2>2, <2>3 DEF TypeOK, Flags, Waits, Places
<1>2. NotLeftPressed' /\ Powered' /\ Unstarted'
  BY DEF NotLeftPressed, Powered, Unstarted, Fail, Button_after
<1> QED BY <1>1, <1>2 DEF PanelInv

\* A wait that goes on or fails keeps the invariant.
LEMMA WaitKeeps ==
  ASSUME PanelInv, Wait, UNCHANGED <<main, enabled, led, v15>>
  PROVE  PanelInv'
<1>1. CASE timeout > CONNECT_TIMEOUT
  BY <1>1, FailKeeps DEF Wait
<1>2. CASE ~(timeout > CONNECT_TIMEOUT)
  BY <1>2 DEF Wait, PanelInv, TypeOK, NotLeftPressed, Powered, Unstarted
<1> QED BY <1>1, <1>2

\* And so does every step of a connect.
LEMMA ConnectKeeps ==
  ASSUME PanelInv, Connect
  PROVE  PanelInv'
<1> USE DEF PanelInv, TypeOK, NotLeftPressed, Powered, Unstarted, EnterSteps, SelectSteps
<1>1. CASE wait_off
  <2>1. CASE Shows("off")
    BY <1>1, <2>1 DEF wait_off
  <2>2. CASE ~Shows("off")
    BY <1>1, <2>2, WaitKeeps DEF wait_off
  <2> QED BY <2>1, <2>2
<1>2. CASE wait_white
  <2>1. CASE Shows("white")
    BY <1>2, <2>1 DEF wait_white, Power_after_white
  <2>2. CASE ~Shows("white")
    BY <1>2, <2>2, WaitKeeps DEF wait_white
  <2> QED BY <2>1, <2>2
<1>3. CASE switch_off
  BY <1>3 DEF switch_off, waitVars
<1>4. CASE wait_not_white
  <2>1. CASE ~Shows("white")
    BY <1>4, <2>1 DEF wait_not_white
  <2>2. CASE Shows("white")
    BY <1>4, <2>2, WaitKeeps DEF wait_not_white
  <2> QED BY <2>1, <2>2
<1>5. CASE find_mode
  BY <1>5 DEF find_mode, waitVars
<1>6. CASE press_wdmx_button
  <2>1. CASE ModesSeen
    BY <1>6, <2>1, FailKeeps DEF press_wdmx_button
  <2>2. CASE ~ModesSeen
    <3>1. TypeOK'
      <4>1. Flags'
        BY <1>6, <2>2 DEF press_wdmx_button, ModesSeen, Flags
      <4>2. Waits'
        BY <1>6, <2>2 DEF press_wdmx_button, ModesSeen, Waits
      <4>3. Places'
        BY <1>6, <2>2 DEF press_wdmx_button, ModesSeen, Places
      <4> QED BY <4>1, <4>2, <4>3 DEF TypeOK, Flags, Waits, Places
    <3>2. NotLeftPressed' /\ Powered' /\ Unstarted'
      BY <1>6, <2>2 DEF press_wdmx_button
    <3> QED BY <3>1, <3>2
  <2> QED BY <2>1, <2>2
<1>7. CASE select_mode
  <2>1. TypeOK'
    <3>1. Flags'
      BY <1>7 DEF select_mode, Flags
    <3>2. Waits'
      BY <1>7 DEF select_mode, Waits
    <3>3. Places'
      BY <1>7 DEF select_mode, Places
    <3> QED BY <3>1, <3>2, <3>3 DEF TypeOK, Flags, Waits, Places
  <2>2. NotLeftPressed' /\ Powered' /\ Unstarted'
    BY <1>7 DEF select_mode
  <2> QED BY <2>1, <2>2
<1> QED BY <1>1, <1>2, <1>3, <1>4, <1>5, <1>6, <1>7 DEF Connect

LEMMA PanelStep == PanelInv /\ [Next]_vars => PanelInv'
<1> SUFFICES ASSUME PanelInv, [Next]_vars PROVE PanelInv'
  OBVIOUS
<1>1. CASE Connect
  BY <1>1, ConnectKeeps
<1>2. CASE Outside
  BY <1>2, OutsideKeeps
<1>3. CASE UNCHANGED vars
  BY <1>3 DEF vars, waitVars, PanelInv, TypeOK, NotLeftPressed, Powered, Unstarted, EnterSteps,
              SelectSteps
<1> QED BY <1>1, <1>2, <1>3 DEF Next, Outside

LEMMA PanelInvariant == Spec => []PanelInv
BY PanelInit, PanelStep, PTL DEF Spec

\* The loops of enter_wdmx_config_mode and select_wdmx_mode stop at their bounds,
\* whatever these are.
THEOREM PanelTypeCorrect == Spec => []TypeOK
BY PanelInvariant, PTL DEF PanelInv

\* However a connect ends, it does not leave the button pressed.
THEOREM ButtonReleased == Spec => []NotLeftPressed
BY PanelInvariant, PTL DEF PanelInv

\* A connect that reports success leaves the module powered.
THEOREM SuccessIsPowered == Spec => SuccessMeansPowered
<1>1. PanelInv /\ [Next]_vars
        => [step = "select" /\ step' = "idle" => on' /\ v14']_vars
  <2> SUFFICES ASSUME PanelInv, Next, step = "select", step' = "idle"
               PROVE  on' /\ v14'
    OBVIOUS
  <2>1. on
    BY DEF PanelInv, Powered
  <2>2. select_mode
    BY DEF Next, Main, startWDMX, main_turn_on, LedChange, Connect, wait_off, wait_white,
           switch_off, wait_not_white, find_mode, press_wdmx_button, V13, V13_disabled,
           V14, V15, Handling
  <2> QED BY <2>1, <2>2 DEF select_mode
<1> QED BY <1>1, PanelInvariant, PTL DEF Spec, SuccessMeansPowered

=============================================================================
