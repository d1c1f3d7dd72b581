---------------------------- MODULE PowerControl ----------------------------
(***************************************************************************)
(* The supply of the target: two switches, driven by the button in the     *)
(* main loop (main.c) and by the host's requests, whose callback runs in   *)
(* the USB interrupt (ctrl_change_pwr, usb.c).  The interrupt may come     *)
(* between any two accesses of the main loop to the pins.                  *)
(***************************************************************************)
EXTENDS Naturals, Sequences

VARIABLES
  pins,           \* the supplies switched on: PIO_ODSR, F_VB5V and F_VBHOST
  USB_PWR_STATE,  \* the supply the host asked for: 0, 1 or 2
  main,           \* where the main loop is
  todo,           \* the pin writes it has still to do
  before,         \* history: the pins when the button was pressed
  raced           \* history: a request came while the button was handled

powerVars == <<pins, USB_PWR_STATE, main, todo, before, raced>>

Supplies == {"5V", "host"}
Supply(n) == CASE n = 0 -> {} [] n = 1 -> {"5V"} [] n = 2 -> {"host"}
Write == [pin: Supplies, on: BOOLEAN]
Off(p) == [pin |-> p, on |-> FALSE]
On(p) == [pin |-> p, on |-> TRUE]

phywhisperer_no_pwr == <<Off("host"), Off("5V")>>
phywhisperer_5V_pwr == <<Off("host"), On("5V")>>
phywhisperer_host_pwr == <<Off("5V"), On("host")>>
pwr_list(n) ==
  CASE n = 0 -> phywhisperer_no_pwr
    [] n = 1 -> phywhisperer_5V_pwr
    [] n = 2 -> phywhisperer_host_pwr

Init ==
  /\ pins = {} /\ USB_PWR_STATE = 0
  /\ main = "sleep" /\ todo = <<>>
  /\ before = {} /\ raced = FALSE

\* ctrl_change_pwr() does its two writes within the interrupt.
ChangePower(n) ==
  /\ pins' = Supply(n)
  /\ USB_PWR_STATE' = n
  /\ raced' = (main # "sleep")
  /\ UNCHANGED <<main, todo, before>>

\* The button is let go again; before the host chose a supply it does nothing.
Button ==
  /\ main = "sleep" /\ USB_PWR_STATE # 0
  /\ main' = "readHost"
  /\ before' = pins
  /\ raced' = FALSE
  /\ UNCHANGED <<pins, USB_PWR_STATE, todo>>

\* pwr_st_from_io() reads the register once for each pin.
ReadHost ==
  /\ main = "readHost"
  /\ main' = IF "host" \in pins THEN "on" ELSE "read5V"
  /\ UNCHANGED <<pins, USB_PWR_STATE, todo, before, raced>>

Read5V ==
  /\ main = "read5V"
  /\ main' = IF "5V" \in pins THEN "on" ELSE "off"
  /\ UNCHANGED <<pins, USB_PWR_STATE, todo, before, raced>>

\* What the button does, from the pins and from what the host asked for.
ToggleInverted(st, n) == IF st = "off" THEN phywhisperer_no_pwr ELSE pwr_list(n)
Toggle(st, n) == IF st = "on" THEN phywhisperer_no_pwr ELSE pwr_list(n)

Choose ==
  /\ main \in {"on", "off"}
  /\ main' = "write"
  /\ todo' = Toggle(main, USB_PWR_STATE)
  /\ UNCHANGED <<pins, USB_PWR_STATE, before, raced>>

WritePin ==
  /\ main = "write"
  /\ LET w == Head(todo)
     IN pins' = IF w.on THEN pins \cup {w.pin} ELSE pins \ {w.pin}
  /\ todo' = Tail(todo)
  /\ main' = IF Len(todo) = 1 THEN "sleep" ELSE "write"
  /\ UNCHANGED <<USB_PWR_STATE, before, raced>>

MainLoop == Button \/ ReadHost \/ Read5V \/ Choose \/ WritePin

PowerTypeOK ==
  /\ pins \subseteq Supplies /\ USB_PWR_STATE \in 0..2
  /\ main \in {"sleep", "readHost", "read5V", "on", "off", "write"}
  /\ todo \in Seq(Write) /\ Len(todo) <= 2
  /\ before \subseteq Supplies /\ raced \in BOOLEAN
=============================================================================
