---------------------------- MODULE MCPwTrigger ----------------------------
(* PwTrigger with two pulses' registers and a few calls of set_trigger(). *)
EXTENDS PwTrigger

set_trigger(num, delays, widths, enable) ==
  [num |-> num, delays |-> delays, widths |-> widths, enable |-> enable]

LegalCalls == {set_trigger(1, <<0>>, <<1>>, TRUE),
               set_trigger(2, <<1, 2>>, <<2, 1>>, TRUE),
               set_trigger(2, <<0, 1>>, <<1, 0>>, TRUE),   \* illegal width: raises
               set_trigger(1, <<2>>, <<3>>, FALSE)}
===========================================================================
