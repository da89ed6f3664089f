------------------------------ MODULE MCKbIdle ------------------------------
EXTENDS KbIdle

Table(on, off, end, ok, bat) ==
  [p \in Pattern |-> CASE p = "POWER_ON" -> on [] p = "MANUAL" -> off [] p = "END" -> end
                       [] p = "OK" -> ok [] p = "BAT_LOW" -> bat]
\* kb_led_cfg with one loop for 20 and fewer repetitions.
ShortOn  == Table(2, 1, 0, 2, 1)
ShortOff == Table(1, 1, 2, 2, 1)
ShortRep == Table(1, 6, 1, 2, 2)
RealPrio == Table(0, 1, 2, 3, 3)
=============================================================================
