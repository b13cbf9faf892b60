------------------------------ MODULE MCUartPort -----------------------------
(* UartPort for TLC: one configuration that differs from the settings of    *)
(* the device, and one that fails at the data bits; the system calls of     *)
(* configurePort() may fail anywhere besides.                               *)
EXTENDS UartPort, TLC

CONSTANT a

MCDefault == [port |-> a, baud_rate |-> 9600, data_bits |-> 8,
              parity |-> "none", stop_bits |-> "1", flow_control |-> FALSE]

MCConfigs ==
  {[MCDefault EXCEPT !.data_bits = 7],
   [MCDefault EXCEPT !.data_bits = 9]}

MCInitial == [raw |-> FALSE, vmin |-> 1, speed |-> 9600, csize |-> 8,
              parenb |-> FALSE, parodd |-> FALSE, cstopb |-> FALSE,
              crtscts |-> FALSE]

Symmetry == Permutations(Threads)
=============================================================================
