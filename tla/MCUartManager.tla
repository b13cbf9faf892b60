---------------------------- MODULE MCUartManager ----------------------------
(* UartManager for TLC: the devices are interchangeable.                    *)
EXTENDS UartManager, TLC

Symmetry == Permutations(Ports)
=============================================================================
