---------------------------- MODULE MCTelemetry ----------------------------
(***************************************************************************)
(* An instance of Telemetry for TLC, with the code's times in half seconds *)
(* and two Forges.                                                         *)
(***************************************************************************)
EXTENDS Telemetry

AllEvents == EventKinds
=============================================================================
