---------------------------- MODULE MCAsyncStream ----------------------------
(***************************************************************************)
(* Instances of AsyncStream for TLC: two transfers, one other thread that  *)
(* cancels, two streams, so that the second can meet what the first left.  *)
(***************************************************************************)
EXTENDS AsyncStream

\* Whatever may fail, libusb_cancel_transfer is prompt.
DeviceFaults == {"ERROR", "STALL", "NO_DEVICE", "SUBMIT"}

NoFaults == {}
=============================================================================
