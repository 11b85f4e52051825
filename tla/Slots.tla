------------------------------- MODULE Slots -------------------------------
(* The requests a process or several serve at a time.  Components that are  *)
(* reasoned about together serve them from the same slots.                  *)
CONSTANT Requests   \* slots for requests in flight
=============================================================================
