--------------------------- MODULE MCNotifications ---------------------------
(* Small instances of Notifications for TLC.                               *)
EXTENDS Notifications, TLC

\* The welcome and role handlers, and a dispatch to a guest as in the tests.
MCInputs ==
  {[channels |-> {"email", "inApp"}, known |-> TRUE],
   [channels |-> {"email", "inApp", "push"}, known |-> TRUE],
   [channels |-> {"sms", "whatsapp"}, known |-> TRUE],
   [channels |-> {"email", "inApp", "sms"}, known |-> FALSE]}

Symmetry == Permutations(Runners)
=============================================================================
