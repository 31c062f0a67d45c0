------------------------ MODULE MCNotificationOutbox ------------------------
(* Values for checking NotificationOutbox: deliveries are interchangeable. *)
EXTENDS NotificationOutbox, TLC

DeliverySymmetry == Permutations(Deliveries)
=============================================================================
