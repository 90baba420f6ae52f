---------------------------- MODULE LinkContract ----------------------------
(***************************************************************************)
(* What the connection layer promises a ConnectionListener about the link, *)
(* as seen through its two calls: on_connection_lost, which is over at     *)
(* once, and on_connection_restored, which lasts while the listener        *)
(* re-establishes its state on the new link.                               *)
(***************************************************************************)
VARIABLE link   \* closed, up, down, restoring, or over (no longer running)

Init == link = "closed"

Open == link = "closed" /\ link' = "up"

\* on_connection_lost.
Lost == link = "up" /\ link' = "down"

\* on_connection_lost of a link that dropped again while it was being
\* restored, once on_connection_restored has returned.
LostAgain == link = "restoring" /\ link' = "down"

\* on_connection_restored is called.
BeginRestore == link = "down" /\ link' = "restoring"

\* on_connection_restored has returned.
Restored == link = "restoring" /\ link' = "up"

\* The client is closed, or reconnecting is given up.
GiveUp == link \in {"up", "down", "restoring"} /\ link' = "over"

Close == link = "over" /\ link' = "closed"

Next == Open \/ Lost \/ LostAgain \/ BeginRestore \/ Restored \/ GiveUp \/ Close

Spec == Init /\ [][Next]_link

\* A loss is followed by a restoration unless the client ends first, and
\* every restoration is concluded.
FairSpec == Spec /\ WF_link(BeginRestore) /\ WF_link(Restored \/ LostAgain)
=============================================================================
