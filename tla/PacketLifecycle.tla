--------------------------- MODULE PacketLifecycle ---------------------------
(***************************************************************************)
(* What the pool promises of every Packet object, without queues, clock or *)
(* radio: it has one owner, it moves between owners along the edges below, *)
(* and there is never more than one packet on the air or in onRecvPacket().*)
(***************************************************************************)
CONSTANT Packets

VARIABLE owner

Owners == {"pool", "subclass", "rxQueue", "current", "sendQueue", "outbound"}

(* The owners with room for a single packet. *)
Single == {"current", "outbound"}

Edges ==
  {<<"pool", "subclass">>,       \* obtainNewPacket()
   <<"pool", "rxQueue">>,        \* a flood frame that has to wait
   <<"pool", "current">>,        \* a frame processed at once
   <<"rxQueue", "current">>,     \* its delay is over
   <<"current", "pool">>,        \* ACTION_RELEASE
   <<"current", "subclass">>,    \* ACTION_MANUAL_HOLD
   <<"current", "sendQueue">>,   \* ACTION_RETRANSMIT
   <<"subclass", "pool">>,       \* releasePacket()
   <<"subclass", "sendQueue">>,  \* sendPacket()
   <<"sendQueue", "outbound">>,  \* startSendRaw() accepted
   <<"sendQueue", "pool">>,      \* startSendRaw() refused
   <<"outbound", "pool">>}       \* sent, or timed out

Init == owner = [p \in Packets |-> "pool"]

Move(p, to) ==
  /\ <<owner[p], to>> \in Edges
  /\ to \in Single => \A q \in Packets : owner[q] # to
  /\ owner' = [owner EXCEPT ![p] = to]

Next == \E p \in Packets, to \in Owners : Move(p, to)

Spec == Init /\ [][Next]_owner

=============================================================================
