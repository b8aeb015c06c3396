--------------------- MODULE MCRequestMessageCoordinator ---------------------
(* Small instances of RequestMessageCoordinator for TLC.                   *)
EXTENDS RequestMessageCoordinator

(* Each requester asks for a message of its own.                           *)
CONSTANTS gimbal, camera, m1, m2
Owners == {gimbal, camera}
Msgs == {m1, m2}
SomeAsks == {<<gimbal, m1>>, <<camera, m2>>}

(* One requester that asks for two messages.                               *)
OneOwner == {gimbal}
BothAsks == {<<gimbal, m1>>, <<gimbal, m2>>}
=============================================================================
