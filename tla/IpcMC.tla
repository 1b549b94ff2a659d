-------------------------------- MODULE IpcMC --------------------------------
(* Small instances of Ipc for TLC. *)
EXTENDS Ipc, TLC

CONSTANTS c0, c1, t1, t2, p1, p2, p3

OneEach == t1 :> c0 @@ t2 :> c1
\* The opener makes no ioctls: the opens and closes are the synchronous requests.
AsyncOnC1 == c0 :> {} @@ c1 :> {p1, p2}
\* A game that keeps a core busy with more requests than there are buffers.
MoreThanBuffers == c0 :> {NoParam} @@ c1 :> {p1, p2, p3}
=============================================================================
