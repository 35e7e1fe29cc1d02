--------------------------- MODULE MCEventStream ---------------------------
(* Instances of EventStream for TLC. *)
EXTENDS EventStream

\* The second message is not text: the broadcast must skip it.
TextButSecond == {1, 3}
=============================================================================
