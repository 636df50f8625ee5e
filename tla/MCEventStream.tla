--------------------------- MODULE MCEventStream ---------------------------
(***************************************************************************)
(* A small instance of EventStream.                                        *)
(***************************************************************************)
EXTENDS EventStream

CONSTANTS s1, s2, s3, e1

ThreeStreams == {s1, s2, s3}
OneEvent     == {e1}
=============================================================================
