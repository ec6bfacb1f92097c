--------------------------- MODULE MCRemoteCapture ---------------------------
(***************************************************************************)
(* Data phases for RemoteCapture: none, one byte and two different bytes.  *)
(***************************************************************************)
EXTENDS RemoteCapture

MCDataPhases == {<<>>, <<"b">>, <<"a", "b">>}
=============================================================================
