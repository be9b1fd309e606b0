--------------------------- MODULE MCSopasExchange ---------------------------
(* Two services, the API, the scanner thread, two commands, one of which has a *)
(* keyword of the scanner thread.                                              *)
EXTENDS SopasExchange

\* One mode for each property that depends on it.
SeveralModes == {{"losses"}, {"stream"}, {"errors", "losses"}, {"api"}}
ApiOnly == {{"api"}}
=============================================================================
