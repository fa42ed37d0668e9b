------------------------- MODULE MCStreamingSession -------------------------
(* The daily worker's session with a headset that lists an LDAC sink, alone
   or behind another codec's, beside an endpoint of one or two formats. *)
EXTENDS StreamingSession
MCSinkLists == {<<"other", "ldac">>}
=============================================================================
