----------------------- MODULE MCLiveTransportHistory -----------------------
(* LiveTransportHistory on the instances of MCLiveTransport.               *)
EXTENDS MCLiveTransport, LiveTransportHistory
=============================================================================
