------------------------------ MODULE MCTools ------------------------------
(* Tools on small instances.                                                *)
EXTENDS Tools

(* Which decoder is there only matters to the scan.                         *)
MCOptions ==
  {o \in [strict: BOOLEAN, summary: BOOLEAN, fallback: BOOLEAN,
          limit: {None, 0, 1}] : o.fallback => o.summary}

(* Every kind of frame, first and behind another.                           *)
MCFeeds ==
  {<<"known", "time", "known">>, <<"known", "unknown", "refused">>,
   <<"unknown", "poison", "known">>, <<"refused", "notjson", "known">>,
   <<"time", "poison">>}

(* Nothing, or a file nls-replay stops at.                                  *)
MCBefores ==
  {Absent, <<[content |-> "known", ts |-> 2], [content |-> "noraw", ts |-> 1]>>,
   <<[content |-> "unknown", ts |-> Huge]>>}
=============================================================================
