--------------------------- MODULE MessageStream ---------------------------
(***************************************************************************)
(* What a live transport promises its consumers, without tasks, sessions   *)
(* or retries (transport/base.py, Transport; transport/websocket.py).      *)
(*                                                                         *)
(* The transport is opened and closed; each life has three streams of its  *)
(* own.  While a life is open, frames are received one after the other and *)
(* each adds at most one item to each stream, numbered with the frame that *)
(* caused it; a stream may also be told that it is exhausted.  Closing     *)
(* ends all three streams for good.  Every item is taken once, in order.   *)
(***************************************************************************)
EXTENDS Naturals, Sequences

CONSTANTS Streams, Kinds, END, EXHAUSTED, Lives

VARIABLES
  open,      \* the current life is open
  life,      \* lives opened so far
  frames,    \* frames received so far
  log,       \* per life and stream: the items it got
  taken      \* per life and stream: how many of them were taken

vars == <<open, life, frames, log, taken>>

Numbered(n) == [kind: Kinds, frame: {n}]

Init ==
  /\ open = FALSE
  /\ life = 0
  /\ frames = 0
  /\ log = [l \in Lives |-> [s \in Streams |-> <<>>]]
  /\ taken = [l \in Lives |-> [s \in Streams |-> 0]]

Open ==
  /\ ~open
  /\ open' = TRUE
  /\ life' = life + 1
  /\ life' \in Lives
  /\ UNCHANGED <<frames, log, taken>>

(* The items a step adds to the streams of the open life. *)
Extend(new) ==
  /\ open
  /\ log' = [log EXCEPT ![life] = [s \in Streams |-> log[life][s] \o new[s]]]
  /\ UNCHANGED <<open, life, taken>>

(* One more frame: at most one new item per stream, with its number. *)
Receive ==
  /\ frames' = frames + 1
  /\ \E new \in [Streams -> {<<>>, <<EXHAUSTED>>}
                            \cup {<<item>> : item \in Numbered(frames')}] :
       Extend(new)

(* The transport gives up. *)
Exhaust ==
  /\ frames' = frames
  /\ Extend([s \in Streams |-> IF s = "messages" THEN <<EXHAUSTED>> ELSE <<>>])

Close ==
  /\ frames' = frames
  /\ open
  /\ open' = FALSE
  /\ log' = [log EXCEPT ![life] = [s \in Streams |-> Append(log[life][s], END)]]
  /\ UNCHANGED <<life, taken>>

Take(l, s) ==
  /\ taken[l][s] < Len(log[l][s])
  /\ taken' = [taken EXCEPT ![l][s] = @ + 1]
  /\ UNCHANGED <<open, life, frames, log>>

Next ==
  \/ Open
  \/ Receive
  \/ Exhaust
  \/ Close
  \/ \E l \in Lives, s \in Streams : Take(l, s)

Spec == Init /\ [][Next]_vars

=============================================================================
