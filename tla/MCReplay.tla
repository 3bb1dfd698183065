------------------------------ MODULE MCReplay ------------------------------
(* An instance of Replay for TLC: every file of at most three lines.        *)
EXTENDS Replay, SequencesExt

L(content, ts) == [content |-> content, ts |-> ts]

(* Three stamps, so that a line may lie before, at and after another.      *)
MCLines ==
  {L(content, ts) : content \in {"known", "time"}, ts \in {1, 2, 3, None}}
    \cup {L("garbage", 1), L("blank", None), L("refused", 2), L("noraw", 2),
          L("unknown", Huge), L("bytes", 1)}

MCFiles == BoundedSeq(MCLines, 3) \cup {Absent}
=============================================================================
