--------------------------- MODULE MCTaskPolling ----------------------------
(* Two Suno tasks of one channel, and video tasks.                           *)
EXTENDS TaskPolling

CONSTANTS s1, s2, v1, v2

MCTasks == {s1, s2, v1}
MCVideos == {v1, v2}
=============================================================================
