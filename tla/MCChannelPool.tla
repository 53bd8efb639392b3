---------------------------- MODULE MCChannelPool ----------------------------
(* A pool of one or two keys, which edits list in every way, and two failing *)
(* requests.                                                                 *)
EXTENDS ChannelPool

CONSTANTS k1, k2, h1, h2

MCInitPools == {<<k1>>, <<k1, k2>>}
=============================================================================
