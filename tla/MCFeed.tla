------------------------------- MODULE MCFeed -------------------------------
(***************************************************************************)
(* A small instance of TaskFeed for TLC: one task of two Clients.  What    *)
(* multiplies the states without concerning the page is cut while a page   *)
(* watches: the second key, unsure writes, a Client that cancels by itself *)
(* and c1 failing by itself (c2 does).  Without a page all of it happens,  *)
(* so that the Bot meets more results than its picture has room for.  One  *)
(* event at a time is in the queue; others wait to be published, in any    *)
(* order their locks allow.                                                *)
(***************************************************************************)
EXTENDS TaskFeed, TLC

CONSTANTS t1, c1, c2, x, y

BothTargets == t1 :> {c1, c2}

Plain ==
  /\ unsure = 0 /\ rows \subseteq {x}
  /\ \A c \in Clients : dbTarget[t1][c] = "canceled" => status = "canceled"
  /\ dbTarget[t1][c1] = "failed" => status = "failed" \/ process # "serving"
MCNext ==
  /\ FeedNext
  /\ page'.stage = "none" \/ Plain'
MCSpec == FeedInit /\ [][MCNext]_all /\ Fair
=============================================================================
