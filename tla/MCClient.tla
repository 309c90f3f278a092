------------------------------ MODULE MCClient ------------------------------
(* Small instances of ClientWorker for TLC. *)
EXTENDS ClientWorker, TLC

CONSTANTS t1, t2, t3

TaskSymmetry == Permutations(Tasks)

(* Enough units to fill the queue while the reader holds one more, without *)
(* what else multiplies the states.  Tasks are named in the order of their *)
(* units.  A task ends only while its unit is leased on the first          *)
(* connection, one cancel at a time.  The third unit is sent to a Client   *)
(* that may not know yet that both tasks before have ended; the second on  *)
(* the second connection is of the first task again.  Only Assign and      *)
(* EndTask are cut, which no fairness forces.                              *)
Named(n) == CASE n = 1 -> {t1} [] n = 2 -> {t1, t2} [] OTHER -> Tasks
SentHere ==
  /\ lease' \in Named(sent')
  /\ sent = 2 => over = {t1, t2} /\ conn = 1
  /\ sent = 1 /\ conn = 2 => lease' = t1
EndedHere == over' = over \cup {lease} /\ conn = 1 /\ notify = {}
FewerNext ==
  /\ Next
  /\ sent' > sent => SentHere
  /\ over' # over => EndedHere
FewerSpec == Init /\ [][FewerNext]_vars /\ Fairness
=============================================================================
