------------------------------- MODULE MCHub -------------------------------
(* Small instances of Hub for TLC. *)
EXTENDS Hub, TLC

CONSTANTS t1, t2, c1, c2, k1, k2, k3, p1, p2

OwnerEach   == k1 :> c1 @@ k2 :> c2
OwnerOne    == k1 :> c1 @@ k2 :> c1 @@ k3 :> c1
AllTargets  == [t \in Tasks |-> Clients]
FullPlan    == [t \in Tasks |-> Proxies]

OwnerOneTwo == k1 :> c1 @@ k2 :> c1
OwnerOneOne == k1 :> c1
ProxySymmetry == Permutations(Proxies)

\* Two Clients with a connection each are exchanged together with their
\* connections: OwnerEach, AllTargets and FullPlan stay as they are.
ClientSwap ==
  {[x \in {c1, c2, k1, k2} |-> x],
   c1 :> c2 @@ c2 :> c1 @@ k1 :> k2 @@ k2 :> k1}
EachSymmetry == {p @@ c : p \in ProxySymmetry, c \in ClientSwap}

\* Two connections of one Client are alike.
PairSymmetry == {p @@ k : p \in ProxySymmetry, k \in Permutations(Conns)}
=============================================================================
