---------------------------- MODULE MCArbitration ----------------------------
(***************************************************************************)
(* A small instance of Arbitration for model checking: two midplanes side  *)
(* by side in A, each with two nodes.  The initial states choose between   *)
(* two sets of requests.                                                   *)
(***************************************************************************)
EXTENDS Arbitration, TLC

VARIABLE scenario

Symmetry == Permutations(Jobs)

\* The block has one node in E of each midplane, although a whole midplane has two.
PairDims == {"A", "E"}
PairMax == [d \in PairDims |-> 2]
RowExtent == [d \in PairDims |-> IF d = "A" THEN 2 ELSE 1]
PairPlace == "m1" :> [d \in PairDims |-> 0] @@
             "m2" :> [d \in PairDims |-> IF d = "A" THEN 1 ELSE 0]

At(a, e) == [d \in PairDims |-> IF d = "A" THEN a ELSE e]

\* The first node of a midplane has a link; m1's second node is served through m2.
PairLink == [n \in Nodes |-> IF n[2] = At(0, 0) THEN n[1] ELSE None]
PairConnected == [n \in Nodes |-> IF n[2]["A"] = 0 THEN n[1] ELSE "m2"]

Full(np, ranks, stdin, strace) ==
    [sub |-> FALSE, coordinates |-> FALSE, mp |-> None, at |-> At(0, 0), shape |-> At(1, 1),
     core |-> None, np |-> np, ranks |-> ranks, stdin |-> stdin, strace |-> strace]

Sub(mp, at, shape, core) ==
    [Full(0, 1, 0, None) EXCEPT !.sub = TRUE, !.mp = mp, !.at = at, !.shape = shape,
                                !.core = core]

SubAt(at, shape, core) ==
    [Sub(None, at, shape, core) EXCEPT !.coordinates = TRUE]

\* Which resources are asked for: the block, a midplane, nodes by location and by
\* coordinates, cores of one node.
PlaceRequests ==
    {Full(0, 1, 0, None), Sub("m1", At(0, 0), At(2, 1), None), SubAt(At(2, 0), At(1, 1), None)}
    \cup {Sub("m1", At(1, 0), At(1, 1), c) : c \in {None, 0, 1}}

\* Which ranks are asked for, on corners and shapes that may not exist.
RankRequests ==
    {Full(np, r, i, s) : np \in {0, 4, 5, 8}, r \in {1, 2}, i \in {0, 4, 7}, s \in {None, 4}}
    \cup {[Sub("m1", At(a, 0), At(s, 1), None) EXCEPT !.np = np, !.stdin = i, !.strace = t] :
              a \in {0, 1, 2}, s \in {1, 2}, np \in {0, 1, 2}, i \in {0, 1}, t \in {None, 1}}
    \cup {[SubAt(At(a, e), At(1, s), None) EXCEPT !.np = np] :
              a \in {0, 2, 4}, e \in {0, 2}, s \in {1, 2}, np \in {0, 3}}

Places == INSTANCE Arbitration WITH Requests <- PlaceRequests
Ranks == INSTANCE Arbitration WITH Requests <- RankRequests

\* Bound on the submissions in the scenario about ranks.
MaxRankJobs == 2

MCInit == Init /\ scenario \in {"places", "ranks"}

MCNext ==
    /\ UNCHANGED scenario
    /\ \/ scenario = "places" /\ Places!Next
       \/ /\ scenario = "ranks"
          /\ Ranks!Next
          /\ Cardinality({j \in Jobs : phase'[j] # "new"}) <= MaxRankJobs

MCSpec == MCInit /\ [][MCNext]_<<vars, scenario>>

AllRequests == PlaceRequests \cup RankRequests
=============================================================================
