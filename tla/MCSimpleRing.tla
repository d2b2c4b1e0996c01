---------------------------- MODULE MCSimpleRing ----------------------------
(* Instances of SimpleRing for TLC. *)
EXTENDS SimpleRing

Call(coll, count) == [coll |-> coll, count |-> count]

\* One launch each: ranks without elements, one and two slices per chunk,
\* chunks of different lengths.
OneLaunch == {<<Call("all_reduce", 1)>>, <<Call("all_reduce", 5)>>,
              <<Call("all_gather", 3)>>, <<Call("reduce_scatter", 3)>>}

\* Three calls in a row, of the same or of different collectives.
RepeatedLaunches ==
    {<<Call(c1, n1), Call(c2, n2), Call(c3, 4)>> :
        c1 \in Collectives, c2 \in Collectives, c3 \in Collectives,
        n1 \in {1, 4}, n2 \in {2, 5}}

\* Two all-reduce calls whose chunks have two slices.
TwoAllReduces == {<<Call("all_reduce", 6), Call("all_reduce", 6)>>}
=============================================================================
