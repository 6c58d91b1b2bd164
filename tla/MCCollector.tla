----------------------------- MODULE MCCollector -----------------------------
(* Small programs, each with the kinds of objects that meet in one part of   *)
(* the collector.                                                            *)
EXTENDS Collector, TLC

CONSTANTS main, globals, t1, weakval, weakkey, u1, f1, v1, co, s1

MCObject == {main, globals, t1, weakval, weakkey, u1, f1, v1, co, s1}

MCKind ==
    [o \in {main, co} |-> "thread"] @@ [o \in {globals, t1, weakval, weakkey} |-> "table"] @@
    (u1 :> "userdata") @@ (f1 :> "closure") @@ (v1 :> "upval") @@ (s1 :> "string")

MCMode ==
    [o \in {globals, t1, weakval, weakkey} |->
        IF o = weakval THEN {"v"} ELSE IF o = weakkey THEN {"k"} ELSE {}]

World(uses, inmain) == [uses |-> uses, size |-> (main :> inmain) @@ (co :> 1)]

MCWorlds ==
    {World({weakval, u1}, 2), World({u1, t1}, 2), World({weakkey, s1}, 2),
     World({f1, v1, s1}, 2), World({f1, v1, co}, 1)}
=============================================================================
