---------------------------- MODULE MCTcpSession ----------------------------
(* Messages of one, two and three reads, the last in slab memory, and the   *)
(* configurations of the compressors, for TLC.                              *)
EXTENDS TcpSession

Shape(l, k) == [len |-> l, kind |-> k]

MCShapes == {Shape(3, "ask"), Shape(5, "ask"), Shape(8, "ask"), Shape(3, "skip"), Shape(8, "skip"),
             Shape(5, "zip"), Shape(3, "ex"), Shape(5, "bad"), Shape(8, "bad"),
             Shape(3, "alien")}
PlainShapes == {Shape(3, "ask"), Shape(5, "ask"), Shape(8, "ask"), Shape(3, "skip")}

MCConfigs == {{}, {"mp-flate"}, {"mp-snappy"}, {"mp-flate", "mp-snappy"}}
DefaultConfig == {{"mp-flate"}}
=============================================================================
