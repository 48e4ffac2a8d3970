-------------------------- MODULE MCIsoTpTransport --------------------------
(***************************************************************************)
(* One endpoint with scaled-down frames (2 data bytes instead of 7) under  *)
(* every frame a bus could deliver, well-formed or not.                    *)
(***************************************************************************)
EXTENDS IsoTpTransport

Zeros(n) == [i \in 1..n |-> 0]

Blocks1 == [idsValid |-> TRUE, maxPayload |-> 5, flowControlTimeout |-> 2,
            consecutiveFrameTimeout |-> 2, maxWaitFrames |-> 1, rxBlockSize |-> 1,
            rxStMin |-> 0]
NoBlocks == [Blocks1 EXCEPT !.maxWaitFrames = 0, !.rxBlockSize = 0, !.maxPayload = 4]
Broken   == [Blocks1 EXCEPT !.rxStMin = 128]

MCConfig  == {Blocks1, NoBlocks, Broken}
MCPayload == {Zeros(n) : n \in {0, 2, 5, 6}}

FC(fs, bs, st) == [type |-> "FC", short |-> FALSE, flowStatus |-> fs,
                   blockSize |-> bs, stMin |-> st]
FF(full, n)    == [type |-> "FF", full |-> full, len |-> n, data |-> Zeros(FfData)]
SF(n, k)       == [type |-> "SF", len |-> n, data |-> Zeros(k)]

MCFrame ==
  {[type |-> t] : t \in {"Foreign", "Malformed", "Reserved"}}
    \cup {SF(0, 2), SF(1, 2), SF(2, 2), SF(2, 1), SF(3, 2)}
    \cup {FF(TRUE, n) : n \in {2, 4, 5, 6, 7}} \cup {FF(FALSE, 4)}
    \cup {ConsecutiveFrame(n, Zeros(k)) : n \in 0..1, k \in 0..2}
    \cup {FC(0, bs, st) : bs \in 0..1, st \in {0, 2, 128}} \cup {FC(0, 1, 241)}
    \cup {FC(fs, 0, 0) : fs \in 1..3}
    \cup {[FC(0, 0, 0) EXCEPT !.short = TRUE]}
=============================================================================
