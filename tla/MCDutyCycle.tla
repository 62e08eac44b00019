---------------------------- MODULE MCDutyCycle ----------------------------
(* Values for model checking DutyCycle: a default channel in band 1 and    *)
(* one channel the server may redefine, in band 0 at first.                *)
EXTENDS DutyCycle

MCHomeBand == [i \in Ids |-> IF i = 0 THEN 1 ELSE 0]
MCDCycle   == [b \in Bands |-> IF b = 0 THEN 3 ELSE 2]
MCNewChannels ==
  {Channel(0), [Channel(1) EXCEPT !.min = MaxDr, !.max = MaxDr]}
=============================================================================
