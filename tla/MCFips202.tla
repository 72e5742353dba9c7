-------------------------------- MODULE MCFips202 --------------------------------
(* The two parts of fips202.c, each on its own: the initial state picks the one     *)
(* that runs.                                                                       *)
EXTENDS SpongeInc, SpongeOneShot

CONSTANTS Parts, sep128, sep256, cstm

VARIABLE part

MCSepByte(rate, i) ==
    IF i = 1 THEN cstm ELSE IF rate = SHAKE128_RATE THEN sep128 ELSE sep256

MCInit ==
    /\ part \in Parts
    /\ Init /\ OneShotInit
    /\ part # "oneShot" => fn = "sha3_256" /\ inlen = 0
MCNext ==
    /\ UNCHANGED part
    /\ \/ part = "inc" /\ Next /\ UNCHANGED oneShotVars
       \/ part = "oneShot" /\ OneShotNext /\ UNCHANGED vars
MCSpec == MCInit /\ [][MCNext]_<<part, vars, oneShotVars>>
==================================================================================
