------------------------------- MODULE MCReference -------------------------------
(* The permutations, the reference sponge, the duplex object and the generator of  *)
(* the known answers, each on its own: the initial state picks the one that runs.  *)
EXTENDS PermutationVectors, RefSponge, RefDuplex, GenKat

VARIABLE part

MCHashRates == [h \in {0, 6} |-> IF h = 0 THEN 9 ELSE 6]

MCHashBitLens == <<224, 256, 384, 512>>
MCMDBytes(h) == CASE h = 224 -> 1 [] h = 256 -> 2 [] h = 384 -> 3 [] OTHER -> 4
MCDuplexRhoMax(rateOfFile) == rateOfFile - 1023
MCUnaligned(inBits, value) == value >= 2^(inBits % 8)

(* Input files that end anywhere: in the header, after a record or within one.     *)
Token(marker, value) == [marker |-> marker, value |-> value]
HeaderTokens == <<Token("# Algorithm Name:", 0), Token("# Principal Submitter:", 0)>>
MessageTokens ==
    <<Token("Len = ", 0), Token("Msg = ", 0), Token("Len = ", 5), Token("Msg = ", 1),
      Token("Len = ", 8), Token("Msg = ", 2)>>

(* The second input is refused, by one object as its first: the input before is too  *)
(* long for its rate.                                                                *)
DuplexTokens ==
    <<Token("InLen = ", 4), Token("In = ", 1), Token("InLen = ", 2), Token("In = ", 9),
      Token("InLen = ", 0), Token("In = ", 0), Token("InLen = ", 3), Token("In = ", 2)>>
CutAt(tokens, lengths) == {SubSeq(tokens, 1, n) : n \in lengths}
MCInputs ==
    [f \in {"ShortMsgKAT", "LongMsgKAT", "MonteCarlo", "DuplexKAT"} |->
      CASE f = "ShortMsgKAT" -> CutAt(HeaderTokens \o MessageTokens, {1, 4, 7, 8})
        [] f = "LongMsgKAT" -> CutAt(HeaderTokens \o MessageTokens, {0, 3, 6})
        [] f = "MonteCarlo" -> CutAt(HeaderTokens \o <<Token("Seed = ", 7)>>, {1, 2, 3})
        [] OTHER -> CutAt(DuplexTokens, {0, 3, 5, 8})]

MCInit ==
    /\ part \in {"permutation", "sponge", "duplex", "kat"}
    /\ Init /\ RefInit /\ DuplexInit /\ KatInit
    /\ part # "sponge" => rate = 9
    /\ part # "duplex" => r = 2
    /\ part # "kat" => \A f \in DOMAIN file : Len(file[f]) <= 1
MCNext ==
    /\ UNCHANGED part
    /\ \/ part = "permutation" /\ Next /\ UNCHANGED <<refVars, duplexVars, katVars>>
       \/ part = "sponge" /\ RefNext /\ UNCHANGED <<vars, duplexVars, katVars>>
       \/ part = "duplex" /\ DuplexNext /\ UNCHANGED <<vars, refVars, katVars>>
       \/ part = "kat" /\ KatNext /\ UNCHANGED <<vars, refVars, duplexVars>>
MCSpec == MCInit /\ [][MCNext]_<<part, vars, refVars, duplexVars, katVars>>
---------------------------------------------------------------------------------
(* The first lane of every vector of the repository's new_test_vector/perm_in.txt    *)
(* and perm_ref_out.txt, each word as four numbers of 16 bits.                       *)
Word(v) == {b \in Bits : (v[4 - (b \div 16)] \div 2^(b % 16)) % 2 = 1}

RecordedIn == <<
    <<0, 0, 0, 0>>, <<\h2D5C, \h954D, \hF96E, \hCB3C>>,
    <<\h3A7C, \h2A5F, \h40A6, \hEB2E>>, <<\h971C, \hECC1, \h0266, \hB10E>>,
    <<\hE409, \hBECC, \h15D4, \h110A>>, <<\h9EF9, \hCEE5, \hAB0E, \h88B2>>,
    <<\hA5EE, \h0EFC, \hD6E5, \h960B>>, <<\hAEC1, \hEF2A, \hB2FF, \h5307>>,
    <<\h29C6, \hAA2E, \h2897, \h2E27>>, <<\h4578, \h16CD, \hFB26, \h2AD3>> >>
RecordedOut == <<
    <<\hF125, \h8F79, \h40E1, \hDDE7>>, <<\h55EA, \hBB80, \h767D, \h3646>>,
    <<\hC9F3, \h09FF, \h271C, \h6631>>, <<\h96FD, \h5DCE, \h98F2, \h4747>>,
    <<\hD1AE, \hD9E3, \h149C, \hF176>>, <<\h363D, \hA528, \h8AFC, \h1516>>,
    <<\h27E9, \hA9A1, \h5C81, \hE5A6>>, <<\h003F, \hA040, \h7904, \h3F62>>,
    <<\h9F44, \hA609, \h3C52, \h82B1>>, <<\h1E07, \hCE35, \hB8F9, \h764B>> >>

(* The generator writes the vectors that are kept in the repository: as many inputs  *)
(* as outputs, in their order, with the lanes recorded there.                        *)
RecordedVectors ==
    /\ Len(perm_ref_out) \in {Len(perm_in) - 1, Len(perm_in)}
    /\ test = num_tests => Len(perm_ref_out) = num_tests
    /\ \A n \in 1 .. Len(perm_in) : perm_in[n][0] = Word(RecordedIn[n])
    /\ \A n \in 1 .. Len(perm_ref_out) : perm_ref_out[n][0] = Word(RecordedOut[n])
=================================================================================
