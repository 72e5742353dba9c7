---------------------------- MODULE PermutationVectors ----------------------------
(* The generator of perm_in.txt and perm_ref_out.txt, the vectors of the hardware    *)
(* test bench (KeccakPermutationIntermediateValuesForVHDL), with the two other       *)
(* implementations of the permutation run on the same inputs.                        *)
EXTENDS KeccakF1600

CONSTANT num_tests      \* 10 in the code

VARIABLES
    A,          \* the generator's state
    step,       \* what is applied to it next
    round,      \* rounds since the vector's input: 24 to its output, 24 to the next
    test,       \* vectors completed
    perm_in, perm_ref_out,      \* the files, a state per vector
    sw,         \* keccakf1600.c: its lanes A before an even round, E before an odd one
    hw          \* the accelerator: the signal in front of the step

vars == <<A, step, round, test, perm_in, perm_ref_out, sw, hw>>

Steps == <<"theta", "rho", "pi", "chi", "iota">>
ZeroState == [l \in Lane |-> {}]

Init ==
    /\ A = ZeroState /\ sw = ZeroState /\ hw = ZeroState
    /\ step = 1 /\ round = 0 /\ test = 0
    /\ perm_in = <<ZeroState>> /\ perm_ref_out = <<>>

Apply(state, signal) ==
    /\ test < num_tests
    /\ A' = state
    /\ hw' = signal
    /\ step' = step + 1
    /\ UNCHANGED <<round, test, perm_in, perm_ref_out, sw>>

Theta == Steps[step] = "theta" /\ Apply(theta(A), theta_out(hw))
Rho == Steps[step] = "rho" /\ Apply(rho(A), rho_out(hw))
Pi == Steps[step] = "pi" /\ Apply(pi(A), pi_out(hw))
Chi == Steps[step] = "chi" /\ Apply(chi(A), chi_out(hw))

(* The last step of a round.  The end of a permutation writes the output it made,    *)
(* the end of the second one the next vector's input.                                *)
Iota ==
    /\ test < num_tests /\ Steps[step] = "iota"
    /\ A' = iota(A, round % nrRounds)
    /\ hw' = iota_out(hw, round % nrRounds)
    /\ sw' = UnrolledRound(sw, round % nrRounds)
    /\ step' = 1
    /\ round' = (round + 1) % (2 * nrRounds)
    /\ perm_ref_out' = IF round = nrRounds - 1 THEN Append(perm_ref_out, A')
                       ELSE perm_ref_out
    /\ test' = IF round = 2 * nrRounds - 1 THEN test + 1 ELSE test
    /\ perm_in' = IF round = 2 * nrRounds - 1 /\ test' < num_tests
                  THEN Append(perm_in, A') ELSE perm_in

Next == Theta \/ Rho \/ Pi \/ Chi \/ Iota
Spec == Init /\ [][Next]_vars
-----------------------------------------------------------------------------------
TypeOK ==
    /\ A \in State /\ sw \in State /\ hw \in State
    /\ step \in 1 .. 5
    /\ round \in 0 .. 2 * nrRounds - 1

(* The accelerator's signals are the reference's state, after every step.            *)
HardwareIsReference == hw = A

(* The unrolled software permutation is at the reference's state, after every round. *)
SoftwareIsReference == step = 1 => sw = A

(* The three views of a state as bytes are one: the reference's conversions in both  *)
(* directions, and the bytes keccakf1600.c extracts and xors into a state (looked at *)
(* once a round, after theta).                                                       *)
ByteOrder ==
    Steps[step] = "rho" =>
        /\ fromBytesToWords(fromWordsToBytes(A)) = A
        /\ StateExtractBytes(A, 0, 200) = fromWordsToBytes(A)
        /\ StateXORBytes(ZeroState, fromWordsToBytes(A), 0, 200) = A
===================================================================================
