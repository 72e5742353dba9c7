-------------------------------- MODULE ShakeJob --------------------------------
(* What the accelerator promises to software, with no clock, buffer or address   *)
(* counter: the local memory holds a block; once started, the first lanes of its *)
(* hash replace the first lanes of the memory, in order and nothing else, and    *)
(* the job ends when as many lanes as were asked for are there.                  *)
EXTENDS Integers

CONSTANTS
    HashWord(_, _),     \* word w of the hash of a block
    LanesFor(_),        \* lanes delivered for a value of the length register
    MemWords            \* words of the memory

VARIABLES
    phase,              \* "idle", "busy" or "done"
    ram,                \* the local memory
    input,              \* the block, as it was when the job began
    delivered,          \* lanes of the hash in the memory
    length              \* the length register, constant during a job

jobVars == <<phase, ram, input, delivered, length>>

Init ==
    /\ phase = "idle"
    /\ delivered = 0
    /\ input = ram

Begin ==
    /\ phase = "idle"
    /\ phase' = "busy"
    /\ UNCHANGED <<ram, input, delivered, length>>

Deliver ==
    /\ phase = "busy"
    /\ delivered < LanesFor(length)
    /\ delivered' = delivered + 1
    /\ ram' = [w \in 0 .. MemWords - 1 |->
                 IF w \in {2 * delivered, 2 * delivered + 1}
                 THEN HashWord(w, input) ELSE ram[w]]
    /\ UNCHANGED <<phase, input, length>>

Finish ==
    /\ phase = "busy"
    /\ delivered = LanesFor(length)
    /\ phase' = "done"
    /\ UNCHANGED <<ram, input, delivered, length>>

Next == Begin \/ Deliver \/ Finish

Spec == Init /\ [][Next]_jobVars
FairSpec == Spec /\ WF_jobVars(Deliver \/ Finish)
=================================================================================
