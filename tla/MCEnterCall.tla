---------------------------- MODULE MCEnterCall ----------------------------
(* A small instance of EnterCall. *)
EXTENDS EnterCall, TLC

MCModes == {<<<<"Poll">>, 0, 0>>, <<<<"Wait", 1>>, 0, 0>>,
            <<<<"Wait", INFINITE>>, 0, 0>>, <<<<"Drain", 2>>, 1, 0>>,
            <<<<"Drain", 2>>, 2, 0>>, <<<<"Drain", 3>>, 0, 0>>, <<<<"Poll">>, 0, 1>>}

MCSymmetry == Permutations(Calls) \cup Permutations(Credits)
=============================================================================
