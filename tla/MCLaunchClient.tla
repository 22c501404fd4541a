--------------------------- MODULE MCLaunchClient ---------------------------
(***************************************************************************)
(* Generated keys fall below and above those of the quote mints: 2 is an   *)
(* SPL token, 4 a Token-2022 token without, 6 one with an extension the    *)
(* program does not support.                                               *)
(***************************************************************************)
EXTENDS LaunchClient

CONSTANTS first, second, third, alice, bob

MCQuoteMints ==
     2 :> [program |-> TOKEN_PROGRAM_ID, supported |-> TRUE]
  @@ 4 :> [program |-> TOKEN_2022_PROGRAM_ID, supported |-> TRUE]
  @@ 6 :> [program |-> TOKEN_2022_PROGRAM_ID, supported |-> FALSE]

SplQuoteMint == 2 :> [program |-> TOKEN_PROGRAM_ID, supported |-> TRUE]

Interchangeable == Permutations(Calls) \cup Permutations(Payers)

=============================================================================
