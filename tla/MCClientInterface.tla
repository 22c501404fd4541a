------------------------- MODULE MCClientInterface -------------------------
(***************************************************************************)
(* The whole interface: what the IDL and lib.rs have in common.            *)
(***************************************************************************)
EXTENDS ClientInterface

SharedCalls == DOMAIN instructions \cap DOMAIN handlers

SharedAccounts ==
  (DOMAIN accounts \cap DOMAIN account_structs) \cup (DOMAIN events \cap DOMAIN event_structs)

(* Two types the IDL gives another shape or another name.                  *)
SameAccounts == SharedAccounts \ {"virtualPool", "evtSwap"}

AllArguments == DOMAIN parameters

=============================================================================
