-------------------------- MODULE ClientInterface --------------------------
(***************************************************************************)
(* Two things cross the line between the client and the program: the       *)
(* accounts a transaction names, which the program takes one after the     *)
(* other into the fields of its Accounts struct, and bytes, which one side *)
(* writes by its layout and the other reads by its own.  The client's side *)
(* is the IDL it ships (ProgramInterface), the program's the structs of    *)
(* this repository (ProgramLayouts).                                       *)
(*                                                                         *)
(* A call takes its accounts in steps.  An exchange of bytes is the change *)
(* of one field by the writer, and what the reader decodes before and      *)
(* after it.                                                               *)
(***************************************************************************)
EXTENDS ProgramInterface, ProgramLayouts

CONSTANTS
  Calls,        \* the instructions called
  Accounts,     \* the accounts and events the program writes
  Arguments     \* the arguments the client writes

VARIABLE exchange

Idle == [stage |-> "idle"]

InterfaceInit == exchange = Idle

-----------------------------------------------------------------------------
(* A transaction with one instruction of the client's IDL.                 *)
SendCall(name) ==
  /\ exchange.stage = "idle"
  /\ name \in DOMAIN handlers
  /\ exchange' = [stage |-> "call", instruction |-> name, taken |-> 0]

(* Anchor's try_accounts: the next account of the transaction is the next  *)
(* field of the struct, if it is there and has the access the field needs. *)
fits(field, meta) ==
  /\ field.writable => meta.writable
  /\ field.signer => meta.signer
  /\ meta.optional => field.optional

TakeAccount ==
  LET metas  == instructions[exchange.instruction]
      fields == handlers[exchange.instruction]
      next   == exchange.taken + 1
  IN  /\ exchange.stage = "call"
      /\ next <= Len(fields)
      /\ exchange' =
           IF next <= Len(metas) /\ fits(fields[next], metas[next])
           THEN [exchange EXCEPT !.taken = next]
           ELSE [exchange EXCEPT !.stage = "refused"]

RunHandler ==
  /\ exchange.stage = "call"
  /\ exchange.taken = Len(handlers[exchange.instruction])
  /\ exchange' = Idle

-----------------------------------------------------------------------------
(* The fields of one layout that share bytes with the i-th of another.     *)
fields_over(layout, written, i) ==
  LET from == offsets(written)[i]
      to   == from + written[i].size
      at   == offsets(layout)
  IN  {layout[j] : j \in {k \in DOMAIN layout : at[k] < to /\ from < at[k + 1]}}

(* The writer changes a field it uses and the reader decodes.              *)
Write(type, written, layout) ==
  \E i \in DOMAIN written :
    /\ exchange.stage = "idle"
    /\ written[i].used
    /\ exchange' = [stage |-> "read", type |-> type, field |-> written[i].path,
                    changed |-> {f.path : f \in {g \in fields_over(layout, written, i) : g.used}}]

program_structs(type) ==
  IF type \in DOMAIN account_structs THEN account_structs[type] ELSE event_structs[type]

client_types(type) == IF type \in DOMAIN accounts THEN accounts[type] ELSE events[type]

ProgramWrites(type) == Write(type, program_structs(type), client_types(type))
ClientWrites(type)  == Write(type, parameters[type], argument_structs[type])

Done == exchange.stage \in {"read", "refused"} /\ exchange' = Idle

InterfaceNext ==
  \/ \E name \in Calls : SendCall(name)
  \/ TakeAccount
  \/ RunHandler
  \/ \E type \in Accounts : ProgramWrites(type)
  \/ \E type \in Arguments : ClientWrites(type)
  \/ Done

InterfaceSpec == InterfaceInit /\ [][InterfaceNext]_exchange

-----------------------------------------------------------------------------
(* A client can call what its IDL lists: the program takes every account   *)
(* the IDL puts in a transaction into the field meant for it, with the     *)
(* access it needs.  The two lists are written in two places, and an       *)
(* account that moved by one shifts all that follow.                       *)
CallsAreTaken ==
  /\ exchange.stage # "refused"
  /\ exchange.stage = "call" =>
       \A i \in 1 .. exchange.taken :
         instructions[exchange.instruction][i].account = handlers[exchange.instruction][i].account

(* A field of the writer is the reader's field of the same name and no     *)
(* other; what the reader does not know falls into its padding.            *)
FieldsArrive ==
  exchange.stage = "read" =>
    LET known == IF exchange.type \in Arguments THEN argument_structs[exchange.type]
                 ELSE client_types(exchange.type)
    IN  exchange.changed = {exchange.field} \cap {f.path : f \in Range(known)}

(* An account the program has written is the account the client decodes:   *)
(* fetcher.ts, "Fetches the virtual pool account data directly from the    *)
(* connection ... @returns The decoded pool state".                        *)
PoolDecodes ==
  exchange.stage = "read" /\ exchange.type = "virtualPool" => exchange.changed \subseteq {exchange.field}

(* ix_claim_protocol_fee.rs: "Withdraw protocol fees. Permissionless.":    *)
(* nobody in particular has to sign a claim of the protocol's fees.        *)
ProtocolFeesPermissionless ==
  exchange.stage = "call" /\ exchange.instruction = "claimProtocolFee" =>
    \A i \in 1 .. exchange.taken : ~handlers[exchange.instruction][i].signer

=============================================================================
