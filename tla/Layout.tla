------------------------------- MODULE Layout -------------------------------
(***************************************************************************)
(* How the interface of a program is written down: the accounts of an      *)
(* instruction with the access each needs, and the fields of an account,   *)
(* an event or an argument in the order of their bytes.                    *)
(***************************************************************************)
EXTENDS Naturals, Sequences, Functions

-----------------------------------------------------------------------------
(* An account of an instruction.                                           *)
reads(account) ==
  [account |-> account, writable |-> FALSE, signer |-> FALSE, optional |-> FALSE]

writes(account)    == [reads(account) EXCEPT !.writable = TRUE]
signs(account)     == [reads(account) EXCEPT !.signer = TRUE]
pays(account)      == [writes(account) EXCEPT !.signer = TRUE]
may_write(account) == [writes(account) EXCEPT !.optional = TRUE]

writable_accounts(instruction) ==
  {entry.account : entry \in {e \in Range(instruction) : e.writable}}

-----------------------------------------------------------------------------
(* A field: where it is found, how many bytes it takes, whether it is used.*)
leaf(name, size, used) == << [path |-> <<name>>, size |-> size, used |-> used] >>

u8(name)        == leaf(name, 1, TRUE)
u16(name)       == leaf(name, 2, TRUE)
u32(name)       == leaf(name, 4, TRUE)
u64(name)       == leaf(name, 8, TRUE)
u128(name)      == leaf(name, 16, TRUE)
pubkey(name)    == leaf(name, 32, TRUE)
pad(name, size) == leaf(name, size, FALSE)

struct(name, fields) ==
  [i \in DOMAIN fields |-> [fields[i] EXCEPT !.path = <<name>> \o @]]

many(name, count, fields) ==
  LET n == Len(fields)
  IN  [i \in 1 .. count * n |->
         LET field == fields[((i - 1) % n) + 1]
         IN  [field EXCEPT !.path = <<name, (i - 1) \div n>> \o @]]

(* In borsh an option starts with a tag, a list and a text with a length;  *)
(* the option is there, and list and text have one element.                *)
option(name, fields) == u8(name) \o struct(name, fields)
vec(name, fields)    == u32(name) \o many(name, 1, fields)
string(name)         == u32(name) \o struct(name, u8("bytes"))

(* The offset of each field and, last, the size of them all.               *)
offsets(fields) ==
  LET offset[i \in 1 .. Len(fields) + 1] ==
        IF i = 1 THEN 0 ELSE offset[i - 1] + fields[i - 1].size
  IN  offset

=============================================================================
