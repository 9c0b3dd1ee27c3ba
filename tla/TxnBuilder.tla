------------------------------ MODULE TxnBuilder ------------------------------
(***************************************************************************)
(* TransactionBuilder (fd_txn): the account table, the instructions and    *)
(* the two byte buffers it fills call by call, and the message that build  *)
(* makes of them.                                                          *)
(*                                                                         *)
(* add_instruction can fail half way, and what it did by then stays: its   *)
(* loop over the accounts is one step per account.  build only reads, so   *)
(* it is an operator on the state, and a property of the message is an     *)
(* invariant: it holds whenever build might be called.                     *)
(*                                                                         *)
(* Indices into the account table are counted from 1 here; indices on the  *)
(* wire from 0, as in the code.                                            *)
(***************************************************************************)
EXTENDS Integers, Sequences, FiniteSets, SequencesExt

CONSTANTS
  Keys,          \* public keys
  None,          \* no key
  Bytes,         \* what data is made of
  Instructions,  \* the instructions asked for
  AcctMax, InstrMax, SigMax,
  Mtu, SigSz, KeySz

Permissions == {"signer", "writable"}
Metas       == [pubkey: Keys, flags: SUBSET Permissions]

ASSUME TxnAssumption ==
  /\ AcctMax \in Nat /\ InstrMax \in Nat /\ SigMax \in Nat /\ Mtu \in Nat
  /\ SigSz \in Nat /\ KeySz \in Nat
  /\ None \notin Keys
ASSUME InstructionsAssumption ==
  \A ix \in Instructions :
    /\ DOMAIN ix = {"program_id", "accounts", "data"} /\ ix.program_id \in Keys
    /\ ix.accounts \in Seq(Metas) /\ ix.data \in Seq(Bytes)

VARIABLES
  acct_keys, acct_flags,   \* the account table
  instrs,
  acct_buf, data_buf,      \* instr_acct_buf, instr_data_buf
  fee_payer, blockhash, version,
  adding,                  \* the add_instruction under way
  (* history *)
  wanted,                  \* the instructions whose add_instruction succeeded
  asked,                   \* per key: the permissions successful calls asked for
  failed                   \* what the calls that failed returned, in order

table   == <<acct_keys, acct_flags>>
options == <<fee_payer, blockhash, version>>
buffers == <<instrs, acct_buf, data_buf>>
history == <<wanted, asked, failed>>
vars    == <<table, options, buffers, adding, history>>

BuildError == {"NoFeePayer", "NoBlockhash", "NoInstructions", "TooManyAccounts",
               "TooManyInstructions", "TooManySigners", "DataTooLarge",
               "TransactionTooLarge", "ValidationFailed"}
Failures   == BuildError \cup {"panic"}
InstrEntry == [program_idx: Nat, acct_off: Nat, acct_cnt: Nat, data_off: Nat, data_len: Nat]

\* No add_instruction is under way.
NoAdd == [ix |-> None, prog |-> 0, off |-> 0, at |-> 0]
Idle  == adding = NoAdd

-----------------------------------------------------------------------------
(* The account table.                                                      *)

Slots == 1..Len(acct_keys)

\* find_account.
Found(k) == \E i \in Slots : acct_keys[i] = k
Slot(k)  == IF Found(k) THEN CHOOSE i \in Slots : acct_keys[i] = k ELSE Len(acct_keys) + 1

MutHasRoom(k) == Found(k) \/ Len(acct_keys) <= AcctMax

HasRoom(k) == Found(k) \/ Len(acct_keys) < AcctMax

\* find_or_insert, and the flags that its caller sets.
Insert(k, fs) ==
  /\ acct_keys' = IF Found(k) THEN acct_keys ELSE Append(acct_keys, k)
  /\ acct_flags' = IF Found(k) THEN [acct_flags EXCEPT ![Slot(k)] = @ \cup fs]
                   ELSE Append(acct_flags, fs)

Grant(k, fs) == asked' = [asked EXCEPT ![k] = @ \cup fs]

-----------------------------------------------------------------------------
(* The short calls.                                                        *)

Version(v) ==
  /\ Idle
  /\ version' = v
  /\ UNCHANGED <<table, fee_payer, blockhash, buffers, adding, history>>

RecentBlockhash ==
  /\ Idle
  /\ blockhash' = TRUE
  /\ UNCHANGED <<table, fee_payer, version, buffers, adding, history>>

MutFeePayer(k) ==   \* a key that is in the table already keeps its flags
  /\ Idle /\ HasRoom(k)
  /\ Insert(k, IF Found(k) THEN {} ELSE {"signer", "writable"})
  /\ fee_payer' = k
  /\ Grant(k, {"signer", "writable"})
  /\ UNCHANGED <<blockhash, version, buffers, adding, wanted, failed>>

FeePayer(k) ==
  /\ Idle /\ HasRoom(k)
  /\ Insert(k, {"signer", "writable"})
  /\ fee_payer' = k
  /\ Grant(k, {"signer", "writable"})
  /\ UNCHANGED <<blockhash, version, buffers, adding, wanted, failed>>

\* The assertion in fee_payer: nothing has changed when it fails.
FeePayerPanics(k) ==
  /\ Idle /\ ~HasRoom(k)
  /\ failed' = Append(failed, "panic")
  /\ UNCHANGED <<table, options, buffers, adding, wanted, asked>>

Err(e) ==
  /\ failed' = Append(failed, e)
  /\ adding' = NoAdd
  /\ UNCHANGED <<options, wanted, asked>>

AddSigner(k) ==
  /\ Idle
  /\ \/ /\ HasRoom(k)
        /\ Insert(k, {"signer"}) /\ Grant(k, {"signer"})
        /\ UNCHANGED <<options, buffers, adding, wanted, failed>>
     \/ /\ ~HasRoom(k)
        /\ Err("TooManyAccounts")
        /\ UNCHANGED <<table, buffers>>

-----------------------------------------------------------------------------
(* add_instruction.                                                        *)

AddInstruction(ix) ==
  /\ Idle
  /\ \/ /\ Len(instrs) >= InstrMax
        /\ Err("TooManyInstructions")
        /\ UNCHANGED <<table, buffers>>
     \/ /\ Len(instrs) < InstrMax /\ ~HasRoom(ix.program_id)
        /\ Err("TooManyAccounts")
        /\ UNCHANGED <<table, buffers>>
     \/ /\ Len(instrs) < InstrMax /\ HasRoom(ix.program_id)
        /\ Insert(ix.program_id, {})
        /\ adding' = [ix |-> ix, prog |-> Slot(ix.program_id), off |-> Len(acct_buf), at |-> 0]
        /\ UNCHANGED <<options, buffers, history>>

Meta == adding.ix.accounts[adding.at + 1]

\* One turn of the loop over the accounts.
AddAccount ==
  /\ ~Idle /\ adding.at < Len(adding.ix.accounts)
  /\ \/ /\ ~HasRoom(Meta.pubkey)
        /\ Err("TooManyAccounts")
        /\ UNCHANGED <<table, buffers>>
     \/ /\ HasRoom(Meta.pubkey) /\ Len(acct_buf) >= Mtu
        /\ Insert(Meta.pubkey, Meta.flags)
        /\ Err("DataTooLarge")
        /\ UNCHANGED buffers
     \/ /\ HasRoom(Meta.pubkey) /\ Len(acct_buf) < Mtu
        /\ Insert(Meta.pubkey, Meta.flags)
        /\ acct_buf' = Append(acct_buf, Slot(Meta.pubkey))
        /\ adding' = [adding EXCEPT !.at = @ + 1]
        /\ UNCHANGED <<options, instrs, data_buf, history>>

\* What the metas of an instruction ask for key k.
FlagsIn(ix, k) == UNION {ix.accounts[j].flags :
                           j \in {i \in 1..Len(ix.accounts) : ix.accounts[i].pubkey = k}}

MutEntry ==   \* acct_off as if no failed call had left anything in the buffer
  LET last == instrs[Len(instrs)]
  IN [program_idx |-> adding.prog,
      acct_off |-> IF instrs = <<>> THEN 0 ELSE last.acct_off + last.acct_cnt,
      acct_cnt |-> Len(adding.ix.accounts),
      data_off |-> Len(data_buf), data_len |-> Len(adding.ix.data)]

Entry ==
  [program_idx |-> adding.prog, acct_off |-> adding.off, acct_cnt |-> Len(adding.ix.accounts),
   data_off |-> Len(data_buf), data_len |-> Len(adding.ix.data)]

\* The rest of the call, once all accounts are in.
AddData ==
  /\ ~Idle /\ adding.at = Len(adding.ix.accounts)
  /\ \/ /\ Len(data_buf) + Len(adding.ix.data) > Mtu
        /\ Err("DataTooLarge")
        /\ UNCHANGED <<table, buffers>>
     \/ /\ Len(data_buf) + Len(adding.ix.data) <= Mtu
        /\ data_buf' = data_buf \o adding.ix.data
        /\ instrs' = Append(instrs, Entry)
        /\ wanted' = Append(wanted, adding.ix)
        /\ asked' = [k \in Keys |-> asked[k] \cup FlagsIn(adding.ix, k)]
        /\ adding' = NoAdd
        /\ UNCHANGED <<table, options, acct_buf, failed>>

-----------------------------------------------------------------------------
Init ==
  /\ acct_keys = <<>> /\ acct_flags = <<>>
  /\ instrs = <<>> /\ acct_buf = <<>> /\ data_buf = <<>>
  /\ fee_payer = None /\ blockhash = FALSE /\ version = "Legacy"
  /\ adding = NoAdd
  /\ wanted = <<>> /\ asked = [k \in Keys |-> {}] /\ failed = <<>>

Next ==
  \/ \E v \in {"Legacy", "V0"} : Version(v)
  \/ RecentBlockhash
  \/ \E k \in Keys : FeePayer(k) \/ FeePayerPanics(k) \/ AddSigner(k)
  \/ \E ix \in Instructions : AddInstruction(ix)
  \/ AddAccount \/ AddData

Spec == Init /\ [][Next]_vars

-----------------------------------------------------------------------------
(* build.                                                                  *)

Signer(i)   == "signer" \in acct_flags[i]
Writable(i) == "writable" \in acct_flags[i]

MutSortKey(i) ==   \* writable accounts before signers
  IF Writable(i) THEN (IF Signer(i) THEN 0 ELSE 1) ELSE (IF Signer(i) THEN 2 ELSE 3)

\* acct_sort_key.
SortKey(i) == (IF Signer(i) THEN 0 ELSE 2) + (IF Writable(i) THEN 0 ELSE 1)

MutPrecedes(i, j) ==   \* the fee payer is sorted like any other account
  SortKey(i) < SortKey(j) \/ (SortKey(i) = SortKey(j) /\ i < j)

\* The order of build's sort: the fee payer, then by permissions, then by age.
Precedes(i, j) ==
  LET first(n) == n = Slot(fee_payer)
      age      == SortKey(i) < SortKey(j) \/ (SortKey(i) = SortKey(j) /\ i < j)
  IN IF first(i) # first(j) THEN first(i) ELSE age

\* The sorted table, as slots.
Sorted == [n \in Slots |-> CHOOSE i \in Slots : Cardinality({j \in Slots : Precedes(j, i)}) = n - 1]

MutRemap(i) == Sorted[i] - 1   \* filled the wrong way round

\* remap: the index on the wire of slot i.
Remap(i) == (CHOOSE n \in Slots : Sorted[n] = i) - 1

\* The header of the message.
SigCount         == Cardinality({i \in Slots : Signer(i)})
ReadonlySigned   == Cardinality({i \in Slots : Signer(i) /\ ~Writable(i)})
ReadonlyUnsigned == Cardinality({i \in Slots : ~Signer(i) /\ ~Writable(i)})

\* The message, with lengths left to Pieces.
Message ==
  [sigs |-> SigCount, roSigned |-> ReadonlySigned, roUnsigned |-> ReadonlyUnsigned,
   accounts |-> [n \in Slots |-> acct_keys[Sorted[n]]],
   instrs |-> [n \in 1..Len(instrs) |->
     [program  |-> Remap(instrs[n].program_idx),
      accounts |-> [j \in 1..instrs[n].acct_cnt |-> Remap(acct_buf[instrs[n].acct_off + j])],
      data     |-> SubSeq(data_buf, instrs[n].data_off + 1,
                          instrs[n].data_off + instrs[n].data_len)]]]

Cu16Len(v) == IF v < 128 THEN 1 ELSE IF v < 16384 THEN 2 ELSE 3

\* What is written, piece by piece: the room asked for and the room taken.
\* write_cu16 asks for three bytes whatever it writes.
Fixed(n) == [need |-> n, take |-> n]
Cu16(v)  == [need |-> 3, take |-> Cu16Len(v)]
OnlyV0(ps) == IF version = "V0" THEN ps ELSE <<>>

InstrPieces(e) ==
  <<Fixed(1), Cu16(e.acct_cnt), Fixed(e.acct_cnt), Cu16(e.data_len), Fixed(e.data_len)>>

Pieces ==
  <<Cu16(SigCount), Fixed(SigCount * SigSz)>> \o OnlyV0(<<Fixed(1)>>)
    \o <<Fixed(3), Cu16(Len(acct_keys))>>
    \o [n \in Slots |-> Fixed(KeySz)] \o <<Fixed(KeySz), Cu16(Len(instrs))>>
    \o FlattenSeq([n \in 1..Len(instrs) |-> InstrPieces(instrs[n])])
    \o OnlyV0(<<Cu16(0)>>)

\* The offset behind the first n pieces.
Offsets(ps) == LET off[n \in 0..Len(ps)] == IF n = 0 THEN 0 ELSE off[n - 1] + ps[n].take
               IN off
Size == Offsets(Pieces)[Len(Pieces)]

MutFits == Offsets(Pieces)[Len(Pieces) - 1] <= Mtu   \* the last piece is not counted

Fits == LET ps == Pieces
            off == Offsets(ps)
        IN \A n \in 1..Len(ps) : off[n - 1] + ps[n].need <= Mtu

\* fd_txn_parse_core of the C library, as far as the builder's messages can tell.
Accepts(m) ==
  /\ m.sigs \in 1..SigMax /\ m.sigs <= Len(m.accounts) /\ m.roSigned < m.sigs
  /\ m.sigs + m.roUnsigned <= Len(m.accounts)
  /\ \A n \in 1..Len(m.instrs) :
       /\ m.instrs[n].program \in 1..Len(m.accounts) - 1
       /\ \A j \in DOMAIN m.instrs[n].accounts :
            m.instrs[n].accounts[j] \in 0..Len(m.accounts) - 1

Validate(m) == IF Accepts(m) THEN "Ok" ELSE "ValidationFailed"

\* What build returns, "Ok" with Message.
Build ==
  CASE fee_payer = None                                -> "NoFeePayer"
    [] fee_payer # None /\ ~blockhash                  -> "NoBlockhash"
    [] fee_payer # None /\ blockhash /\ instrs = <<>>  -> "NoInstructions"
    [] OTHER -> IF SigCount \notin 1..SigMax THEN "TooManySigners"
                ELSE IF ~Fits THEN "TransactionTooLarge"
                ELSE Validate(Message)

Built == Idle /\ Build = "Ok"

-----------------------------------------------------------------------------
(* The message as Transaction shows it.                                    *)

IsSigner(m, n)   == n < m.sigs
IsWritable(m, n) == \/ n < m.sigs - m.roSigned
                    \/ m.sigs <= n /\ n < Len(m.accounts) - m.roUnsigned
FlagsAt(m, n)    == {f \in Permissions : IF f = "signer" THEN IsSigner(m, n) ELSE IsWritable(m, n)}

\* program_id_address, account_addresses and data of instruction n.
ProgramOf(m, n)  == m.accounts[m.instrs[n].program + 1]
AccountsOf(m, n) == [j \in DOMAIN m.instrs[n].accounts |-> m.accounts[m.instrs[n].accounts[j] + 1]]

-----------------------------------------------------------------------------
(* Properties.                                                             *)

\* Every variable has its type, and no buffer is larger than its array.
TypeOK ==
  /\ acct_keys \in Seq(Keys) /\ Len(acct_keys) <= AcctMax
  /\ acct_flags \in Seq(SUBSET Permissions) /\ Len(acct_flags) = Len(acct_keys)
  /\ instrs \in Seq(InstrEntry) /\ Len(instrs) <= InstrMax
  /\ acct_buf \in Seq(1..AcctMax) /\ Len(acct_buf) <= Mtu
  /\ data_buf \in Seq(Bytes) /\ Len(data_buf) <= Mtu
  /\ fee_payer \in Keys \cup {None} /\ blockhash \in BOOLEAN /\ version \in {"Legacy", "V0"}
  /\ adding = NoAdd \/ adding \in [ix: Instructions, prog: 1..AcctMax, off: 0..Mtu, at: Nat]
  /\ wanted \in Seq(Instructions) /\ asked \in [Keys -> SUBSET Permissions] /\ failed \in Seq(Failures)

\* The entries of the builder stand for the instructions that were added, one
\* for one and in order, through the account table and the buffer of indices:
\* what failed calls left in these is in nobody's way.
Recorded ==
  /\ Len(instrs) = Len(wanted)
  /\ \A n \in 1..Len(wanted) :
       LET e == instrs[n]
       IN /\ e.program_idx \in Slots /\ acct_keys[e.program_idx] = wanted[n].program_id
          /\ e.acct_cnt = Len(wanted[n].accounts)
          /\ e.acct_off + e.acct_cnt <= Len(acct_buf)
          /\ \A j \in 1..e.acct_cnt :
               LET i == acct_buf[e.acct_off + j]
               IN i \in Slots /\ acct_keys[i] = wanted[n].accounts[j].pubkey

\* Parsed again, a built transaction has the instructions that were added, with
\* the same programs, accounts and data.
RoundTrip ==
  Built => LET m == Message
           IN /\ Len(m.instrs) = Len(wanted)
              /\ \A n \in 1..Len(wanted) :
                   /\ ProgramOf(m, n) = wanted[n].program_id
                   /\ AccountsOf(m, n) = [j \in DOMAIN wanted[n].accounts |->
                                            wanted[n].accounts[j].pubkey]
                   /\ m.instrs[n].data = wanted[n].data

\* By its place in a built transaction an account has every permission that
\* was asked for it, and no other unless a failed call left it behind.
PermissionsKept ==
  Built => LET m == Message
           IN \A n \in 1..Len(m.accounts) :
                /\ asked[m.accounts[n]] \subseteq FlagsAt(m, n - 1)
                /\ failed = <<>> => FlagsAt(m, n - 1) = asked[m.accounts[n]]

\* The last fee payer set is the first account of a built transaction, whatever
\* the table holds before it.
FeePayerFirst == Built => Message.accounts[1] = fee_payer

\* The parser finds fault with what build wrote only when the fee payer is also
\* the program of an instruction.
ValidUnlessPayerRuns ==
  Idle /\ Build = "ValidationFailed" =>
    \E n \in 1..Len(wanted) : wanted[n].program_id = fee_payer

\* What is built fits into a packet; what is refused as too large would leave
\* less than the two bytes that write_cu16 may ask for in excess.
SizeHonest ==
  Idle => /\ Build = "Ok" => Size <= Mtu
          /\ Build = "TransactionTooLarge" => Size > Mtu - 2
=============================================================================
