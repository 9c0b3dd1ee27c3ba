--------------------------- MODULE TxnBuilderProofs ---------------------------
(***************************************************************************)
(* The transaction builder, for every table size, packet size and set of   *)
(* instructions: its entries stand for the instructions whose              *)
(* add_instruction succeeded (Inv), its account table has distinct keys,   *)
(* the fee payer with its permissions and for every key the flags asked    *)
(* for it (TableInv), and build's sort puts each slot at one place (the    *)
(* number of slots that precede it).  From these the message: the fee      *)
(* payer is first, the header's counts give each account its permissions,  *)
(* what is parsed again is what was added, and the parser has nothing to   *)
(* object to unless the fee payer is a program.                            *)
(***************************************************************************)
EXTENDS TxnBuilder, SequenceTheorems, FiniteSetTheorems, TLAPS

\* The call under way: its program and the accounts it has been through are in
\* the table, and the indices it wrote are the end of the buffer.
UnderWay ==
  ~Idle => /\ adding.ix \in Instructions
           /\ adding.prog \in Slots /\ acct_keys[adding.prog] = adding.ix.program_id
           /\ adding.at \in 0..Len(adding.ix.accounts)
           /\ Len(instrs) < InstrMax
           /\ adding.off + adding.at = Len(acct_buf)
           /\ \A j \in 1..adding.at :
                LET i == acct_buf[adding.off + j]
                IN i \in Slots /\ acct_keys[i] = adding.ix.accounts[j].pubkey

Inv == TypeOK /\ Recorded /\ UnderWay

\* find_or_insert keeps the table's type, leaves every slot it has with its
\* key, and puts the key at the slot it returns.
LEMMA InsertKeeps ==
  ASSUME TypeOK, NEW k \in Keys, NEW fs \in SUBSET Permissions, HasRoom(k), Insert(k, fs)
  PROVE  /\ acct_keys' \in Seq(Keys) /\ Len(acct_keys') <= AcctMax
         /\ acct_flags' \in Seq(SUBSET Permissions) /\ Len(acct_flags') = Len(acct_keys')
         /\ Slot(k) \in Slots' /\ acct_keys'[Slot(k)] = k
         /\ \A i \in Slots : i \in Slots' /\ acct_keys'[i] = acct_keys[i]
  <1>1. CASE Found(k)
    <2>1. Slot(k) \in Slots /\ acct_keys[Slot(k)] = k
      BY <1>1 DEF Slot, Found
    <2>2. acct_flags' = [acct_flags EXCEPT ![Slot(k)] = @ \cup fs] /\ acct_keys' = acct_keys
      BY <1>1 DEF Insert
    <2>3. acct_flags[Slot(k)] \cup fs \in SUBSET Permissions
      BY <2>1 DEF TypeOK, Slots
    <2>4. acct_flags' \in Seq(SUBSET Permissions) /\ Len(acct_flags') = Len(acct_flags)
      BY <2>1, <2>2, <2>3, ExceptSeq DEF TypeOK, Slots
    <2> QED BY <2>1, <2>2, <2>4 DEF TypeOK, Slots
  <1>2. CASE ~Found(k)
    <2>1. Slot(k) = Len(acct_keys) + 1
      BY <1>2 DEF Slot
    <2>2. acct_flags' = Append(acct_flags, fs) /\ acct_keys' = Append(acct_keys, k)
      BY <1>2 DEF Insert
    <2>3. Len(acct_keys) < AcctMax
      BY <1>2 DEF HasRoom
    <2>4. acct_flags' \in Seq(SUBSET Permissions) /\ Len(acct_flags') = Len(acct_flags) + 1
      BY <2>2, AppendProperties DEF TypeOK
    <2>5. /\ acct_keys' \in Seq(Keys) /\ Len(acct_keys') = Len(acct_keys) + 1
          /\ acct_keys'[Len(acct_keys) + 1] = k
          /\ \A i \in Slots : acct_keys'[i] = acct_keys[i]
      BY <2>2, AppendProperties DEF TypeOK, Slots
    <2>6. Len(acct_keys) \in Nat
      BY DEF TypeOK
    <2> QED BY <2>1, <2>3, <2>4, <2>5, <2>6, TxnAssumption DEF TypeOK, Slots
  <1> QED BY <1>1, <1>2

\* An index into a stretch of the buffer is an index into the buffer.
LEMMA InStretch ==
  ASSUME NEW lo \in Nat, NEW cnt \in Nat, NEW len \in Nat, lo + cnt <= len, NEW j \in 1..cnt
  PROVE  lo + j \in 1..len
  OBVIOUS

\* What holds of the entries survives every step that only adds to the table
\* and to the buffer of indices.
LEMMA RecordedSurvives ==
  ASSUME Recorded, acct_buf \in Seq(1..AcctMax), acct_buf' \in Seq(1..AcctMax),
         instrs \in Seq(InstrEntry), UNCHANGED <<instrs, wanted>>,
         \A i \in Slots : i \in Slots' /\ acct_keys'[i] = acct_keys[i],
         Len(acct_buf) <= Len(acct_buf'),
         \A j \in 1..Len(acct_buf) : acct_buf'[j] = acct_buf[j]
  PROVE  Recorded'
  <1>1. SUFFICES ASSUME NEW n \in 1..Len(wanted)
                 PROVE  /\ instrs[n].program_idx \in Slots'
                        /\ acct_keys'[instrs[n].program_idx] = wanted[n].program_id
                        /\ instrs[n].acct_cnt = Len(wanted[n].accounts)
                        /\ instrs[n].acct_off + instrs[n].acct_cnt <= Len(acct_buf')
                        /\ \A j \in 1..instrs[n].acct_cnt :
                             /\ acct_buf'[instrs[n].acct_off + j] \in Slots'
                             /\ acct_keys'[acct_buf'[instrs[n].acct_off + j]]
                                  = wanted[n].accounts[j].pubkey
    BY DEF Recorded
  <1>2. n \in 1..Len(instrs) /\ instrs[n] \in InstrEntry
    BY DEF Recorded
  <1>3. instrs[n].acct_off \in Nat /\ instrs[n].acct_cnt \in Nat
    BY <1>2 DEF InstrEntry
  <1>4. /\ instrs[n].program_idx \in Slots
        /\ acct_keys[instrs[n].program_idx] = wanted[n].program_id
        /\ instrs[n].acct_cnt = Len(wanted[n].accounts)
        /\ instrs[n].acct_off + instrs[n].acct_cnt <= Len(acct_buf)
    BY DEF Recorded
  <1>5. ASSUME NEW j \in 1..instrs[n].acct_cnt
        PROVE  /\ acct_buf'[instrs[n].acct_off + j] \in Slots'
               /\ acct_keys'[acct_buf'[instrs[n].acct_off + j]] = wanted[n].accounts[j].pubkey
    <2>1. acct_buf[instrs[n].acct_off + j] \in Slots
          /\ acct_keys[acct_buf[instrs[n].acct_off + j]] = wanted[n].accounts[j].pubkey
      BY <1>5 DEF Recorded
    <2>2. Len(acct_buf) \in Nat
      BY LenProperties
    <2>3. instrs[n].acct_off + j \in 1..Len(acct_buf)
      BY <1>3, <1>4, <1>5, <2>2, InStretch
    <2> QED BY <2>1, <2>3
  <1>6. Len(acct_buf) \in Nat /\ Len(acct_buf') \in Nat
    BY LenProperties
  <1>7. instrs[n].acct_off + instrs[n].acct_cnt <= Len(acct_buf')
    BY <1>3, <1>4, <1>6
  <1>8. /\ instrs[n].program_idx \in Slots'
        /\ acct_keys'[instrs[n].program_idx] = wanted[n].program_id
    BY <1>4
  <1> QED BY <1>4, <1>5, <1>7, <1>8

\* The calls that finish in one step.
LEMMA ShortCalls ==
  ASSUME Inv,
         \/ \E v \in {"Legacy", "V0"} : Version(v)
         \/ RecentBlockhash
         \/ \E k \in Keys : FeePayer(k) \/ FeePayerPanics(k) \/ AddSigner(k)
  PROVE  Inv'
  <1> USE DEF Inv
  <1>1. ASSUME NEW v \in {"Legacy", "V0"}, Version(v) PROVE Inv'
    BY <1>1 DEF Version, table, buffers, history, TypeOK, Recorded, UnderWay, Idle, Slots
  <1>2. CASE RecentBlockhash
    BY <1>2 DEF RecentBlockhash, table, buffers, history, TypeOK, Recorded, UnderWay, Idle, Slots
  <1>3. ASSUME NEW k \in Keys, NEW fs \in SUBSET Permissions, HasRoom(k), Insert(k, fs),
               Grant(k, fs), Idle, UNCHANGED <<buffers, adding, wanted, failed, blockhash, version>>,
               fee_payer' \in Keys \cup {None}
        PROVE  Inv'
    <2>1. UNCHANGED <<instrs, acct_buf, data_buf, adding, wanted, failed, blockhash, version>>
      BY <1>3 DEF buffers
    <2>2. /\ acct_keys' \in Seq(Keys) /\ Len(acct_keys') <= AcctMax
          /\ acct_flags' \in Seq(SUBSET Permissions) /\ Len(acct_flags') = Len(acct_keys')
          /\ \A i \in Slots : i \in Slots' /\ acct_keys'[i] = acct_keys[i]
      BY <1>3, InsertKeeps
    <2>3. asked' \in [Keys -> SUBSET Permissions]
      BY <1>3 DEF Grant, TypeOK
    <2>4. TypeOK'
      BY <1>3, <2>1, <2>2, <2>3 DEF TypeOK
    <2>5. Recorded'
      BY <2>1, <2>2, RecordedSurvives DEF TypeOK
    <2>6. UnderWay'
      BY <1>3, <2>1 DEF UnderWay, Idle
    <2> QED BY <2>4, <2>5, <2>6
  <1>4. ASSUME NEW k \in Keys, FeePayer(k) PROVE Inv'
    BY <1>3, <1>4 DEF FeePayer, Permissions
  <1>5. ASSUME NEW e \in Failures, failed' = Append(failed, e), Idle, Idle',
               UNCHANGED <<table, options, buffers, wanted, asked>>
        PROVE  Inv'
    <2>1. failed' \in Seq(Failures)
      BY <1>5, AppendProperties DEF TypeOK
    <2>2. UNCHANGED <<acct_keys, acct_flags, instrs, acct_buf, data_buf, fee_payer, blockhash,
                      version, adding, wanted, asked>>
      BY <1>5 DEF table, options, buffers, Idle
    <2> QED BY <1>5, <2>1, <2>2 DEF TypeOK, Recorded, UnderWay, Slots
  <1>6. ASSUME NEW k \in Keys, FeePayerPanics(k) PROVE Inv'
    BY <1>5, <1>6 DEF FeePayerPanics, Failures, Idle
  <1>7. ASSUME NEW k \in Keys, AddSigner(k) PROVE Inv'
    <2>1. CASE HasRoom(k)
      BY <1>3, <1>7, <2>1 DEF AddSigner, Permissions, options, TypeOK
    <2>2. CASE ~HasRoom(k)
      BY <1>5, <1>7, <2>2 DEF AddSigner, Err, Failures, BuildError, Idle
    <2> QED BY <2>1, <2>2
  <1> QED BY <1>1, <1>2, <1>4, <1>6, <1>7

\* What an instruction has.
LEMMA InstructionTypes ==
  ASSUME NEW ix \in Instructions
  PROVE  /\ ix.program_id \in Keys
         /\ ix.accounts \in Seq(Metas) /\ Len(ix.accounts) \in Nat
         /\ ix.data \in Seq(Bytes) /\ Len(ix.data) \in Nat
         /\ \A j \in 1..Len(ix.accounts) :
              ix.accounts[j].pubkey \in Keys /\ ix.accounts[j].flags \in SUBSET Permissions
  <1>1. /\ ix.program_id \in Keys
        /\ ix.accounts \in Seq(Metas) /\ ix.data \in Seq(Bytes)
    BY InstructionsAssumption
  <1>2. \A j \in 1..Len(ix.accounts) : ix.accounts[j] \in Metas
    BY <1>1, ElementOfSeq
  <1> QED BY <1>1, <1>2, LenProperties DEF Metas

\* A failed call leaves what it has inserted, and no call under way.
LEMMA Failing ==
  ASSUME Inv, NEW e \in Failures, Err(e), UNCHANGED buffers,
         acct_keys' \in Seq(Keys), Len(acct_keys') <= AcctMax,
         acct_flags' \in Seq(SUBSET Permissions), Len(acct_flags') = Len(acct_keys'),
         \A i \in Slots : i \in Slots' /\ acct_keys'[i] = acct_keys[i]
  PROVE  Inv'
  <1>1. UNCHANGED <<instrs, acct_buf, data_buf, fee_payer, blockhash, version, wanted, asked>>
        /\ adding' = NoAdd /\ failed' = Append(failed, e)
    BY DEF Err, buffers, options
  <1>2. failed' \in Seq(Failures)
    BY <1>1, AppendProperties DEF Inv, TypeOK
  <1>3. TypeOK'
    BY <1>1, <1>2 DEF Inv, TypeOK
  <1>4. Recorded'
    BY <1>1, RecordedSurvives DEF Inv, TypeOK
  <1>5. UnderWay'
    BY <1>1 DEF UnderWay, Idle
  <1> QED BY <1>3, <1>4, <1>5 DEF Inv

LEMMA AddInstructionKeeps ==
  ASSUME Inv, NEW ix \in Instructions, AddInstruction(ix)
  PROVE  Inv'
  <1> USE InstructionTypes
  <1>1. ASSUME NEW e \in Failures, Err(e), UNCHANGED <<table, buffers>>
        PROVE  Inv'
    <2>1. UNCHANGED <<acct_keys, acct_flags, buffers>>
      BY <1>1 DEF table
    <2> QED BY <1>1, <2>1, Failing DEF Inv, TypeOK, Slots
  <1>2. CASE \/ Len(instrs) >= InstrMax
             \/ Len(instrs) < InstrMax /\ ~HasRoom(ix.program_id)
    <2>1. {"TooManyInstructions", "TooManyAccounts"} \subseteq Failures
      BY DEF Failures, BuildError
    <2>2. Len(instrs) \in Nat
      BY DEF Inv, TypeOK
    <2>3. \E e \in {"TooManyInstructions", "TooManyAccounts"} :
            Err(e) /\ UNCHANGED <<table, buffers>>
      BY <1>2, <2>2, TxnAssumption DEF AddInstruction
    <2> QED BY <1>1, <2>1, <2>3
  <1>3. CASE Len(instrs) < InstrMax /\ HasRoom(ix.program_id)
    <2>1. /\ Insert(ix.program_id, {})
          /\ adding' = [ix |-> ix, prog |-> Slot(ix.program_id), off |-> Len(acct_buf), at |-> 0]
          /\ UNCHANGED <<instrs, acct_buf, data_buf, fee_payer, blockhash, version, wanted,
                         asked, failed>>
      BY <1>3, TxnAssumption DEF AddInstruction, options, buffers, history, Inv, TypeOK
    <2>2. /\ acct_keys' \in Seq(Keys) /\ Len(acct_keys') <= AcctMax
          /\ acct_flags' \in Seq(SUBSET Permissions) /\ Len(acct_flags') = Len(acct_keys')
          /\ Slot(ix.program_id) \in Slots' /\ acct_keys'[Slot(ix.program_id)] = ix.program_id
          /\ \A i \in Slots : i \in Slots' /\ acct_keys'[i] = acct_keys[i]
      BY <1>3, <2>1, InsertKeeps DEF Inv
    <2>3. Slot(ix.program_id) \in 1..AcctMax /\ Len(acct_buf) \in 0..Mtu
      BY <2>2, TxnAssumption DEF Slots, Inv, TypeOK
    <2>4. TypeOK'
      BY <2>1, <2>2, <2>3 DEF Inv, TypeOK
    <2>5. Recorded'
      BY <2>1, <2>2, RecordedSurvives DEF Inv, TypeOK
    <2>6. UnderWay'
      BY <1>3, <2>1, <2>2, <2>3 DEF UnderWay
    <2> QED BY <2>4, <2>5, <2>6 DEF Inv
  <1> QED BY <1>2, <1>3 DEF AddInstruction

LEMMA AddAccountKeeps ==
  ASSUME Inv, AddAccount
  PROVE  Inv'
  <1> DEFINE ix == adding.ix
             k  == Meta.pubkey
             fs == Meta.flags
  <1>1. /\ ~Idle /\ ix \in Instructions
        /\ adding.prog \in Slots /\ acct_keys[adding.prog] = ix.program_id
        /\ adding.at \in Nat /\ adding.at < Len(ix.accounts) /\ Len(ix.accounts) \in Nat
        /\ adding.off + adding.at = Len(acct_buf)
        /\ \A j \in 1..adding.at :
             /\ acct_buf[adding.off + j] \in Slots
             /\ acct_keys[acct_buf[adding.off + j]] = ix.accounts[j].pubkey
    BY InstructionTypes DEF AddAccount, Inv, UnderWay
  <1>2. k \in Keys /\ fs \in SUBSET Permissions
    <2>1. adding.at + 1 \in 1..Len(ix.accounts)
      BY <1>1
    <2> QED BY <1>1, <2>1, InstructionTypes DEF Meta
  <1>3. CASE ~HasRoom(k)
    <2>1. Err("TooManyAccounts") /\ UNCHANGED <<acct_keys, acct_flags, buffers>>
      BY <1>3 DEF AddAccount, table
    <2> QED BY <2>1, Failing DEF Failures, BuildError, Inv, TypeOK, Slots
  <1>4. CASE HasRoom(k)
    <2>1. Insert(k, fs)
      BY <1>4 DEF AddAccount
    <2>2. /\ acct_keys' \in Seq(Keys) /\ Len(acct_keys') <= AcctMax
          /\ acct_flags' \in Seq(SUBSET Permissions) /\ Len(acct_flags') = Len(acct_keys')
          /\ Slot(k) \in Slots' /\ acct_keys'[Slot(k)] = k
          /\ \A i \in Slots : i \in Slots' /\ acct_keys'[i] = acct_keys[i]
      BY <1>2, <1>4, <2>1, InsertKeeps DEF Inv
    <2>3. CASE Len(acct_buf) >= Mtu
      <3>1. Err("DataTooLarge") /\ UNCHANGED buffers
        BY <1>4, <2>3, TxnAssumption DEF AddAccount, Inv, TypeOK
      <3> QED BY <2>2, <3>1, Failing DEF Failures, BuildError
    <2>4. CASE Len(acct_buf) < Mtu
      <3>1. /\ acct_buf' = Append(acct_buf, Slot(k))
            /\ adding' = [adding EXCEPT !.at = @ + 1]
            /\ UNCHANGED <<instrs, data_buf, fee_payer, blockhash, version, wanted, asked, failed>>
        BY <1>4, <2>4, TxnAssumption DEF AddAccount, options, history, Inv, TypeOK
      <3>2. Slot(k) \in 1..AcctMax
        BY <2>2, TxnAssumption DEF Slots
      <3>3. /\ acct_buf' \in Seq(1..AcctMax) /\ Len(acct_buf') = Len(acct_buf) + 1
            /\ Len(acct_buf) \in Nat
            /\ \A j \in 1..Len(acct_buf) : acct_buf'[j] = acct_buf[j]
            /\ acct_buf'[Len(acct_buf) + 1] = Slot(k)
        BY <3>1, <3>2, AppendProperties DEF Inv, TypeOK
      <3>4. adding \in [ix: Instructions, prog: 1..AcctMax, off: 0..Mtu, at: Nat]
        BY <1>1 DEF Inv, TypeOK, Idle
      <3>5. TypeOK'
        <4>1. adding' \in [ix: Instructions, prog: 1..AcctMax, off: 0..Mtu, at: Nat]
          BY <3>1, <3>4
        <4>2. Len(acct_buf') <= Mtu
          BY <2>4, <3>3, TxnAssumption
        <4>3. /\ instrs' \in Seq(InstrEntry) /\ Len(instrs') <= InstrMax
              /\ data_buf' \in Seq(Bytes) /\ Len(data_buf') <= Mtu
              /\ fee_payer' \in Keys \cup {None} /\ blockhash' \in BOOLEAN
              /\ version' \in {"Legacy", "V0"} /\ wanted' \in Seq(Instructions)
              /\ asked' \in [Keys -> SUBSET Permissions] /\ failed' \in Seq(Failures)
          BY <3>1 DEF Inv, TypeOK
        <4> QED BY <2>2, <3>3, <4>1, <4>2, <4>3 DEF TypeOK
      <3>6. Recorded'
        BY <2>2, <3>1, <3>3, RecordedSurvives DEF Inv, TypeOK
      <3>7. UnderWay'
        <4>1. /\ adding'.ix = ix /\ adding'.prog = adding.prog /\ adding'.off = adding.off
              /\ adding'.at = adding.at + 1 /\ adding.off \in Nat
          BY <3>1, <3>4
        <4>2. adding'.off + adding'.at = Len(acct_buf')
          <5>1. adding.off + adding.at = Len(acct_buf) /\ adding.at \in Nat
            BY <1>1
          <5>2. Len(acct_buf') = Len(acct_buf) + 1
            BY <3>3
          <5> QED BY <4>1, <5>1, <5>2
        <4>3. ASSUME NEW j \in 1..adding'.at
              PROVE  /\ acct_buf'[adding'.off + j] \in Slots'
                     /\ acct_keys'[acct_buf'[adding'.off + j]] = adding'.ix.accounts[j].pubkey
          <5>1. CASE j = adding.at + 1
            <6>1. adding'.off + j = Len(acct_buf) + 1
              <7>1. adding.off + adding.at = Len(acct_buf) /\ adding.at \in Nat
                BY <1>1
              <7> QED BY <4>1, <5>1, <7>1
            <6>2. adding'.ix.accounts[j].pubkey = k
              BY <4>1, <5>1 DEF Meta
            <6> QED BY <2>2, <3>3, <6>1, <6>2
          <5>2. CASE j # adding.at + 1
            <6>1. j \in 1..adding.at
              BY <1>1, <4>1, <4>3, <5>2
            <6>2. adding.off + j \in 1..Len(acct_buf)
              BY <1>1, <4>1, <6>1
            <6>3. acct_buf'[adding'.off + j] = acct_buf[adding.off + j]
              BY <3>3, <4>1, <6>2
            <6>4. /\ acct_buf[adding.off + j] \in Slots
                  /\ acct_keys[acct_buf[adding.off + j]] = adding'.ix.accounts[j].pubkey
              BY <1>1, <4>1, <6>1
            <6> QED BY <2>2, <6>3, <6>4
          <5> QED BY <5>1, <5>2
        <4>4. adding'.at \in 0..Len(adding'.ix.accounts)
          BY <1>1, <4>1
        <4>5. adding'.prog \in Slots' /\ acct_keys'[adding'.prog] = adding'.ix.program_id
          BY <1>1, <2>2, <4>1
        <4>6. Len(instrs') < InstrMax
          BY <1>1, <3>1 DEF Inv, UnderWay
        <4> QED BY <1>1, <4>1, <4>2, <4>3, <4>4, <4>5, <4>6 DEF UnderWay
      <3> QED BY <3>5, <3>6, <3>7 DEF Inv
    <2> QED BY <2>3, <2>4, TxnAssumption DEF Inv, TypeOK
  <1> QED BY <1>3, <1>4

LEMMA AddDataKeeps ==
  ASSUME Inv, AddData
  PROVE  Inv'
  <1> DEFINE ix == adding.ix
  <1>1. /\ ~Idle /\ ix \in Instructions
        /\ adding.prog \in Slots /\ acct_keys[adding.prog] = ix.program_id
        /\ adding.at = Len(ix.accounts) /\ Len(ix.accounts) \in Nat
        /\ \A j \in 1..adding.at :
             /\ acct_buf[adding.off + j] \in Slots
             /\ acct_keys[acct_buf[adding.off + j]] = ix.accounts[j].pubkey
        /\ ix.data \in Seq(Bytes) /\ Len(ix.data) \in Nat
    BY InstructionTypes DEF AddData, Inv, UnderWay
  <1>2. adding.off + Len(ix.accounts) = Len(acct_buf)
    BY <1>1 DEF Inv, UnderWay
  <1>3. data_buf \in Seq(Bytes) /\ Len(data_buf) \in Nat
    BY DEF Inv, TypeOK
  <1>4. CASE Len(data_buf) + Len(ix.data) > Mtu
    <2>1. Err("DataTooLarge") /\ UNCHANGED <<acct_keys, acct_flags, buffers>>
      BY <1>1, <1>3, <1>4, TxnAssumption DEF AddData, table
    <2> QED BY <2>1, Failing DEF Failures, BuildError, Inv, TypeOK, Slots
  <1>5. CASE Len(data_buf) + Len(ix.data) <= Mtu
    <2>1. /\ data_buf' = data_buf \o ix.data /\ instrs' = Append(instrs, Entry)
          /\ wanted' = Append(wanted, ix) /\ adding' = NoAdd
          /\ asked' = [k \in Keys |-> asked[k] \cup FlagsIn(ix, k)]
          /\ UNCHANGED <<acct_keys, acct_flags, fee_payer, blockhash, version, acct_buf, failed>>
      BY <1>1, <1>3, <1>5, TxnAssumption DEF AddData, table, options
    <2>2. data_buf' \in Seq(Bytes) /\ Len(data_buf') <= Mtu
      BY <1>1, <1>3, <1>5, <2>1, ConcatProperties
    <2>3. Entry \in InstrEntry
      <3>1. adding \in [ix: Instructions, prog: 1..AcctMax, off: 0..Mtu, at: Nat]
        BY <1>1 DEF Inv, TypeOK, Idle
      <3> QED BY <1>1, <1>3, <3>1 DEF Entry, InstrEntry
    <2>4. Len(instrs) < InstrMax
      BY <1>1 DEF Inv, UnderWay
    <2>5. /\ instrs' \in Seq(InstrEntry) /\ Len(instrs') = Len(instrs) + 1
          /\ \A n \in 1..Len(instrs) : instrs'[n] = instrs[n]
          /\ instrs'[Len(instrs) + 1] = Entry
      BY <2>1, <2>3, AppendProperties DEF Inv, TypeOK
    <2>6. /\ wanted' \in Seq(Instructions) /\ Len(wanted') = Len(wanted) + 1
          /\ \A n \in 1..Len(wanted) : wanted'[n] = wanted[n]
          /\ wanted'[Len(wanted) + 1] = ix
      BY <1>1, <2>1, AppendProperties DEF Inv, TypeOK
    <2>7. asked' \in [Keys -> SUBSET Permissions]
      <3>1. ASSUME NEW k \in Keys PROVE FlagsIn(ix, k) \in SUBSET Permissions
        BY <1>1, InstructionTypes DEF FlagsIn
      <3> QED BY <2>1, <3>1 DEF Inv, TypeOK
    <2>8. Len(instrs) \in Nat /\ Len(wanted) = Len(instrs)
      BY DEF Inv, TypeOK, Recorded
    <2>9. TypeOK'
      BY <2>1, <2>2, <2>4, <2>5, <2>6, <2>7, <2>8, TxnAssumption DEF Inv, TypeOK
    <2>10. Recorded'
      <3>1. ASSUME NEW n \in 1..Len(wanted')
            PROVE  /\ instrs'[n].program_idx \in Slots'
                   /\ acct_keys'[instrs'[n].program_idx] = wanted'[n].program_id
                   /\ instrs'[n].acct_cnt = Len(wanted'[n].accounts)
                   /\ instrs'[n].acct_off + instrs'[n].acct_cnt <= Len(acct_buf')
                   /\ \A j \in 1..instrs'[n].acct_cnt :
                        /\ acct_buf'[instrs'[n].acct_off + j] \in Slots'
                        /\ acct_keys'[acct_buf'[instrs'[n].acct_off + j]]
                             = wanted'[n].accounts[j].pubkey
        <4>1. CASE n = Len(wanted) + 1
          <5>1. instrs'[n] = Entry /\ wanted'[n] = ix
            BY <2>5, <2>6, <2>8, <4>1
          <5>2. /\ Entry.program_idx = adding.prog /\ Entry.acct_off = adding.off
                /\ Entry.acct_cnt = Len(ix.accounts)
            BY DEF Entry
          <5>3. Len(acct_buf) \in Nat /\ adding.off + Len(ix.accounts) <= Len(acct_buf)
            BY <1>2 DEF Inv, TypeOK
          <5>4. Slots' = Slots
            BY <2>1 DEF Slots
          <5> QED BY <1>1, <2>1, <5>1, <5>2, <5>3, <5>4
        <4>2. CASE n # Len(wanted) + 1
          <5>1. n \in 1..Len(wanted) /\ n \in 1..Len(instrs)
            BY <2>6, <2>8, <3>1, <4>2
          <5>2. instrs'[n] = instrs[n] /\ wanted'[n] = wanted[n] /\ Slots' = Slots
            BY <2>1, <2>5, <2>6, <5>1 DEF Slots
          <5> QED BY <2>1, <5>1, <5>2 DEF Inv, Recorded
        <4> QED BY <4>1, <4>2
      <3> QED BY <2>5, <2>6, <2>8, <3>1 DEF Recorded
    <2>11. UnderWay'
      BY <2>1 DEF UnderWay, Idle
    <2> QED BY <2>9, <2>10, <2>11 DEF Inv
  <1> QED BY <1>1, <1>3, <1>4, <1>5, TxnAssumption

LEMMA InitInv == Init => Inv
  <1> SUFFICES ASSUME Init PROVE Inv
    OBVIOUS
  <1>1. TypeOK
    <2>1. Len(<<>>) = 0 /\ \A S : <<>> \in Seq(S)
      BY EmptySeq
    <2>2. asked \in [Keys -> SUBSET Permissions]
      BY DEF Init
    <2>3. blockhash \in BOOLEAN /\ version \in {"Legacy", "V0"} /\ fee_payer \in Keys \cup {None}
      BY DEF Init
    <2> QED BY <2>1, <2>2, <2>3, TxnAssumption DEF Init, TypeOK
  <1>2. Recorded
    BY DEF Init, Recorded
  <1>3. UnderWay
    BY DEF Init, UnderWay, Idle
  <1> QED BY <1>1, <1>2, <1>3 DEF Inv

LEMMA NextInv == Inv /\ [Next]_vars => Inv'
  <1> SUFFICES ASSUME Inv, [Next]_vars PROVE Inv'
    OBVIOUS
  <1>1. CASE UNCHANGED vars
    BY <1>1 DEF vars, table, options, buffers, history, Inv, TypeOK, Recorded, UnderWay, Idle, Slots
  <1>2. CASE \E ix \in Instructions : AddInstruction(ix)
    BY <1>2, AddInstructionKeeps
  <1>3. CASE AddAccount
    BY <1>3, AddAccountKeeps
  <1>4. CASE AddData
    BY <1>4, AddDataKeeps
  <1> QED BY <1>1, <1>2, <1>3, <1>4, ShortCalls DEF Next

LEMMA AlwaysInv == Spec => []Inv
  BY InitInv, NextInv, PTL DEF Spec

\* For every size of the arrays and every set of instructions the builder's
\* variables keep their types and none of its arrays is overrun.
THEOREM TxnTypeCorrect == Spec => []TypeOK
  <1>1. Inv => TypeOK
    BY DEF Inv
  <1> QED BY <1>1, AlwaysInv, PTL

\* For every size of the arrays, every set of instructions and every pattern of
\* failed calls, the builder's entries name through the table and the buffer
\* exactly the programs and accounts of the instructions that were added.
THEOREM TxnRecorded == Spec => []Recorded
  <1>1. Inv => Recorded
    BY DEF Inv
  <1> QED BY <1>1, AlwaysInv, PTL

-----------------------------------------------------------------------------
(* The table: its keys are distinct, the fee payer is in it with its       *)
(* permissions, and every key has the flags asked for it, those of the     *)
(* call under way included.                                                *)

Distinct == \A i, j \in Slots : acct_keys[i] = acct_keys[j] => i = j

PayerIn ==
  fee_payer # None =>
    /\ \E i \in Slots : acct_keys[i] = fee_payer
    /\ \A i \in Slots : acct_keys[i] = fee_payer => acct_flags[i] = {"signer", "writable"}

\* What the metas that the call under way has been through ask for k.
Part(k) == IF Idle THEN {}
           ELSE UNION {adding.ix.accounts[j].flags :
                         j \in {i \in 1..adding.at : adding.ix.accounts[i].pubkey = k}}

Total(k) == asked[k] \cup Part(k)

Granted ==
  /\ \A i \in Slots : Total(acct_keys[i]) \subseteq acct_flags[i]
  /\ failed = <<>> => \A i \in Slots : acct_flags[i] = Total(acct_keys[i])
  /\ \A k \in Keys : (\A i \in Slots : acct_keys[i] # k) => Total(k) = {}

\* The data of each instruction that was added is where its entry says.
DataRecorded ==
  \A n \in 1..Len(wanted) :
    /\ instrs[n].data_len = Len(wanted[n].data)
    /\ instrs[n].data_off + instrs[n].data_len <= Len(data_buf)
    /\ \A j \in 1..instrs[n].data_len : data_buf[instrs[n].data_off + j] = wanted[n].data[j]

TableInv == Distinct /\ PayerIn /\ Granted /\ DataRecorded

\* The table after an insertion of k with the flags fs, or, without k, as it was.
Grown(k, fs) ==
  /\ \A i \in Slots : /\ i \in Slots' /\ acct_keys'[i] = acct_keys[i]
                      /\ acct_flags'[i] = acct_flags[i] \cup (IF acct_keys[i] = k THEN fs ELSE {})
  /\ \A i \in Slots' \ Slots : /\ acct_keys'[i] = k /\ acct_flags'[i] = fs
                               /\ \A j \in Slots : acct_keys[j] # k
  /\ \A i, j \in Slots' \ Slots : i = j
  /\ fs # {} => \E i \in Slots' : acct_keys'[i] = k

LEMMA InsertGrows ==
  ASSUME TypeOK, Distinct, NEW k \in Keys, NEW fs \in SUBSET Permissions, HasRoom(k), Insert(k, fs)
  PROVE  Grown(k, fs) /\ \E i \in Slots' : acct_keys'[i] = k
  <1>0. /\ Len(acct_keys) \in Nat /\ Len(acct_flags) = Len(acct_keys)
        /\ acct_keys \in Seq(Keys) /\ acct_flags \in Seq(SUBSET Permissions)
    BY DEF TypeOK
  <1>1. CASE Found(k)
    <2>1. PICK s \in Slots : s = Slot(k) /\ acct_keys[s] = k
      BY <1>1 DEF Slot, Found
    <2>2. acct_flags' = [acct_flags EXCEPT ![s] = @ \cup fs] /\ acct_keys' = acct_keys
      BY <1>1, <2>1 DEF Insert
    <2>3. Slots' = Slots /\ DOMAIN acct_flags = Slots
      BY <1>0, <2>2 DEF Slots
    <2>4. \A i \in Slots : acct_flags'[i] = acct_flags[i] \cup (IF acct_keys[i] = k THEN fs ELSE {})
      <3> TAKE i \in Slots
      <3>1. CASE i = s
        BY <2>1, <2>2, <2>3, <3>1
      <3>2. CASE i # s
        <4>1. acct_keys[i] # k
          BY <2>1, <3>2 DEF Distinct
        <4> QED BY <2>2, <2>3, <3>2, <4>1
      <3> QED BY <3>1, <3>2
    <2> QED BY <2>1, <2>2, <2>3, <2>4 DEF Grown
  <1>2. CASE ~Found(k)
    <2>1. acct_flags' = Append(acct_flags, fs) /\ acct_keys' = Append(acct_keys, k)
      BY <1>2 DEF Insert
    <2>2. /\ Len(acct_keys') = Len(acct_keys) + 1
          /\ acct_keys'[Len(acct_keys) + 1] = k /\ acct_flags'[Len(acct_keys) + 1] = fs
          /\ \A i \in Slots : acct_keys'[i] = acct_keys[i] /\ acct_flags'[i] = acct_flags[i]
      BY <1>0, <2>1, AppendProperties DEF Slots
    <2>3. \A i \in Slots : i \in Slots' /\ acct_keys[i] # k
      BY <1>0, <1>2, <2>2 DEF Slots, Found
    <2>4. \A i \in Slots' \ Slots : i = Len(acct_keys) + 1
      BY <1>0, <2>2 DEF Slots
    <2>5. Len(acct_keys) + 1 \in Slots'
      BY <1>0, <2>2 DEF Slots
    <2> HIDE DEF Slots
    <2>6. \A i \in Slots : /\ i \in Slots' /\ acct_keys'[i] = acct_keys[i]
                      /\ acct_flags'[i] = acct_flags[i] \cup (IF acct_keys[i] = k THEN fs ELSE {})
      BY <2>2, <2>3
    <2>7. \A i \in Slots' \ Slots : /\ acct_keys'[i] = k /\ acct_flags'[i] = fs
                                    /\ \A j \in Slots : acct_keys[j] # k
      BY <2>2, <2>3, <2>4
    <2>8. \A i, j \in Slots' \ Slots : i = j
      BY <2>4
    <2> QED BY <2>2, <2>5, <2>6, <2>7, <2>8 DEF Grown
  <1> QED BY <1>1, <1>2

LEMMA StaysGrown ==
  ASSUME UNCHANGED <<acct_keys, acct_flags>>, NEW k
  PROVE  Grown(k, {})
  BY DEF Grown, Slots

LEMMA DistinctGrown ==
  ASSUME Distinct, NEW k, NEW fs, Grown(k, fs)
  PROVE  Distinct'
  <1> SUFFICES ASSUME NEW i \in Slots', NEW j \in Slots', acct_keys'[i] = acct_keys'[j]
               PROVE  i = j
    BY DEF Distinct
  <1>1. CASE i \in Slots /\ j \in Slots
    BY <1>1 DEF Grown, Distinct
  <1>2. CASE i \notin Slots /\ j \notin Slots
    BY <1>2 DEF Grown
  <1>3. CASE i \in Slots /\ j \notin Slots
    BY <1>3 DEF Grown
  <1>4. CASE i \notin Slots /\ j \in Slots
    BY <1>4 DEF Grown
  <1> QED BY <1>1, <1>2, <1>3, <1>4

LEMMA PayerGrown ==
  ASSUME TypeOK, PayerIn, NEW k, NEW fs \in SUBSET Permissions, Grown(k, fs), UNCHANGED fee_payer
  PROVE  PayerIn'
  <1> SUFFICES ASSUME fee_payer # None
               PROVE  /\ \E i \in Slots' : acct_keys'[i] = fee_payer
                      /\ \A i \in Slots' : acct_keys'[i] = fee_payer => acct_flags'[i] = {"signer", "writable"}
    BY DEF PayerIn
  <1>1. PICK p \in Slots : acct_keys[p] = fee_payer
    BY DEF PayerIn
  <1>2. p \in Slots' /\ acct_keys'[p] = fee_payer
    BY <1>1 DEF Grown
  <1>3. ASSUME NEW i \in Slots', acct_keys'[i] = fee_payer PROVE acct_flags'[i] = {"signer", "writable"}
    <2>1. i \in Slots
      BY <1>1, <1>3 DEF Grown
    <2>2. acct_flags[i] = {"signer", "writable"}
      BY <1>3, <2>1 DEF Grown, PayerIn
    <2> QED BY <2>1, <2>2 DEF Grown, Permissions
  <1> QED BY <1>2, <1>3

\* What is asked for grows with the table; or it stays behind, and a call has failed.
LEMMA GrantedGrown ==
  ASSUME TypeOK, Granted, NEW k \in Keys, NEW fs \in SUBSET Permissions, Grown(k, fs), TypeOK',
         \A x \in Keys : Total(x)' \subseteq Total(x) \cup (IF x = k THEN fs ELSE {}),
         failed' = <<>> =>
           failed = <<>> /\ \A x \in Keys : Total(x)' = Total(x) \cup (IF x = k THEN fs ELSE {})
  PROVE  Granted'
  <1> DEFINE more(x) == IF x = k THEN fs ELSE {}
  <1>0. (\A i \in Slots : acct_keys[i] \in Keys) /\ (\A i \in Slots' : acct_keys'[i] \in Keys)
    BY DEF TypeOK, Slots
  <1>1. \A i \in Slots : /\ i \in Slots' /\ acct_keys'[i] = acct_keys[i]
                         /\ acct_flags'[i] = acct_flags[i] \cup more(acct_keys[i])
    BY DEF Grown
  <1>2. \A i \in Slots' \ Slots : acct_keys'[i] = k /\ acct_flags'[i] = fs /\ Total(k) = {}
    BY DEF Grown, Granted
  <1>3. PICK tot \in [Keys -> SUBSET UNION {Total(x)' : x \in Keys}] : \A x \in Keys : tot[x] = Total(x)'
    <2>1. [x \in Keys |-> Total(x)'] \in [Keys -> SUBSET UNION {Total(x)' : x \in Keys}]
      OBVIOUS
    <2> QED BY <2>1
  <1>4. \A i \in Slots' : tot[acct_keys'[i]] \subseteq acct_flags'[i]
    <2> TAKE i \in Slots'
    <2>1. CASE i \in Slots
      <3>1. Total(acct_keys[i]) \subseteq acct_flags[i]
        BY <2>1 DEF Granted
      <3>2. tot[acct_keys[i]] \subseteq Total(acct_keys[i]) \cup more(acct_keys[i])
        BY <1>0, <1>3, <2>1
      <3> QED BY <1>1, <2>1, <3>1, <3>2
    <2>2. CASE i \notin Slots
      <3>1. tot[k] \subseteq Total(k) \cup fs
        BY <1>3
      <3> QED BY <1>2, <2>2, <3>1
    <2> QED BY <2>1, <2>2
  <1>5. ASSUME failed' = <<>> PROVE \A i \in Slots' : acct_flags'[i] = tot[acct_keys'[i]]
    <2> TAKE i \in Slots'
    <2>0. \A x \in Keys : tot[x] = Total(x) \cup more(x)
      BY <1>3, <1>5
    <2>1. CASE i \in Slots
      <3>1. Total(acct_keys[i]) = acct_flags[i]
        BY <1>5, <2>1 DEF Granted
      <3>2. tot[acct_keys[i]] = Total(acct_keys[i]) \cup more(acct_keys[i])
        BY <1>0, <2>0, <2>1
      <3>3. acct_keys'[i] = acct_keys[i] /\ acct_flags'[i] = acct_flags[i] \cup more(acct_keys[i])
        BY <1>1, <2>1
      <3> HIDE DEF more
      <3> QED BY <3>1, <3>2, <3>3
    <2>2. CASE i \notin Slots
      <3>1. tot[k] = Total(k) \cup fs
        BY <2>0
      <3>2. acct_keys'[i] = k /\ acct_flags'[i] = fs /\ Total(k) = {}
        BY <1>2, <2>2
      <3>3. tot[k] = fs
        BY <3>1, <3>2
      <3> QED BY <3>2, <3>3
    <2> QED BY <2>1, <2>2
  <1>6. \A x \in Keys : (\A i \in Slots' : acct_keys'[i] # x) => tot[x] = {}
    <2> SUFFICES ASSUME NEW x \in Keys, \A i \in Slots' : acct_keys'[i] # x PROVE tot[x] = {}
      OBVIOUS
    <2>1. \A i \in Slots : acct_keys[i] # x
      BY <1>1
    <2>2. Total(x) = {} /\ (x = k => fs = {})
      BY <2>1 DEF Granted, Grown
    <2>3. tot[x] \subseteq Total(x) \cup more(x)
      BY <1>3
    <2> QED BY <2>2, <2>3
  <1>7. \A i \in Slots' : tot[acct_keys'[i]] = Total(acct_keys[i])'
    <2> TAKE i \in Slots'
    <2>1. PICK x \in Keys : x = acct_keys'[i]
      BY <1>0
    <2>2. tot[x] = Total(x)'
      BY <1>3
    <2> QED BY <2>1, <2>2 DEF Total, Part, Idle
  <1> QED BY <1>3, <1>4, <1>5, <1>6, <1>7 DEF Granted

LEMMA DataStays ==
  ASSUME DataRecorded, UNCHANGED <<instrs, wanted, data_buf>>
  PROVE  DataRecorded'
  BY DEF DataRecorded

\* The calls that insert a key and are answered Ok.
LEMMA GrantKeeps ==
  ASSUME Inv, Inv', TableInv, NEW k \in Keys, NEW fs \in SUBSET Permissions,
         HasRoom(k), Insert(k, fs), Grant(k, fs), Idle, UNCHANGED <<buffers, adding, wanted, failed>>,
         \/ UNCHANGED fee_payer
         \/ fee_payer' = k /\ fs = {"signer", "writable"}
  PROVE  TableInv'
  <1>0. /\ TypeOK /\ TypeOK' /\ Distinct /\ PayerIn /\ Granted /\ DataRecorded
        /\ UNCHANGED <<instrs, acct_buf, data_buf, adding, wanted, failed>>
    BY DEF Inv, TableInv, buffers
  <1>1. Grown(k, fs) /\ \E i \in Slots' : acct_keys'[i] = k
    BY <1>0, InsertGrows
  <1>2. Distinct'
    BY <1>0, <1>1, DistinctGrown
  <1>3. PayerIn'
    <2>1. CASE UNCHANGED fee_payer
      BY <1>0, <1>1, <2>1, PayerGrown
    <2>2. CASE fee_payer' = k /\ fs = {"signer", "writable"}
      <3>1. ASSUME NEW i \in Slots', acct_keys'[i] = k PROVE acct_flags'[i] = fs
        <4>1. CASE i \in Slots
          <5>1. acct_flags[i] \subseteq Permissions
            BY <1>0, <4>1 DEF TypeOK, Slots
          <5> QED BY <1>1, <2>2, <3>1, <4>1, <5>1 DEF Grown, Permissions
        <4>2. CASE i \notin Slots
          BY <1>1, <4>2 DEF Grown
        <4> QED BY <4>1, <4>2
      <3> QED BY <1>1, <2>2, <3>1 DEF PayerIn
    <2> QED BY <2>1, <2>2
  <1>4. \A x \in Keys : Total(x)' = Total(x) \cup (IF x = k THEN fs ELSE {})
    <2>1. \A x \in Keys : asked'[x] = asked[x] \cup (IF x = k THEN fs ELSE {})
      BY <1>0 DEF Grant, TypeOK
    <2> QED BY <1>0, <2>1 DEF Total, Part, Idle
  <1>5. Granted'
    BY <1>0, <1>1, <1>4, GrantedGrown
  <1>6. DataRecorded'
    BY <1>0, DataStays
  <1> QED BY <1>2, <1>3, <1>5, <1>6 DEF TableInv

\* The calls that fail: what they have inserted stays.
LEMMA ErrKeeps ==
  ASSUME Inv, Inv', TableInv, NEW k \in Keys, NEW fs \in SUBSET Permissions, Grown(k, fs),
         NEW e, failed' = Append(failed, e), adding' = NoAdd,
         UNCHANGED <<buffers, options, wanted, asked>>
  PROVE  TableInv'
  <1>0. /\ TypeOK /\ TypeOK' /\ Distinct /\ PayerIn /\ Granted /\ DataRecorded
        /\ UNCHANGED <<instrs, data_buf, wanted, asked, fee_payer>>
    BY DEF Inv, TableInv, buffers, options
  <1>1. failed' # <<>>
    <2>1. failed \in Seq(Failures) /\ failed' \in Seq(Failures)
      BY <1>0 DEF TypeOK
    <2>2. Len(failed') = Len(failed) + 1 /\ Len(failed) \in Nat
      BY <2>1
    <2> QED BY <2>2
  <1>2. \A x \in Keys : Total(x)' = asked[x]
    BY <1>0 DEF Total, Part, Idle
  <1>3. \A x \in Keys : Total(x)' \subseteq Total(x) \cup (IF x = k THEN fs ELSE {})
    BY <1>2 DEF Total
  <1>4. Granted'
    BY <1>0, <1>1, <1>3, GrantedGrown
  <1>5. Distinct' /\ PayerIn' /\ DataRecorded'
    BY <1>0, DistinctGrown, PayerGrown, DataStays
  <1> QED BY <1>4, <1>5 DEF TableInv

\* A step of add_instruction that goes on: what its metas ask for grows with the table.
LEMMA GoesOnKeeps ==
  ASSUME Inv, Inv', TableInv, NEW k \in Keys, NEW fs \in SUBSET Permissions, Grown(k, fs),
         UNCHANGED <<instrs, data_buf, wanted, asked, failed, fee_payer>>,
         \A x \in Keys : Part(x)' = Part(x) \cup (IF x = k THEN fs ELSE {})
  PROVE  TableInv'
  <1>0. TypeOK /\ TypeOK' /\ Distinct /\ PayerIn /\ Granted /\ DataRecorded
    BY DEF Inv, TableInv
  <1>1. \A x \in Keys : Total(x)' = Total(x) \cup (IF x = k THEN fs ELSE {})
    BY DEF Total
  <1>2. Granted'
    BY <1>0, <1>1, GrantedGrown
  <1>3. Distinct' /\ PayerIn' /\ DataRecorded'
    BY <1>0, DistinctGrown, PayerGrown, DataStays
  <1> QED BY <1>2, <1>3 DEF TableInv

LEMMA TableShort ==
  ASSUME Inv, Inv', TableInv,
         \/ \E v \in {"Legacy", "V0"} : Version(v)
         \/ RecentBlockhash
         \/ \E k \in Keys : FeePayer(k) \/ FeePayerPanics(k) \/ AddSigner(k)
  PROVE  TableInv'
  <1>1. ASSUME UNCHANGED <<table, buffers, fee_payer, adding, history>> PROVE TableInv'
    <2>1. UNCHANGED <<acct_keys, acct_flags, instrs, data_buf, fee_payer, adding, wanted, asked, failed>>
      BY <1>1 DEF table, buffers, history
    <2>2. Distinct' /\ PayerIn'
      BY <2>1 DEF TableInv, Distinct, PayerIn, Slots
    <2>3. Granted'
      <3>1. \A x : Total(x)' = Total(x)
        BY <2>1 DEF Total, Part, Idle
      <3>2. Slots' = Slots
        BY <2>1 DEF Slots
      <3> QED BY <2>1, <3>1, <3>2 DEF TableInv, Granted
    <2>4. DataRecorded'
      BY <2>1, DataStays DEF TableInv
    <2> QED BY <2>2, <2>3, <2>4 DEF TableInv
  <1>2. ASSUME NEW k \in Keys, FeePayer(k) PROVE TableInv'
    BY <1>2, GrantKeeps DEF FeePayer, Permissions
  <1>3. ASSUME NEW k \in Keys, FeePayerPanics(k) PROVE TableInv'
    <2>1. /\ failed' = Append(failed, "panic") /\ adding' = NoAdd
          /\ UNCHANGED <<acct_keys, acct_flags, buffers, options, wanted, asked>>
      BY <1>3 DEF FeePayerPanics, table, Idle
    <2>2. Grown(k, {})
      BY <2>1, StaysGrown
    <2> QED BY <2>1, <2>2, ErrKeeps
  <1>4. ASSUME NEW k \in Keys, AddSigner(k) PROVE TableInv'
    <2>1. CASE HasRoom(k)
      BY <1>4, <2>1, GrantKeeps DEF AddSigner, Permissions, options
    <2>2. CASE ~HasRoom(k)
      <3>1. /\ failed' = Append(failed, "TooManyAccounts") /\ adding' = NoAdd
            /\ UNCHANGED <<acct_keys, acct_flags, buffers, options, wanted, asked>>
        BY <1>4, <2>2 DEF AddSigner, Err, table
      <3>2. Grown(k, {})
        BY <3>1, StaysGrown
      <3> QED BY <3>1, <3>2, ErrKeeps
    <2> QED BY <2>1, <2>2
  <1> QED BY <1>1, <1>2, <1>3, <1>4 DEF Version, RecentBlockhash

LEMMA TableAddInstruction ==
  ASSUME Inv, Inv', TableInv, NEW ix \in Instructions, AddInstruction(ix)
  PROVE  TableInv'
  <1>0. ix.program_id \in Keys /\ {} \in SUBSET Permissions /\ TypeOK /\ Distinct
    BY InstructionTypes DEF Inv, TableInv
  <1>1. ASSUME NEW e, Err(e), UNCHANGED <<table, buffers>> PROVE TableInv'
    <2>1. /\ failed' = Append(failed, e) /\ adding' = NoAdd
          /\ UNCHANGED <<acct_keys, acct_flags, buffers, options, wanted, asked>>
      BY <1>1 DEF Err, table
    <2>2. Grown(ix.program_id, {})
      BY <2>1, StaysGrown
    <2> QED BY <1>0, <2>1, <2>2, ErrKeeps
  <1>2. CASE /\ HasRoom(ix.program_id) /\ Insert(ix.program_id, {}) /\ Idle
             /\ adding' = [ix |-> ix, prog |-> Slot(ix.program_id), off |-> Len(acct_buf), at |-> 0]
             /\ UNCHANGED <<options, buffers, history>>
    <2>1. Grown(ix.program_id, {})
      BY <1>0, <1>2, InsertGrows
    <2>2. \A x : Part(x) = {}
      BY <1>2 DEF Part
    <2>3. \A x : Part(x)' = {}
      <3>1. adding'.at = 0
        BY <1>2
      <3>2. 1..0 = {}
        OBVIOUS
      <3> QED BY <3>1, <3>2 DEF Part
    <2>4. \A x \in Keys : Part(x)' = Part(x) \cup (IF x = ix.program_id THEN {} ELSE {})
      BY <2>2, <2>3
    <2>5. UNCHANGED <<instrs, data_buf, wanted, asked, failed, fee_payer>>
      BY <1>2 DEF options, buffers, history
    <2> QED BY <1>0, <2>1, <2>4, <2>5, GoesOnKeeps
  <1> QED BY <1>1, <1>2 DEF AddInstruction

LEMMA TableAddAccount ==
  ASSUME Inv, Inv', TableInv, AddAccount
  PROVE  TableInv'
  <1> DEFINE ix == adding.ix
             k  == Meta.pubkey
             fs == Meta.flags
  <1>0. TypeOK /\ Distinct
    BY DEF Inv, TableInv
  <1>1. /\ ~Idle /\ ix \in Instructions /\ adding.at \in Nat /\ adding.at < Len(ix.accounts)
        /\ Len(ix.accounts) \in Nat
    BY InstructionTypes DEF AddAccount, Inv, UnderWay
  <1>2. k \in Keys /\ fs \in SUBSET Permissions
    <2>1. adding.at + 1 \in 1..Len(ix.accounts)
      BY <1>1
    <2> QED BY <1>1, <2>1, InstructionTypes DEF Meta
  <1>3. CASE ~HasRoom(k)
    <2>1. /\ failed' = Append(failed, "TooManyAccounts") /\ adding' = NoAdd
          /\ UNCHANGED <<acct_keys, acct_flags, buffers, options, wanted, asked>>
      BY <1>3 DEF AddAccount, Err, table
    <2>2. Grown(k, {})
      BY <2>1, StaysGrown
    <2> HIDE DEF k
    <2> QED BY <1>2, <2>1, <2>2, ErrKeeps
  <1>4. CASE HasRoom(k)
    <2>1. Grown(k, fs)
      <3>1. Insert(k, fs)
        BY <1>4 DEF AddAccount
      <3> HIDE DEF k, fs
      <3> QED BY <1>0, <1>2, <1>4, <3>1, InsertGrows
    <2>2. CASE Err("DataTooLarge") /\ UNCHANGED buffers
      <3>1. /\ failed' = Append(failed, "DataTooLarge") /\ adding' = NoAdd
            /\ UNCHANGED <<buffers, options, wanted, asked>>
        BY <2>2 DEF Err
      <3> HIDE DEF k, fs
      <3> QED BY <1>2, <2>1, <3>1, ErrKeeps
    <2>3. CASE adding' = [adding EXCEPT !.at = @ + 1] /\ UNCHANGED <<options, instrs, data_buf, history>>
      <3>1. UNCHANGED <<instrs, data_buf, wanted, asked, failed, fee_payer>>
        BY <2>3 DEF options, history
      <3>2. adding \in [ix: Instructions, prog: 1..AcctMax, off: 0..Mtu, at: Nat]
        BY <1>0, <1>1 DEF TypeOK, Idle
      <3>3. adding'.ix = ix /\ adding'.at = adding.at + 1 /\ adding'.prog = adding.prog
            /\ adding.prog # 0
        BY <2>3, <3>2
      <3>4. ~Idle'
        BY <3>3 DEF Idle, NoAdd
      <3>5. ASSUME NEW x \in Keys PROVE Part(x)' = Part(x) \cup (IF x = k THEN fs ELSE {})
        <4> DEFINE old == {i \in 1..adding.at : ix.accounts[i].pubkey = x}
                   new == {i \in 1..(adding.at + 1) : ix.accounts[i].pubkey = x}
                   F(S) == UNION {ix.accounts[j].flags : j \in S}
        <4>1. Part(x) = F(old) /\ Part(x)' = F(new)
          BY <1>1, <3>3, <3>4 DEF Part
        <4>2. new = old \cup (IF x = k THEN {adding.at + 1} ELSE {})
          BY <1>1 DEF Meta
        <4>3. F(old \cup {adding.at + 1}) = F(old) \cup fs
          <5> HIDE DEF old
          <5> QED BY DEF Meta
        <4> HIDE DEF F, old, new, fs
        <4>4. CASE x = k
          BY <4>1, <4>2, <4>3, <4>4
        <4>5. CASE x # k
          BY <4>1, <4>2, <4>5
        <4> QED BY <4>4, <4>5
      <3> HIDE DEF k, fs
      <3> QED BY <1>2, <2>1, <3>1, <3>5, GoesOnKeeps
    <2> QED BY <1>4, <2>2, <2>3 DEF AddAccount
  <1> QED BY <1>3, <1>4

LEMMA TableAddData ==
  ASSUME Inv, Inv', TableInv, AddData
  PROVE  TableInv'
  <1> DEFINE ix == adding.ix
  <1>0. TypeOK /\ TypeOK' /\ Distinct /\ PayerIn /\ Granted /\ DataRecorded
    BY DEF Inv, TableInv
  <1>1. /\ ~Idle /\ ix \in Instructions /\ adding.at = Len(ix.accounts)
        /\ ix.program_id \in Keys /\ ix.data \in Seq(Bytes) /\ Len(ix.data) \in Nat
    BY InstructionTypes DEF AddData, Inv, UnderWay
  <1>2. CASE Err("DataTooLarge") /\ UNCHANGED <<table, buffers>>
    <2>1. /\ failed' = Append(failed, "DataTooLarge") /\ adding' = NoAdd
          /\ UNCHANGED <<acct_keys, acct_flags, buffers, options, wanted, asked>>
      BY <1>2 DEF Err, table
    <2>2. Grown(ix.program_id, {})
      BY <2>1, StaysGrown
    <2> QED BY <1>1, <2>1, <2>2, ErrKeeps
  <1>3. CASE /\ data_buf' = data_buf \o ix.data /\ instrs' = Append(instrs, Entry)
             /\ wanted' = Append(wanted, ix)
             /\ asked' = [k \in Keys |-> asked[k] \cup FlagsIn(ix, k)]
             /\ adding' = NoAdd /\ UNCHANGED <<table, options, acct_buf, failed>>
    <2>1. UNCHANGED <<acct_keys, acct_flags, fee_payer, failed>>
      BY <1>3 DEF table, options
    <2>2. Distinct' /\ PayerIn'
      BY <1>0, <2>1 DEF Distinct, PayerIn, Slots
    <2>3. \A x \in Keys : Total(x)' = Total(x)
      <3>1. \A x \in Keys : Part(x) = FlagsIn(ix, x) /\ Part(x)' = {}
        BY <1>1, <1>3 DEF Part, FlagsIn, Idle
      <3>2. \A x \in Keys : asked'[x] = asked[x] \cup FlagsIn(ix, x)
        BY <1>3
      <3> QED BY <3>1, <3>2 DEF Total
    <2>4. Granted'
      <3>1. Grown(ix.program_id, {})
        BY <2>1, StaysGrown
      <3>2. \A x \in Keys : Total(x)' = Total(x) \cup (IF x = ix.program_id THEN {} ELSE {})
        BY <2>3
      <3> HIDE DEF ix
      <3> QED BY <1>0, <1>1, <2>1, <3>1, <3>2, GrantedGrown
    <2>5. DataRecorded'
      <3>1. /\ data_buf \in Seq(Bytes) /\ Len(data_buf) \in Nat
            /\ instrs \in Seq(InstrEntry) /\ Len(instrs) \in Nat
            /\ wanted \in Seq(Instructions) /\ Len(wanted) = Len(instrs)
        BY <1>0 DEF TypeOK, Inv, Recorded
      <3>2. /\ Len(data_buf') = Len(data_buf) + Len(ix.data)
            /\ \A j \in 1..Len(data_buf) : data_buf'[j] = data_buf[j]
            /\ \A j \in 1..Len(ix.data) : data_buf'[Len(data_buf) + j] = ix.data[j]
        <4>1. PICK d \in Seq(Bytes), b \in Seq(Bytes) : d = ix.data /\ b = data_buf
          BY <1>1, <3>1
        <4>2. /\ Len(b \o d) = Len(b) + Len(d)
              /\ \A i \in 1..(Len(b) + Len(d)) : (b \o d)[i] = IF i <= Len(b) THEN b[i] ELSE d[i - Len(b)]
          BY ONLY ConcatProperties, b \in Seq(Bytes), d \in Seq(Bytes)
        <4>3. Len(b) \in Nat /\ Len(d) \in Nat
          OBVIOUS
        <4>4. \A j \in 1..Len(b) : (b \o d)[j] = b[j]
          BY <4>2, <4>3
        <4>5. ASSUME NEW j \in 1..Len(d) PROVE (b \o d)[Len(b) + j] = d[j]
          <5>1. Len(b) + j \in 1..(Len(b) + Len(d)) /\ ~(Len(b) + j <= Len(b)) /\ Len(b) + j - Len(b) = j
            BY <4>3
          <5> QED BY <4>2, <5>1
        <4> QED BY <1>3, <4>1, <4>2, <4>4, <4>5
      <3>3. /\ Len(instrs') = Len(instrs) + 1 /\ instrs'[Len(instrs) + 1] = Entry
            /\ \A n \in 1..Len(instrs) : instrs'[n] = instrs[n]
        <4>1. instrs' \in Seq(InstrEntry)
          BY <1>0 DEF TypeOK
        <4> QED BY <1>3, <3>1
      <3>4. /\ Len(wanted') = Len(wanted) + 1 /\ wanted'[Len(wanted) + 1] = ix
            /\ \A n \in 1..Len(wanted) : wanted'[n] = wanted[n]
        BY <1>1, <1>3, <3>1, AppendProperties
      <3>5. Entry.data_off = Len(data_buf) /\ Entry.data_len = Len(ix.data)
        BY DEF Entry
      <3> HIDE DEF ix
      <3> SUFFICES ASSUME NEW n \in 1..Len(wanted')
                   PROVE  /\ instrs'[n].data_len = Len(wanted'[n].data)
                          /\ instrs'[n].data_off + instrs'[n].data_len <= Len(data_buf')
                          /\ \A j \in 1..instrs'[n].data_len :
                               data_buf'[instrs'[n].data_off + j] = wanted'[n].data[j]
        BY DEF DataRecorded
      <3>6. CASE n = Len(wanted) + 1
        <4>1. instrs'[n] = Entry /\ wanted'[n] = ix
          BY <3>1, <3>3, <3>4, <3>6
        <4>2. Len(data_buf) + Len(ix.data) <= Len(data_buf')
          BY <1>1, <3>1, <3>2
        <4> QED BY <3>2, <3>5, <4>1, <4>2
      <3>7. CASE n # Len(wanted) + 1
        <4>1. n \in 1..Len(wanted) /\ n \in 1..Len(instrs)
          BY <3>1, <3>4, <3>7
        <4>2. instrs'[n] = instrs[n] /\ wanted'[n] = wanted[n]
          BY <3>3, <3>4, <4>1
        <4>3. /\ instrs[n].data_len = Len(wanted[n].data)
              /\ instrs[n].data_off + instrs[n].data_len <= Len(data_buf)
              /\ \A j \in 1..instrs[n].data_len : data_buf[instrs[n].data_off + j] = wanted[n].data[j]
          BY <1>0, <4>1 DEF DataRecorded
        <4>4. instrs[n].data_len \in Nat /\ instrs[n].data_off \in Nat
          <5>1. instrs[n] \in InstrEntry
            BY <3>1, <4>1
          <5> QED BY <5>1 DEF InstrEntry
        <4>5. \A j \in 1..instrs[n].data_len : instrs[n].data_off + j \in 1..Len(data_buf)
          BY <3>1, <4>3, <4>4
        <4>6. instrs[n].data_off + instrs[n].data_len <= Len(data_buf')
          <5>1. Len(ix.data) \in Nat /\ Len(data_buf) \in Nat /\ Len(data_buf') = Len(data_buf) + Len(ix.data)
            BY <1>1, <3>1, <3>2
          <5>2. PICK a \in Nat, b \in Nat : a = Len(data_buf) /\ b = Len(ix.data)
            BY <5>1
          <5>3. PICK c \in Nat : c = instrs[n].data_off + instrs[n].data_len /\ c <= a
            <6>1. instrs[n].data_off + instrs[n].data_len \in Nat
              BY ONLY <4>4
            <6>2. instrs[n].data_off + instrs[n].data_len <= a
              BY ONLY <4>3, <5>2
            <6> QED BY ONLY <6>1, <6>2
          <5>4. c <= a + b
            BY <5>3
          <5> QED BY <5>1, <5>2, <5>3, <5>4
        <4>7. \A j \in 1..instrs[n].data_len :
                data_buf'[instrs[n].data_off + j] = wanted[n].data[j]
          BY <3>2, <4>3, <4>5
        <4> QED BY <4>2, <4>3, <4>6, <4>7
      <3> QED BY <3>6, <3>7
    <2> QED BY <2>2, <2>4, <2>5 DEF TableInv
  <1> QED BY <1>2, <1>3 DEF AddData

LEMMA TableStep == Inv /\ Inv' /\ TableInv /\ [Next]_vars => TableInv'
  <1> SUFFICES ASSUME Inv, Inv', TableInv, [Next]_vars PROVE TableInv'
    OBVIOUS
  <1>1. CASE UNCHANGED vars
    <2>1. UNCHANGED <<acct_keys, acct_flags, instrs, data_buf, fee_payer, adding, wanted, asked, failed>>
      BY <1>1 DEF vars, table, buffers, history, options
    <2>2. Distinct' /\ PayerIn'
      BY <2>1 DEF TableInv, Distinct, PayerIn, Slots
    <2>3. Granted'
      <3>1. \A x : Total(x)' = Total(x)
        BY <2>1 DEF Total, Part, Idle
      <3>2. Slots' = Slots
        BY <2>1 DEF Slots
      <3> QED BY <2>1, <3>1, <3>2 DEF TableInv, Granted
    <2>4. DataRecorded'
      BY <2>1, DataStays DEF TableInv
    <2> QED BY <2>2, <2>3, <2>4 DEF TableInv
  <1> QED BY <1>1, TableShort, TableAddInstruction, TableAddAccount, TableAddData DEF Next

LEMMA TableAlways == Spec => [](Inv /\ TableInv)
  <1>1. Init => TableInv
    <2> SUFFICES ASSUME Init PROVE TableInv
      OBVIOUS
    <2>1. Slots = {}
      BY DEF Init, Slots
    <2>2. Distinct /\ PayerIn
      BY <2>1 DEF Distinct, PayerIn, Init
    <2>3. Granted
      BY <2>1 DEF Granted, Total, Part, Init, Idle
    <2>4. DataRecorded
      BY DEF DataRecorded, Init
    <2> QED BY <2>2, <2>3, <2>4 DEF TableInv
  <1> QED BY <1>1, TableStep, AlwaysInv, PTL DEF Spec

-----------------------------------------------------------------------------
(* The sort of build.  Precedes is a strict total order of the slots, so   *)
(* that the number of slots before a slot, its rank, is its place on the   *)
(* wire, each place is taken once, and the slots that precede all others   *)
(* of the table fill the first places.                                     *)

Before(i) == {j \in Slots : Precedes(j, i)}
RankOf(i) == Cardinality(Before(i))

LEMMA SortKeys ==
  ASSUME NEW i
  PROVE  /\ SortKey(i) \in 0..3
         /\ Signer(i) <=> SortKey(i) < 2
         /\ Signer(i) /\ Writable(i) <=> SortKey(i) = 0
         /\ ~Signer(i) /\ ~Writable(i) <=> SortKey(i) = 3
  BY DEF SortKey

LEMMA PrecedesIs ==
  ASSUME NEW i, NEW j
  PROVE  Precedes(i, j) <=>
           \/ i = Slot(fee_payer) /\ j # Slot(fee_payer)
           \/ /\ i = Slot(fee_payer) <=> j = Slot(fee_payer)
              /\ SortKey(i) < SortKey(j) \/ (SortKey(i) = SortKey(j) /\ i < j)
  <1> DEFINE p == Slot(fee_payer)
  <1>1. CASE i = p /\ j # p
    BY <1>1 DEF Precedes
  <1>2. CASE i # p /\ j = p
    BY <1>2 DEF Precedes
  <1>3. CASE i = p <=> j = p
    BY <1>3 DEF Precedes
  <1> QED BY <1>1, <1>2, <1>3

LEMMA PrecedesOrders ==
  ASSUME TypeOK
  PROVE  /\ \A i \in Slots : ~Precedes(i, i)
         /\ \A i, j \in Slots : i # j => Precedes(i, j) \/ Precedes(j, i)
         /\ \A i, j \in Slots : Precedes(i, j) => ~Precedes(j, i)
         /\ \A i, j, k \in Slots : Precedes(i, j) /\ Precedes(j, k) => Precedes(i, k)
  <1>1. \A i \in Slots : i \in Int /\ SortKey(i) \in Int
    BY SortKeys DEF Slots, TypeOK
  <1> HIDE DEF Slots
  <1>2. \A i \in Slots : ~Precedes(i, i)
    BY <1>1, PrecedesIs
  <1>3. \A i, j \in Slots : i # j => Precedes(i, j) \/ Precedes(j, i)
    <2> SUFFICES ASSUME NEW i \in Slots, NEW j \in Slots, i # j PROVE Precedes(i, j) \/ Precedes(j, i)
      OBVIOUS
    <2>1. SortKey(i) < SortKey(j) \/ SortKey(i) = SortKey(j) \/ SortKey(j) < SortKey(i)
      BY <1>1
    <2>2. i < j \/ j < i
      BY <1>1
    <2> QED BY <2>1, <2>2, PrecedesIs
  <1>4. \A i, j, k \in Slots : Precedes(i, j) /\ Precedes(j, k) => Precedes(i, k)
    <2> SUFFICES ASSUME NEW i \in Slots, NEW j \in Slots, NEW k \in Slots, Precedes(i, j), Precedes(j, k)
                 PROVE  Precedes(i, k)
      OBVIOUS
    <2>1. /\ i \in Int /\ j \in Int /\ k \in Int
          /\ SortKey(i) \in Int /\ SortKey(j) \in Int /\ SortKey(k) \in Int
      BY <1>1
    <2> QED BY <2>1, PrecedesIs
  <1>5. \A i, j \in Slots : Precedes(i, j) => ~Precedes(j, i)
    BY <1>2, <1>4
  <1> QED BY <1>2, <1>3, <1>4, <1>5

LEMMA RanksAre ==
  ASSUME TypeOK
  PROVE  /\ IsFiniteSet(Slots) /\ Cardinality(Slots) = Len(acct_keys) /\ Len(acct_keys) \in Nat
         /\ \A i \in Slots : IsFiniteSet(Before(i)) /\ RankOf(i) \in 0..(Len(acct_keys) - 1)
         /\ \A i, j \in Slots : Precedes(i, j) => RankOf(i) < RankOf(j)
         /\ \A i, j \in Slots : RankOf(i) = RankOf(j) => i = j
         /\ \A n \in 0..(Len(acct_keys) - 1) : \E i \in Slots : RankOf(i) = n
  <1> DEFINE len == Len(acct_keys)
             rank == [i \in Slots |-> RankOf(i)]
  <1>0. len \in Nat
    BY DEF TypeOK
  <1>1. IsFiniteSet(Slots) /\ Cardinality(Slots) = len
    <2>1. IsFiniteSet(1..len) /\ Cardinality(1..len) = IF 1 > len THEN 0 ELSE len - 1 + 1
      BY <1>0, FS_Interval
    <2> QED BY <1>0, <2>1 DEF Slots
  <1> HIDE DEF len, Slots
  <1>2. ASSUME NEW i \in Slots PROVE IsFiniteSet(Before(i)) /\ RankOf(i) \in 0..(len - 1)
    <2>1. Before(i) \in SUBSET (Slots \ {i})
      BY PrecedesOrders DEF Before
    <2>2. IsFiniteSet(Slots \ {i}) /\ Cardinality(Slots \ {i}) = len - 1
      BY <1>1, FS_RemoveElement
    <2>3. IsFiniteSet(Before(i)) /\ Cardinality(Before(i)) <= len - 1
      BY <2>1, <2>2, FS_Subset
    <2>4. Cardinality(Before(i)) \in Nat
      BY <2>3, FS_CardinalityType
    <2> QED BY <1>0, <2>3, <2>4 DEF RankOf
  <1>3. ASSUME NEW i \in Slots, NEW j \in Slots, Precedes(i, j) PROVE RankOf(i) < RankOf(j)
    <2>1. Before(i) \in SUBSET Before(j) /\ i \in Before(j) /\ i \notin Before(i)
      BY <1>3, PrecedesOrders DEF Before
    <2>2. Before(i) # Before(j)
      BY <2>1
    <2>3. Cardinality(Before(i)) <= Cardinality(Before(j)) /\ Cardinality(Before(i)) # Cardinality(Before(j))
      BY <1>2, <2>1, <2>2, FS_Subset
    <2>4. RankOf(i) \in Nat /\ RankOf(j) \in Nat
      BY <1>0, <1>2
    <2> QED BY <2>3, <2>4 DEF RankOf
  <1>4. ASSUME NEW i \in Slots, NEW j \in Slots, RankOf(i) = RankOf(j) PROVE i = j
    <2>1. RankOf(i) \in Nat /\ RankOf(j) \in Nat
      BY <1>0, <1>2
    <2>2. ~Precedes(i, j) /\ ~Precedes(j, i)
      BY <1>3, <1>4, <2>1
    <2> QED BY <2>2, PrecedesOrders
  <1>5. \A n \in 0..(len - 1) : \E i \in Slots : RankOf(i) = n
    <2>1. rank \in [Slots -> 0..(len - 1)] /\ DOMAIN rank = Slots
      BY <1>2
    <2>2. \A i, j \in Slots : rank[i] = rank[j] => i = j
      BY <1>4
    <2>3. IsFiniteSet(0..(len - 1)) /\ Cardinality(0..(len - 1)) = len
      BY <1>0, FS_Interval
    <2>4. rank \in Injection(Slots, 0..(len - 1))
      <3> HIDE DEF rank
      <3> QED BY <2>1, <2>2 DEF Injection, IsInjective
    <2>5. rank \in Surjection(Slots, 0..(len - 1))
      <3> HIDE DEF rank
      <3> QED BY <1>1, <2>3, <2>4, FS_Injection
    <2>6. \A n \in 0..(len - 1) : \E i \in Slots : rank[i] = n
      <3> HIDE DEF rank
      <3> QED BY <2>5 DEF Surjection
    <2> QED BY <2>6
  <1> QED BY <1>0, <1>1, <1>2, <1>3, <1>4, <1>5 DEF len

\* Each slot is at one place, and remap finds it.
LEMMA SortedIs ==
  ASSUME TypeOK
  PROVE  /\ \A n \in Slots : Sorted[n] \in Slots /\ RankOf(Sorted[n]) = n - 1
         /\ \A i \in Slots : /\ RankOf(i) + 1 \in Slots /\ Sorted[RankOf(i) + 1] = i
                             /\ Remap(i) = RankOf(i)
  <1>0. Len(acct_keys) \in Nat /\ Slots = 1..Len(acct_keys)
    BY DEF TypeOK, Slots
  <1>1. /\ \A i \in Slots : RankOf(i) \in 0..(Len(acct_keys) - 1)
        /\ \A i, j \in Slots : RankOf(i) = RankOf(j) => i = j
        /\ \A n \in 0..(Len(acct_keys) - 1) : \E i \in Slots : RankOf(i) = n
    BY RanksAre
  <1>2. Sorted = [n \in Slots |-> CHOOSE i \in Slots : RankOf(i) = n - 1]
    BY DEF Sorted, RankOf, Before
  <1>3. ASSUME NEW n \in Slots PROVE Sorted[n] \in Slots /\ RankOf(Sorted[n]) = n - 1
    <2>1. n - 1 \in 0..(Len(acct_keys) - 1)
      BY <1>0
    <2>2. \E i \in Slots : RankOf(i) = n - 1
      BY <1>1, <2>1
    <2>3. Sorted[n] = CHOOSE i \in Slots : RankOf(i) = n - 1
      BY <1>2
    <2> HIDE DEF Slots
    <2> QED BY <2>2, <2>3
  <1>4. ASSUME NEW i \in Slots
        PROVE  RankOf(i) + 1 \in Slots /\ Sorted[RankOf(i) + 1] = i /\ Remap(i) = RankOf(i)
    <2>1. PICK k \in 0..(Len(acct_keys) - 1) : k = RankOf(i)
      BY <1>1
    <2>2. PICK r \in Slots : r = k + 1
      BY <1>0
    <2>3. r - 1 = k /\ k \in Int
      BY <2>2
    <2>4. PICK x \in Slots : x = Sorted[r] /\ RankOf(x) = r - 1
      BY <1>3
    <2>5. x = i
      BY <1>1, <2>1, <2>3, <2>4
    <2>6. ASSUME NEW n \in Slots, Sorted[n] = i PROVE n = r
      <3>1. RankOf(i) = n - 1
        BY <1>3, <2>6
      <3>2. n \in Int
        BY <1>0
      <3> QED BY <2>1, <2>2, <3>1, <3>2
    <2>7. (CHOOSE n \in Slots : Sorted[n] = i) = r
      BY <2>4, <2>5, <2>6
    <2>8. Remap(i) = r - 1
      BY <2>7 DEF Remap
    <2> QED BY <2>1, <2>2, <2>3, <2>4, <2>5, <2>8
  <1> QED BY <1>3, <1>4

\* The slots of a set that precede all others have the first places.
LEMMA Segment ==
  ASSUME TypeOK, NEW A \in SUBSET Slots, \A i \in A : \A j \in Slots \ A : Precedes(i, j)
  PROVE  /\ Cardinality(A) \in 0..Len(acct_keys) /\ IsFiniteSet(A)
         /\ \A i \in Slots : i \in A <=> RankOf(i) < Cardinality(A)
  <1>0. /\ IsFiniteSet(Slots) /\ Cardinality(Slots) = Len(acct_keys) /\ Len(acct_keys) \in Nat
        /\ \A i \in Slots : IsFiniteSet(Before(i)) /\ RankOf(i) \in 0..(Len(acct_keys) - 1)
    BY RanksAre
  <1> HIDE DEF Slots
  <1>1. IsFiniteSet(A) /\ Cardinality(A) <= Len(acct_keys) /\ Cardinality(A) \in Nat
    BY <1>0, FS_Subset, FS_CardinalityType
  <1>2. ASSUME NEW i \in A PROVE RankOf(i) < Cardinality(A)
    <2>1. Before(i) \in SUBSET (A \ {i})
      BY PrecedesOrders DEF Before
    <2>2. IsFiniteSet(A \ {i}) /\ Cardinality(A \ {i}) = Cardinality(A) - 1
      BY <1>1, FS_RemoveElement
    <2>3. Cardinality(Before(i)) <= Cardinality(A) - 1
      BY <2>1, <2>2, FS_Subset
    <2>4. RankOf(i) \in Int
      BY <1>0
    <2> QED BY <1>1, <2>3, <2>4 DEF RankOf
  <1>3. ASSUME NEW i \in Slots \ A PROVE ~(RankOf(i) < Cardinality(A))
    <2>1. A \in SUBSET Before(i)
      BY DEF Before
    <2>2. Cardinality(A) <= Cardinality(Before(i))
      BY <1>0, <2>1, FS_Subset
    <2>3. RankOf(i) \in Int
      BY <1>0
    <2> QED BY <1>1, <2>2, <2>3 DEF RankOf
  <1> QED BY <1>0, <1>1, <1>2, <1>3

-----------------------------------------------------------------------------
(* The message.                                                            *)

LEMMA BuildNeeds ==
  ASSUME TypeOK
  PROVE  /\ Build \in {"Ok", "ValidationFailed"} =>
              fee_payer # None /\ SigCount \in 1..SigMax /\ instrs # <<>>
         /\ Build = "ValidationFailed" => ~Accepts(Message)
  <1>1. CASE fee_payer = None
    BY <1>1 DEF Build
  <1>2. CASE fee_payer # None /\ ~blockhash
    BY <1>2 DEF Build
  <1>3. CASE fee_payer # None /\ blockhash /\ instrs = <<>>
    BY <1>3 DEF Build
  <1>4. CASE fee_payer # None /\ blockhash /\ instrs # <<>>
    <2>1. Build = IF SigCount \notin 1..SigMax THEN "TooManySigners"
                  ELSE IF ~Fits THEN "TransactionTooLarge"
                  ELSE Validate(Message)
      BY <1>4 DEF Build
    <2>2. Validate(Message) = IF Accepts(Message) THEN "Ok" ELSE "ValidationFailed"
      BY DEF Validate
    <2> QED BY <1>4, <2>1, <2>2
  <1> QED BY <1>1, <1>2, <1>3, <1>4

\* The fee payer has a slot, with both permissions, and nothing comes before it.
LEMMA PayerPlace ==
  ASSUME Inv, TableInv, fee_payer # None
  PROVE  /\ Slot(fee_payer) \in Slots /\ acct_keys[Slot(fee_payer)] = fee_payer
         /\ Signer(Slot(fee_payer)) /\ Writable(Slot(fee_payer))
         /\ RankOf(Slot(fee_payer)) = 0
  <1> DEFINE p == Slot(fee_payer)
  <1>1. p \in Slots /\ acct_keys[p] = fee_payer
    <2>1. Found(fee_payer)
      BY DEF TableInv, PayerIn, Found
    <2> QED BY <2>1 DEF Slot, Found
  <1>2. acct_flags[p] = {"signer", "writable"}
    BY <1>1 DEF TableInv, PayerIn
  <1>3. Signer(p) /\ Writable(p)
    BY <1>2 DEF Signer, Writable
  <1>4. ASSUME NEW j \in Slots PROVE ~Precedes(j, p)
    <2>1. CASE j = p
      BY <1>1, <2>1, PrecedesOrders DEF Inv
    <2>2. CASE j # p
      BY <2>2, PrecedesIs
    <2> QED BY <2>1, <2>2
  <1>5. Before(p) = {}
    BY <1>4 DEF Before
  <1>6. RankOf(p) = 0
    BY <1>5, FS_EmptySet DEF RankOf
  <1> QED BY <1>1, <1>3, <1>6

\* The three counts of the header cut the sorted table where the permissions
\* change.
LEMMA HeaderCuts ==
  ASSUME Inv, TableInv, fee_payer # None
  PROVE  /\ SigCount \in Nat /\ ReadonlySigned \in Nat /\ ReadonlyUnsigned \in Nat
         /\ ReadonlySigned < SigCount /\ SigCount + ReadonlyUnsigned <= Len(acct_keys)
         /\ \A i \in Slots :
              /\ Signer(i) <=> RankOf(i) < SigCount
              /\ Signer(i) /\ Writable(i) <=> RankOf(i) < SigCount - ReadonlySigned
              /\ Signer(i) \/ Writable(i) <=> RankOf(i) < Len(acct_keys) - ReadonlyUnsigned
  <1> DEFINE p == Slot(fee_payer)
             S == {i \in Slots : Signer(i)}
             R == {i \in Slots : Signer(i) /\ ~Writable(i)}
             B == {i \in Slots : Signer(i) /\ Writable(i)}
             U == {i \in Slots : ~Signer(i) /\ ~Writable(i)}
             E == {i \in Slots : Signer(i) \/ Writable(i)}
  <1>p. p \in Slots /\ Signer(p) /\ Writable(p)
    BY PayerPlace
  <1>t. TypeOK
    BY DEF Inv
  <1>f. IsFiniteSet(Slots) /\ Cardinality(Slots) = Len(acct_keys) /\ Len(acct_keys) \in Nat
    BY <1>t, RanksAre
  <1>1. \A i \in S : \A j \in Slots \ S : Precedes(i, j)
    <2> SUFFICES ASSUME NEW i \in S, NEW j \in Slots \ S PROVE Precedes(i, j)
      OBVIOUS
    <2>1. SortKey(i) < SortKey(j)
      BY SortKeys
    <2>2. j # p
      BY <1>p
    <2> QED BY <2>1, <2>2, PrecedesIs
  <1>2. \A i \in B : \A j \in Slots \ B : Precedes(i, j)
    <2> SUFFICES ASSUME NEW i \in B, NEW j \in Slots \ B PROVE Precedes(i, j)
      OBVIOUS
    <2>1. SortKey(i) < SortKey(j)
      BY SortKeys
    <2>2. j # p
      BY <1>p
    <2> QED BY <2>1, <2>2, PrecedesIs
  <1>3. \A i \in E : \A j \in Slots \ E : Precedes(i, j)
    <2> SUFFICES ASSUME NEW i \in E, NEW j \in Slots \ E PROVE Precedes(i, j)
      OBVIOUS
    <2>1. SortKey(i) < SortKey(j)
      BY SortKeys
    <2>2. j # p
      BY <1>p
    <2> QED BY <2>1, <2>2, PrecedesIs
  <1>4. /\ IsFiniteSet(S) /\ Cardinality(S) \in 0..Len(acct_keys)
        /\ \A i \in Slots : i \in S <=> RankOf(i) < Cardinality(S)
    <2>1. S \in SUBSET Slots
      OBVIOUS
    <2> HIDE DEF S
    <2> QED BY <1>t, <1>1, <2>1, Segment
  <1>5. /\ IsFiniteSet(B) /\ Cardinality(B) \in 0..Len(acct_keys)
        /\ \A i \in Slots : i \in B <=> RankOf(i) < Cardinality(B)
    <2>1. B \in SUBSET Slots
      OBVIOUS
    <2> HIDE DEF B
    <2> QED BY <1>t, <1>2, <2>1, Segment
  <1>6. /\ IsFiniteSet(E) /\ Cardinality(E) \in 0..Len(acct_keys)
        /\ \A i \in Slots : i \in E <=> RankOf(i) < Cardinality(E)
    <2>1. E \in SUBSET Slots
      OBVIOUS
    <2> HIDE DEF E
    <2> QED BY <1>t, <1>3, <2>1, Segment
  <1>7. SigCount = Cardinality(S) /\ ReadonlySigned = Cardinality(R) /\ ReadonlyUnsigned = Cardinality(U)
    BY DEF SigCount, ReadonlySigned, ReadonlyUnsigned
  <1>8. /\ R \in SUBSET Slots /\ U \in SUBSET Slots /\ S \in SUBSET E
        /\ S = R \cup B /\ R \cap B = {} /\ Slots = E \cup U /\ E \cap U = {} /\ p \in B
    BY <1>p
  <1> HIDE DEF S, R, B, U, E, p
  <1>9. IsFiniteSet(R) /\ IsFiniteSet(U) /\ Cardinality(R) \in Nat /\ Cardinality(U) \in Nat
    BY <1>f, <1>8, FS_Subset, FS_CardinalityType
  <1>10. Cardinality(S) = Cardinality(R) + Cardinality(B)
    <2>1. Cardinality(R \cup B) = Cardinality(R) + Cardinality(B) - Cardinality(R \cap B)
      BY <1>5, <1>9, FS_Union
    <2>2. Cardinality(R \cap B) = 0
      BY <1>8, FS_EmptySet
    <2> QED BY <1>5, <1>8, <1>9, <2>1, <2>2
  <1>11. Len(acct_keys) = Cardinality(E) + Cardinality(U)
    <2>1. Cardinality(E \cup U) = Cardinality(E) + Cardinality(U) - Cardinality(E \cap U)
      BY <1>6, <1>9, FS_Union
    <2>2. Cardinality(E \cap U) = 0
      BY <1>8, FS_EmptySet
    <2> QED BY <1>f, <1>6, <1>8, <1>9, <2>1, <2>2
  <1>12. Cardinality(B) # 0
    BY <1>5, <1>8, FS_EmptySet
  <1>13. Cardinality(S) <= Cardinality(E)
    BY <1>6, <1>8, FS_Subset
  <1>14. /\ Cardinality(S) \in Nat /\ Cardinality(R) < Cardinality(S)
         /\ Cardinality(S) + Cardinality(U) <= Len(acct_keys)
         /\ Cardinality(B) = Cardinality(S) - Cardinality(R)
         /\ Cardinality(E) = Len(acct_keys) - Cardinality(U)
    BY ONLY <1>f, <1>4, <1>5, <1>6, <1>9, <1>10, <1>11, <1>12, <1>13
  <1>15. \A i \in Slots : /\ Signer(i) <=> i \in S
                          /\ Signer(i) /\ Writable(i) <=> i \in B
                          /\ Signer(i) \/ Writable(i) <=> i \in E
    BY DEF S, B, E
  <1> QED BY <1>4, <1>5, <1>6, <1>7, <1>9, <1>14, <1>15

\* The accounts of the message are the sorted table, and an index that remap
\* gives leads to the key of the slot.
LEMMA MessageAccounts ==
  ASSUME Inv
  PROVE  /\ Len(acct_keys) \in Nat /\ Slots = 1..Len(acct_keys)
         /\ Len(Message.accounts) = Len(acct_keys)
         /\ \A n \in Slots : /\ Message.accounts[n] = acct_keys[Sorted[n]]
                             /\ Sorted[n] \in Slots /\ RankOf(Sorted[n]) = n - 1
         /\ \A i \in Slots : /\ Remap(i) \in 0..(Len(acct_keys) - 1) /\ Remap(i) = RankOf(i)
                             /\ Message.accounts[Remap(i) + 1] = acct_keys[i]
  <1>t. TypeOK
    BY DEF Inv
  <1>0. Len(acct_keys) \in Nat /\ Slots = 1..Len(acct_keys)
    BY <1>t DEF TypeOK, Slots
  <1>1. Message.accounts = [n \in Slots |-> acct_keys[Sorted[n]]]
    BY DEF Message
  <1>2. \A n \in Slots : Sorted[n] \in Slots /\ RankOf(Sorted[n]) = n - 1
    BY <1>t, SortedIs
  <1>3. \A i \in Slots : /\ RankOf(i) + 1 \in Slots /\ Sorted[RankOf(i) + 1] = i
                         /\ Remap(i) = RankOf(i) /\ RankOf(i) \in 0..(Len(acct_keys) - 1)
    BY <1>t, SortedIs, RanksAre
  <1>4. Len(Message.accounts) = Len(acct_keys)
    BY <1>0, <1>1
  <1>5. \A n \in Slots : Message.accounts[n] = acct_keys[Sorted[n]]
    BY <1>1
  <1>6. ASSUME NEW i \in Slots PROVE Message.accounts[Remap(i) + 1] = acct_keys[i]
    BY <1>3, <1>5
  <1> QED BY <1>0, <1>2, <1>3, <1>4, <1>5, <1>6

\* The instructions of the message.
LEMMA MessageInstrs ==
  ASSUME Inv
  PROVE  /\ Len(Message.instrs) = Len(wanted) /\ Len(wanted) = Len(instrs) /\ Len(instrs) \in Nat
         /\ \A n \in 1..Len(wanted) :
              /\ instrs[n] \in InstrEntry /\ wanted[n] \in Instructions
              /\ Message.instrs[n].program = Remap(instrs[n].program_idx)
              /\ Message.instrs[n].accounts = [j \in 1..instrs[n].acct_cnt |->
                                                 Remap(acct_buf[instrs[n].acct_off + j])]
              /\ Message.instrs[n].data = SubSeq(data_buf, instrs[n].data_off + 1,
                                                 instrs[n].data_off + instrs[n].data_len)
  <1>0. Len(wanted) = Len(instrs) /\ Len(instrs) \in Nat
    BY DEF Inv, TypeOK, Recorded
  <1>1. Message.instrs = [n \in 1..Len(instrs) |->
     [program  |-> Remap(instrs[n].program_idx),
      accounts |-> [j \in 1..instrs[n].acct_cnt |-> Remap(acct_buf[instrs[n].acct_off + j])],
      data     |-> SubSeq(data_buf, instrs[n].data_off + 1,
                          instrs[n].data_off + instrs[n].data_len)]]
    BY DEF Message
  <1>2. Len(Message.instrs) = Len(instrs)
    BY <1>0, <1>1
  <1>3. \A n \in 1..Len(wanted) : instrs[n] \in InstrEntry /\ wanted[n] \in Instructions
    BY <1>0 DEF Inv, TypeOK
  <1>4. ASSUME NEW n \in 1..Len(wanted)
        PROVE  /\ Message.instrs[n].program = Remap(instrs[n].program_idx)
               /\ Message.instrs[n].accounts = [j \in 1..instrs[n].acct_cnt |->
                                                  Remap(acct_buf[instrs[n].acct_off + j])]
               /\ Message.instrs[n].data = SubSeq(data_buf, instrs[n].data_off + 1,
                                                  instrs[n].data_off + instrs[n].data_len)
    <2> DEFINE prog == Remap(instrs[n].program_idx)
               accs == [j \in 1..instrs[n].acct_cnt |-> Remap(acct_buf[instrs[n].acct_off + j])]
               dat  == SubSeq(data_buf, instrs[n].data_off + 1,
                              instrs[n].data_off + instrs[n].data_len)
    <2>1. Message.instrs[n] = [program |-> prog, accounts |-> accs, data |-> dat]
      BY <1>0, <1>1
    <2> HIDE DEF prog, accs, dat
    <2>2. /\ Message.instrs[n].program = prog /\ Message.instrs[n].accounts = accs
          /\ Message.instrs[n].data = dat
      BY <2>1
    <2> QED BY <2>2 DEF prog, accs, dat
  <1>5. Len(Message.instrs) = Len(wanted)
    BY <1>0, <1>2
  <1> QED BY <1>0, <1>3, <1>4, <1>5

\* The fee payer is the first account of the message.
LEMMA PayerLeads ==
  ASSUME Inv, TableInv, fee_payer # None
  PROVE  Message.accounts[1] = fee_payer
  <1> DEFINE p == Slot(fee_payer)
  <1>1. p \in Slots /\ acct_keys[p] = fee_payer /\ RankOf(p) = 0
    BY PayerPlace
  <1>2. Remap(p) = 0
    BY <1>1, MessageAccounts
  <1> QED BY <1>1, <1>2, MessageAccounts

\* A program that is not the fee payer has an index that the parser accepts.
LEMMA ProgramBehindPayer ==
  ASSUME Inv, TableInv, fee_payer # None, NEW i \in Slots, acct_keys[i] # fee_payer
  PROVE  Remap(i) # 0
  <1> DEFINE p == Slot(fee_payer)
  <1>1. p \in Slots /\ acct_keys[p] = fee_payer /\ RankOf(p) = 0
    BY PayerPlace
  <1>2. i # p
    BY <1>1
  <1>3. RankOf(i) # RankOf(p)
    BY <1>1, <1>2, RanksAre DEF Inv
  <1> QED BY <1>1, <1>3, MessageAccounts

\* What the parser checks holds of the message unless the fee payer runs.
LEMMA AcceptedUnlessPayerRuns ==
  ASSUME Inv, TableInv, fee_payer # None, SigCount \in 1..SigMax,
         \A n \in 1..Len(wanted) : wanted[n].program_id # fee_payer
  PROVE  Accepts(Message)
  <1> DEFINE m == Message
  <1>1. m.sigs = SigCount /\ m.roSigned = ReadonlySigned /\ m.roUnsigned = ReadonlyUnsigned
    BY DEF Message
  <1>2. Len(acct_keys) \in Nat /\ Len(m.accounts) = Len(acct_keys)
    BY MessageAccounts
  <1>3. ASSUME NEW n \in 1..Len(m.instrs)
        PROVE  /\ m.instrs[n].program \in 1..Len(m.accounts) - 1
               /\ \A j \in DOMAIN m.instrs[n].accounts :
                    m.instrs[n].accounts[j] \in 0..Len(m.accounts) - 1
    <2>1. /\ n \in 1..Len(wanted) /\ instrs[n] \in InstrEntry
          /\ m.instrs[n].program = Remap(instrs[n].program_idx)
          /\ m.instrs[n].accounts = [j \in 1..instrs[n].acct_cnt |->
                                       Remap(acct_buf[instrs[n].acct_off + j])]
      BY MessageInstrs
    <2> HIDE DEF m
    <2>2. instrs[n].program_idx \in Slots /\ acct_keys[instrs[n].program_idx] # fee_payer
      BY <2>1 DEF Inv, Recorded
    <2>3. PICK r \in 0..(Len(acct_keys) - 1) : r = Remap(instrs[n].program_idx) /\ r # 0
      BY <2>2, ProgramBehindPayer, MessageAccounts
    <2>4. m.instrs[n].program \in 1..Len(m.accounts) - 1
      BY <1>2, <2>1, <2>3
    <2>5. ASSUME NEW j \in DOMAIN m.instrs[n].accounts
          PROVE  m.instrs[n].accounts[j] \in 0..Len(m.accounts) - 1
      <3>1. j \in 1..instrs[n].acct_cnt
        BY <2>1
      <3>2. acct_buf[instrs[n].acct_off + j] \in Slots
        BY <2>1, <3>1 DEF Inv, Recorded
      <3>3. m.instrs[n].accounts[j] = Remap(acct_buf[instrs[n].acct_off + j])
        BY <2>1, <3>1
      <3> QED BY <1>2, <3>2, <3>3, MessageAccounts
    <2> QED BY <2>4, <2>5
  <1>4. /\ ReadonlySigned < SigCount /\ SigCount + ReadonlyUnsigned <= Len(acct_keys)
        /\ SigCount \in Nat /\ ReadonlySigned \in Nat /\ ReadonlyUnsigned \in Nat
    BY HeaderCuts
  <1>5. SigCount <= Len(acct_keys)
    BY <1>2, <1>4
  <1> HIDE DEF m
  <1>6. Accepts(m)
    BY <1>1, <1>2, <1>3, <1>4, <1>5 DEF Accepts
  <1> QED BY <1>6 DEF m

\* By its place an account has the flags of its slot.
LEMMA FlagsByPlace ==
  ASSUME Inv, TableInv, fee_payer # None, NEW n \in Slots
  PROVE  FlagsAt(Message, n - 1) = acct_flags[Sorted[n]]
  <1> DEFINE m == Message
  <1>1. PICK i \in Slots : i = Sorted[n] /\ RankOf(i) = n - 1
    BY MessageAccounts
  <1>2. m.sigs = SigCount /\ m.roSigned = ReadonlySigned /\ m.roUnsigned = ReadonlyUnsigned
    BY DEF Message
  <1>3. Len(acct_keys) \in Nat /\ Len(m.accounts) = Len(acct_keys) /\ n \in Int
    BY MessageAccounts
  <1>4. SigCount \in Nat /\ ReadonlySigned \in Nat /\ ReadonlyUnsigned \in Nat
    BY HeaderCuts
  <1>5. /\ Signer(i) <=> n - 1 < SigCount
        /\ Signer(i) /\ Writable(i) <=> n - 1 < SigCount - ReadonlySigned
        /\ Signer(i) \/ Writable(i) <=> n - 1 < Len(acct_keys) - ReadonlyUnsigned
    BY <1>1, HeaderCuts
  <1> HIDE DEF m
  <1>6. IsSigner(m, n - 1) <=> Signer(i)
    BY <1>2, <1>5 DEF IsSigner
  <1>7. IsWritable(m, n - 1) <=> Writable(i)
    <2>1. IsWritable(m, n - 1) <=> \/ Signer(i) /\ Writable(i)
                                   \/ ~Signer(i) /\ (Signer(i) \/ Writable(i))
      BY <1>2, <1>3, <1>4, <1>5 DEF IsWritable
    <2> QED BY <2>1
  <1>8. acct_flags[i] \in SUBSET Permissions
    BY DEF Inv, TypeOK, Slots
  <1>9. FlagsAt(m, n - 1) = acct_flags[i]
    BY <1>6, <1>7, <1>8 DEF FlagsAt, Permissions, Signer, Writable
  <1> QED BY <1>1, <1>9 DEF m

-----------------------------------------------------------------------------
(* The theorems about build.                                               *)

\* FeePayerFirst: build puts the fee payer first, whatever was inserted into
\* the table before fee_payer was called and however often it was called.
THEOREM PayerAlwaysFirst == Spec => []FeePayerFirst
  <1>1. Inv /\ TableInv => FeePayerFirst
    BY PayerLeads, BuildNeeds DEF FeePayerFirst, Built, Inv
  <1> QED BY <1>1, TableAlways, PTL

\* ValidUnlessPayerRuns: the parser that build hands its bytes to refuses them
\* only where the fee payer is the program of an instruction.
THEOREM RefusedOnlyIfPayerRuns == Spec => []ValidUnlessPayerRuns
  <1>1. Inv /\ TableInv => ValidUnlessPayerRuns
    BY AcceptedUnlessPayerRuns, BuildNeeds DEF ValidUnlessPayerRuns, Inv
  <1> QED BY <1>1, TableAlways, PTL

\* PermissionsKept: the place that build's sort gives an account and the counts
\* of the header give it the permissions asked for it.
THEOREM PermissionsAlwaysKept == Spec => []PermissionsKept
  <1>1. ASSUME Inv, TableInv, Built PROVE
          LET m == Message
          IN \A n \in 1..Len(m.accounts) :
               /\ asked[m.accounts[n]] \subseteq FlagsAt(m, n - 1)
               /\ failed = <<>> => FlagsAt(m, n - 1) = asked[m.accounts[n]]
    <2>1. fee_payer # None /\ Idle
      BY <1>1, BuildNeeds DEF Built, Inv
    <2>2. SUFFICES ASSUME NEW n \in Slots
                   PROVE  /\ asked[Message.accounts[n]] \subseteq FlagsAt(Message, n - 1)
                          /\ failed = <<>> => FlagsAt(Message, n - 1) = asked[Message.accounts[n]]
      BY <1>1, MessageAccounts
    <2>3. PICK i \in Slots : i = Sorted[n] /\ Message.accounts[n] = acct_keys[i]
      BY <1>1, MessageAccounts
    <2>4. FlagsAt(Message, n - 1) = acct_flags[i]
      BY <1>1, <2>1, <2>3, FlagsByPlace
    <2>5. Total(acct_keys[i]) = asked[acct_keys[i]]
      BY <2>1 DEF Total, Part
    <2>6. /\ Total(acct_keys[i]) \subseteq acct_flags[i]
          /\ failed = <<>> => acct_flags[i] = Total(acct_keys[i])
      BY <1>1 DEF TableInv, Granted
    <2> QED BY <2>3, <2>4, <2>5, <2>6
  <1>2. Inv /\ TableInv => PermissionsKept
    BY <1>1 DEF PermissionsKept
  <1> QED BY <1>2, TableAlways, PTL

\* RoundTrip: program_id_address, account_addresses and data of a transaction
\* that was built give back what add_instruction was given.
THEOREM TxnRoundTrips == Spec => []RoundTrip
  <1>1. ASSUME Inv, TableInv, Built, NEW n \in 1..Len(wanted)
        PROVE  /\ ProgramOf(Message, n) = wanted[n].program_id
               /\ AccountsOf(Message, n) = [j \in DOMAIN wanted[n].accounts |->
                                              wanted[n].accounts[j].pubkey]
               /\ Message.instrs[n].data = wanted[n].data
    <2> DEFINE m == Message
               e == instrs[n]
               w == wanted[n]
    <2>1. /\ e \in InstrEntry /\ w \in Instructions
          /\ m.instrs[n].program = Remap(e.program_idx)
          /\ m.instrs[n].accounts = [j \in 1..e.acct_cnt |-> Remap(acct_buf[e.acct_off + j])]
          /\ m.instrs[n].data = SubSeq(data_buf, e.data_off + 1, e.data_off + e.data_len)
      BY <1>1, MessageInstrs
    <2>2. \A i \in Slots : m.accounts[Remap(i) + 1] = acct_keys[i]
      BY <1>1, MessageAccounts
    <2>3. /\ e.program_idx \in Slots /\ acct_keys[e.program_idx] = w.program_id
          /\ e.acct_cnt = Len(w.accounts)
          /\ \A j \in 1..e.acct_cnt :
               /\ acct_buf[e.acct_off + j] \in Slots
               /\ acct_keys[acct_buf[e.acct_off + j]] = w.accounts[j].pubkey
      BY <1>1 DEF Inv, Recorded
    <2>4. /\ e.data_len = Len(w.data) /\ e.data_off + e.data_len <= Len(data_buf)
          /\ \A j \in 1..e.data_len : data_buf[e.data_off + j] = w.data[j]
      BY <1>1 DEF TableInv, DataRecorded
    <2>5. w.accounts \in Seq(Metas) /\ w.data \in Seq(Bytes)
      BY <2>1, InstructionsAssumption
    <2>6. data_buf \in Seq(Bytes)
      BY <1>1 DEF Inv, TypeOK
    <2>7. e.data_off \in Nat /\ e.data_len \in Nat
      BY <2>1 DEF InstrEntry
    <2> HIDE DEF m, e, w
    <2>8. ProgramOf(m, n) = w.program_id
      BY <2>1, <2>2, <2>3 DEF ProgramOf
    <2>9. AccountsOf(m, n) = [j \in DOMAIN w.accounts |-> w.accounts[j].pubkey]
      <3>1. DOMAIN w.accounts = 1..e.acct_cnt
        BY <2>3, <2>5
      <3>2. DOMAIN m.instrs[n].accounts = 1..e.acct_cnt
        BY <2>1
      <3>3. ASSUME NEW j \in 1..e.acct_cnt
            PROVE  m.accounts[m.instrs[n].accounts[j] + 1] = w.accounts[j].pubkey
        <4>1. m.instrs[n].accounts[j] = Remap(acct_buf[e.acct_off + j])
          BY <2>1
        <4> QED BY <2>2, <2>3, <4>1
      <3> QED BY <3>1, <3>2, <3>3 DEF AccountsOf
    <2>10. m.instrs[n].data = w.data
      <3> DEFINE lo == e.data_off
                 cnt == e.data_len
                 d == SubSeq(data_buf, lo + 1, lo + cnt)
      <3>0. Len(data_buf) \in Nat /\ lo + cnt <= Len(data_buf) /\ lo \in Nat /\ cnt \in Nat
        BY <2>4, <2>6, <2>7
      <3> HIDE DEF lo, cnt
      <3>1. \A j \in (lo + 1)..(lo + cnt) : data_buf[j] \in Bytes
        BY <2>6, <3>0
      <3>2. d \in Seq(Bytes) /\ Len(d) = cnt /\ \A j \in 1..cnt : d[j] = data_buf[lo + j]
        <4>1. lo + 1 \in 1..(Len(data_buf) + 1) /\ lo + cnt \in lo..Len(data_buf)
          BY <3>0
        <4> QED BY <2>6, <3>0, <4>1, SubSeqProperties
      <3>3. Len(d) = Len(w.data) /\ \A j \in 1..Len(d) : d[j] = w.data[j]
        BY <2>4, <3>2 DEF lo, cnt
      <3> HIDE DEF d
      <3>4. d = w.data
        BY <2>5, <3>2, <3>3, SeqEqual
      <3> QED BY <2>1, <3>4 DEF d, lo, cnt
    <2> QED BY <2>8, <2>9, <2>10 DEF m, w
  <1>2. ASSUME Inv, TableInv PROVE RoundTrip
    <2>1. Len(Message.instrs) = Len(wanted)
      BY <1>2, MessageInstrs
    <2> QED BY <1>1, <1>2, <2>1 DEF RoundTrip
  <1> QED BY <1>2, TableAlways, PTL

-----------------------------------------------------------------------------
(* The length of a message is a sum by recursion over its pieces, so what  *)
(* it comes to is proved by induction.  The finite subsets of a set are    *)
(* well founded, so a set of numbers has a least one; what holds of 0 and  *)
(* passes on from each number to the next holds of all of them; and a      *)
(* function defined by recursion exists and has the type its steps keep.   *)

LEMMA LeastNumber ==
  ASSUME NEW T, T \subseteq Nat, T # {}
  PROVE  \E n \in T : \A m \in T : n <= m
  <1> DEFINE U == {1..n : n \in T}
  <1>1. U \subseteq FiniteSubsetsOf(Nat) /\ U # {}
    <2>1. ASSUME NEW n \in T PROVE 1..n \in SUBSET Nat /\ IsFiniteSet(1..n)
      BY FS_Interval
    <2> QED BY <2>1 DEF FiniteSubsetsOf
  <1>2. PICK s \in U : \A r \in U : <<r, s>> \notin StrictSubsetOrdering(Nat)
    <2> HIDE DEF U
    <2> QED BY <1>1, FS_StrictSubsetOrderingWellFounded, WFMin
  <1>3. PICK n \in T : s = 1..n
    OBVIOUS
  <1>4. ASSUME NEW m \in T, m < n PROVE FALSE
    <2>1. 1..m \in U /\ 1..m \in SUBSET Nat /\ s \in SUBSET Nat
      BY <1>3, <1>4
    <2>2. 1..m \subseteq s /\ n \in s /\ n \notin 1..m
      BY <1>3, <1>4
    <2> QED BY <1>2, <2>1, <2>2 DEF StrictSubsetOrdering
  <1> QED BY <1>4

LEMMA AllNumbers ==
  ASSUME NEW T, 0 \in T, \A n \in Nat : n \in T => n + 1 \in T
  PROVE  Nat \subseteq T
  <1> SUFFICES ASSUME Nat \ T # {} PROVE FALSE
    OBVIOUS
  <1>1. PICK n \in Nat \ T : \A m \in Nat \ T : n <= m
    BY LeastNumber
  <1>2. n # 0 /\ n - 1 \in Nat /\ n - 1 \in T
    BY <1>1
  <1> QED BY <1>1, <1>2

\* f is the function on 0..N that starts with v and goes on by the steps d.
Recursive(f, N, v, d) == f = [n \in 0..N |-> IF n = 0 THEN v ELSE d[n][f[n - 1]]]

LEMMA RecursionExists ==
  ASSUME NEW V, NEW v \in V, NEW d, \A n \in Nat : d[n] \in [V -> V]
  PROVE  \A N \in Nat : \E f \in [0..N -> V] : Recursive(f, N, v, d)
  <1> DEFINE T == {N \in Nat : \E f \in [0..N -> V] : Recursive(f, N, v, d)}
  <1>1. 0 \in T
    <2> DEFINE f == [n \in 0..0 |-> v]
    <2>1. f \in [0..0 -> V] /\ Recursive(f, 0, v, d)
      BY DEF Recursive
    <2> QED BY <2>1
  <1>2. ASSUME NEW N \in Nat, N \in T PROVE N + 1 \in T
    <2>1. PICK f \in [0..N -> V] : Recursive(f, N, v, d)
      BY <1>2
    <2> DEFINE h == [n \in 0..N+1 |-> IF n = N+1 THEN d[N+1][f[N]] ELSE f[n]]
    <2>2. h \in [0..N+1 -> V]
      OBVIOUS
    <2>3. ASSUME NEW n \in 0..N+1 PROVE h[n] = IF n = 0 THEN v ELSE d[n][h[n - 1]]
      <3>1. CASE n = N + 1
        BY <3>1
      <3>2. CASE n # N + 1
        <4>1. n \in 0..N /\ f[n] = IF n = 0 THEN v ELSE d[n][f[n - 1]]
          BY <2>1, <3>2 DEF Recursive
        <4> QED BY <4>1
      <3> QED BY <3>1, <3>2
    <2> HIDE DEF h
    <2>4. Recursive(h, N + 1, v, d)
      BY <2>2, <2>3 DEF Recursive
    <2> QED BY <2>2, <2>4
  <1>3. Nat \subseteq T
    <2> HIDE DEF T
    <2> QED BY <1>1, <1>2, AllNumbers
  <1> QED BY <1>3

-----------------------------------------------------------------------------
(* The length of a message.                                                *)

\* A piece asks for at least what it takes, and for two bytes more at most
\* (write_cu16 asks for three whatever it writes).
Piece == {p \in [need: Nat, take: Nat] : p.take <= p.need /\ p.need <= p.take + 2}

LEMMA FlattenType ==
  ASSUME NEW S, NEW s \in Seq(Seq(S))
  PROVE  FlattenSeq(s) \in Seq(S)
  <1>1. CASE Len(s) = 0
    BY <1>1 DEF FlattenSeq
  <1>2. CASE Len(s) # 0
    <2> DEFINE flatten[i \in 1..Len(s)] == IF i = 1 THEN s[i] ELSE flatten[i - 1] \o s[i]
               d == [n \in Nat |-> [v \in Seq(S) |-> IF n \in 1..Len(s) THEN v \o s[n] ELSE v]]
    <2>1. Len(s) \in Nat /\ Len(s) >= 1 /\ \A n \in 1..Len(s) : s[n] \in Seq(S)
      BY <1>2
    <2>2. /\ \A n \in Nat : d[n] \in [Seq(S) -> Seq(S)]
          /\ \A n \in 1..Len(s), v \in Seq(S) : d[n][v] = v \o s[n]
      <3>1. \A n \in Nat, v \in Seq(S) : n \in 1..Len(s) => v \o s[n] \in Seq(S)
        <4>1. \A v, w \in Seq(S) : v \o w \in Seq(S)
          OBVIOUS
        <4> QED BY <2>1, <4>1
      <3>2. \A n \in 1..Len(s) : n \in Nat
        BY <2>1
      <3> QED BY <3>1, <3>2, Zenon
    <2>3. <<>> \in Seq(S)
      OBVIOUS
    <2>4. PICK f \in [0..Len(s) -> Seq(S)] : Recursive(f, Len(s), <<>>, d)
      <3> HIDE DEF d
      <3> QED BY <2>1, <2>2, <2>3, RecursionExists
    <2>5. f[0] = <<>> /\ \A n \in 1..Len(s) : f[n - 1] \in Seq(S) /\ f[n] = f[n - 1] \o s[n]
      <3>1. \A n \in 0..Len(s) : f[n] = IF n = 0 THEN <<>> ELSE d[n][f[n - 1]]
        BY <2>4 DEF Recursive
      <3> HIDE DEF d
      <3>2. ASSUME NEW n \in 1..Len(s) PROVE f[n - 1] \in Seq(S) /\ f[n] = f[n - 1] \o s[n]
        <4>1. n - 1 \in 0..Len(s) /\ n \in 0..Len(s) /\ n # 0
          BY <2>1
        <4>2. f[n - 1] \in Seq(S)
          BY <4>1
        <4> QED BY <2>2, <3>1, <4>1, <4>2
      <3>3. 0 \in 0..Len(s)
        BY <2>1
      <3> QED BY <3>1, <3>2, <3>3
    <2>6. f[1] = s[1]
      <3>1. 1 \in 1..Len(s) /\ 1 - 1 = 0
        BY <2>1
      <3>2. f[1] = <<>> \o s[1] /\ s[1] \in Seq(S)
        BY <2>1, <2>5, <3>1, Zenon
      <3>3. \A v \in Seq(S) : <<>> \o v = v
        OBVIOUS
      <3> QED BY <3>2, <3>3
    <2> DEFINE g == [n \in 1..Len(s) |-> f[n]]
    <2>7. g = [i \in 1..Len(s) |-> IF i = 1 THEN s[i] ELSE g[i - 1] \o s[i]]
      <3>1. ASSUME NEW i \in 1..Len(s) PROVE f[i] = IF i = 1 THEN s[i] ELSE g[i - 1] \o s[i]
        <4>1. CASE i = 1
          BY <2>6, <4>1
        <4>2. CASE i # 1
          <5>1. i - 1 \in 1..Len(s)
            BY <2>1, <4>2
          <5> QED BY <2>5, <4>2, <5>1
        <4> QED BY <4>1, <4>2
      <3> QED BY <3>1
    <2>8. flatten = [i \in 1..Len(s) |-> IF i = 1 THEN s[i] ELSE flatten[i - 1] \o s[i]]
      <3> HIDE DEF g
      <3> QED BY <2>7
    <2>9. FlattenSeq(s) = flatten[Len(s)]
      BY <1>2 DEF FlattenSeq
    <2> HIDE DEF flatten
    <2>10. flatten[1] = s[1] /\ \A i \in 2..Len(s) : flatten[i] = flatten[i - 1] \o s[i]
      <3>1. 1 \in 1..Len(s) /\ \A i \in 2..Len(s) : i \in 1..Len(s) /\ i # 1
        BY <2>1
      <3>2. \A i \in 1..Len(s) : flatten[i] = IF i = 1 THEN s[i] ELSE flatten[i - 1] \o s[i]
        BY <2>8, Zenon
      <3> QED BY <3>1, <3>2, Zenon
    <2> DEFINE T == {n \in Nat : n + 1 <= Len(s) => flatten[n + 1] \in Seq(S)}
    <2>11. 0 \in T
      BY <2>1, <2>10
    <2>12. ASSUME NEW n \in Nat, n \in T PROVE n + 1 \in T
      <3>1. SUFFICES ASSUME (n + 1) + 1 <= Len(s) PROVE flatten[(n + 1) + 1] \in Seq(S)
        OBVIOUS
      <3>2. flatten[n + 1] \in Seq(S) /\ s[(n + 1) + 1] \in Seq(S)
        BY <2>1, <2>12, <3>1
      <3>3. (n + 1) + 1 \in 2..Len(s) /\ ((n + 1) + 1) - 1 = n + 1
        BY <2>1, <3>1
      <3>4. flatten[(n + 1) + 1] = flatten[n + 1] \o s[(n + 1) + 1]
        BY <2>10, <3>3
      <3> QED BY <3>2, <3>4
    <2>13. Len(s) - 1 \in T
      <3> HIDE DEF T
      <3>1. Nat \subseteq T
        BY <2>11, <2>12, AllNumbers
      <3> QED BY <2>1, <3>1
    <2> QED BY <2>1, <2>9, <2>13
  <1> QED BY <1>1, <1>2

\* The offsets go up by what each piece takes.
LEMMA OffsetsAre ==
  ASSUME NEW ps \in Seq(Piece)
  PROVE  /\ Offsets(ps) \in [0..Len(ps) -> Nat]
         /\ Offsets(ps)[0] = 0
         /\ \A n \in 1..Len(ps) : Offsets(ps)[n] = Offsets(ps)[n - 1] + ps[n].take
  <1> DEFINE off[n \in 0..Len(ps)] == IF n = 0 THEN 0 ELSE off[n - 1] + ps[n].take
             d == [n \in Nat |-> [v \in Nat |-> IF n \in 1..Len(ps) THEN v + ps[n].take ELSE v]]
  <1>1. Len(ps) \in Nat /\ \A n \in 1..Len(ps) : ps[n].take \in Nat
    <2>1. \A p \in Piece : p.take \in Nat
      BY DEF Piece
    <2>2. Len(ps) \in Nat /\ \A n \in 1..Len(ps) : ps[n] \in Piece
      OBVIOUS
    <2> QED BY <2>1, <2>2
  <1>2. /\ \A n \in Nat : d[n] \in [Nat -> Nat]
        /\ \A n \in 1..Len(ps), v \in Nat : d[n][v] = v + ps[n].take
    BY <1>1
  <1>3. PICK f \in [0..Len(ps) -> Nat] : Recursive(f, Len(ps), 0, d)
    <2> HIDE DEF d
    <2> QED BY <1>1, <1>2, RecursionExists
  <1>4. f = [n \in 0..Len(ps) |-> IF n = 0 THEN 0 ELSE f[n - 1] + ps[n].take]
    <2> HIDE DEF d
    <2>1. ASSUME NEW n \in 1..Len(ps) PROVE d[n][f[n - 1]] = f[n - 1] + ps[n].take
      <3>1. n - 1 \in 0..Len(ps)
        BY <1>1
      <3> QED BY <1>2, <3>1
    <2>2. \A n \in 0..Len(ps) : n = 0 \/ n \in 1..Len(ps)
      BY <1>1
    <2> QED BY <1>3, <2>1, <2>2 DEF Recursive
  <1>5. off = [n \in 0..Len(ps) |-> IF n = 0 THEN 0 ELSE off[n - 1] + ps[n].take]
    BY <1>4
  <1>6. Offsets(ps) = off
    BY DEF Offsets
  <1> HIDE DEF off
  <1> DEFINE T == {n \in Nat : n <= Len(ps) => off[n] \in Nat}
  <1>7. 0 \in T
    BY <1>1, <1>5
  <1>8. ASSUME NEW n \in Nat, n \in T PROVE n + 1 \in T
    <2>1. SUFFICES ASSUME n + 1 <= Len(ps) PROVE off[n + 1] \in Nat
      OBVIOUS
    <2>2. off[n + 1] = off[n] + ps[n + 1].take /\ off[n] \in Nat
      BY <1>1, <1>5, <1>8, <2>1
    <2> QED BY <1>1, <2>1, <2>2
  <1>9. \A n \in 0..Len(ps) : off[n] \in Nat
    <2> HIDE DEF T
    <2>1. Nat \subseteq T
      BY <1>7, <1>8, AllNumbers
    <2> QED BY <1>1, <2>1 DEF T
  <1>10. off[0] = 0 /\ \A n \in 1..Len(ps) : off[n] = off[n - 1] + ps[n].take
    BY <1>1, <1>5
  <1>11. off \in [0..Len(ps) -> Nat]
    <2>1. \E t : off = [n \in 0..Len(ps) |-> t[n]]
      BY <1>5
    <2> QED BY <1>9, <2>1
  <1> QED BY <1>6, <1>10, <1>11

LEMMA OffsetsGrow ==
  ASSUME NEW ps \in Seq(Piece), NEW n \in 0..Len(ps)
  PROVE  Offsets(ps)[n] <= Offsets(ps)[Len(ps)]
  <1> DEFINE off == Offsets(ps)
             T == {k \in Nat : n + k <= Len(ps) => off[n] <= off[n + k]}
  <1>1. /\ Len(ps) \in Nat /\ \A i \in 0..Len(ps) : off[i] \in Nat
        /\ \A i \in 1..Len(ps) : ps[i].take \in Nat /\ off[i] = off[i - 1] + ps[i].take
    <2>1. \A p \in Piece : p.take \in Nat
      BY DEF Piece
    <2>2. Len(ps) \in Nat /\ \A i \in 1..Len(ps) : ps[i] \in Piece
      OBVIOUS
    <2> QED BY <2>1, <2>2, OffsetsAre
  <1> HIDE DEF off
  <1>2. 0 \in T
    BY <1>1
  <1>3. ASSUME NEW k \in Nat, k \in T PROVE k + 1 \in T
    <2>1. SUFFICES ASSUME n + (k + 1) <= Len(ps) PROVE off[n] <= off[n + (k + 1)]
      OBVIOUS
    <2>2. n + k \in 0..Len(ps) /\ n + (k + 1) \in 1..Len(ps) /\ off[n] <= off[n + k]
      BY <1>1, <1>3, <2>1
    <2>3. off[n + (k + 1)] = off[n + k] + ps[n + (k + 1)].take
      BY <1>1, <2>2
    <2> QED BY <1>1, <2>2, <2>3
  <1>4. Len(ps) - n \in T
    <2> HIDE DEF T
    <2>1. Nat \subseteq T
      BY <1>2, <1>3, AllNumbers
    <2> QED BY <1>1, <2>1
  <1> QED BY <1>1, <1>4 DEF off

LEMMA PiecesType == TypeOK => Pieces \in Seq(Piece) /\ Len(Pieces) >= 1
  <1> SUFFICES ASSUME TypeOK PROVE Pieces \in Seq(Piece) /\ Len(Pieces) >= 1
    OBVIOUS
  <1>1. \A n \in Nat : Fixed(n) \in Piece /\ Cu16(n) \in Piece
    BY DEF Fixed, Cu16, Cu16Len, Piece
  <1>2. Len(acct_keys) \in Nat /\ Len(instrs) \in Nat /\ KeySz \in Nat /\ SigSz \in Nat
    BY TxnAssumption DEF TypeOK
  <1>3. SigCount \in Nat
    <2>1. IsFiniteSet(Slots)
      BY <1>2, FS_Interval DEF Slots
    <2>2. {i \in Slots : Signer(i)} \subseteq Slots
      OBVIOUS
    <2>3. IsFiniteSet({i \in Slots : Signer(i)})
      BY <2>1, <2>2, FS_Subset
    <2> QED BY <2>3, FS_CardinalityType DEF SigCount
  <1>4. SigCount * SigSz \in Nat
    BY <1>2, <1>3
  <1>5. [n \in Slots |-> Fixed(KeySz)] \in Seq(Piece)
    BY <1>1, <1>2 DEF Slots
  <1>6. \A e \in InstrEntry : InstrPieces(e) \in Seq(Piece)
    <2> SUFFICES ASSUME NEW e \in InstrEntry PROVE InstrPieces(e) \in Seq(Piece)
      OBVIOUS
    <2>1. e.acct_cnt \in Nat /\ e.data_len \in Nat
      BY DEF InstrEntry
    <2> QED BY <1>1, <2>1 DEF InstrPieces
  <1>7. FlattenSeq([n \in 1..Len(instrs) |-> InstrPieces(instrs[n])]) \in Seq(Piece)
    <2>1. \A n \in 1..Len(instrs) : instrs[n] \in InstrEntry
      BY DEF TypeOK
    <2>2. [n \in 1..Len(instrs) |-> InstrPieces(instrs[n])] \in Seq(Seq(Piece))
      BY <1>2, <1>6, <2>1
    <2> QED BY <2>2, FlattenType
  <1>8. \A s \in Seq(Piece) : OnlyV0(s) \in Seq(Piece)
    BY DEF OnlyV0
  <1>9. /\ <<Cu16(SigCount), Fixed(SigCount * SigSz)>> \in Seq(Piece)
        /\ <<Fixed(1)>> \in Seq(Piece) /\ <<Cu16(0)>> \in Seq(Piece)
        /\ <<Fixed(3), Cu16(Len(acct_keys))>> \in Seq(Piece)
        /\ <<Fixed(KeySz), Cu16(Len(instrs))>> \in Seq(Piece)
    BY <1>1, <1>2, <1>3, <1>4
  <1>10. \A s, t \in Seq(Piece) : s \o t \in Seq(Piece)
    OBVIOUS
  <1>11. \A s, t \in Seq(Piece) : Len(s \o t) >= Len(s) /\ Len(s \o t) \in Nat
    OBVIOUS
  <1>13. Len(<<Cu16(SigCount), Fixed(SigCount * SigSz)>>) = 2
    OBVIOUS
  <1> DEFINE a == <<Cu16(SigCount), Fixed(SigCount * SigSz)>>
             b == OnlyV0(<<Fixed(1)>>)
             c == <<Fixed(3), Cu16(Len(acct_keys))>>
             k == [n \in Slots |-> Fixed(KeySz)]
             e == <<Fixed(KeySz), Cu16(Len(instrs))>>
             f == FlattenSeq([n \in 1..Len(instrs) |-> InstrPieces(instrs[n])])
             g == OnlyV0(<<Cu16(0)>>)
  <1>14. Pieces = a \o b \o c \o k \o e \o f \o g
    BY DEF Pieces
  <1>15. /\ a \in Seq(Piece) /\ b \in Seq(Piece) /\ c \in Seq(Piece) /\ k \in Seq(Piece)
         /\ e \in Seq(Piece) /\ f \in Seq(Piece) /\ g \in Seq(Piece) /\ Len(a) = 2
    BY <1>5, <1>7, <1>8, <1>9, <1>13
  <1> HIDE DEF a, b, c, k, e, f, g
  <1> DEFINE Long(s) == s \in Seq(Piece) /\ Len(s) >= 1
  <1>16. \A s, t \in Seq(Piece) : Len(s) >= 1 => s \o t \in Seq(Piece) /\ Len(s \o t) >= 1
    BY <1>11
  <1>17. Long(a) /\ \A s, t : Long(s) /\ t \in Seq(Piece) => Long(s \o t)
    <2>1. Long(a)
      BY <1>15
    <2> QED BY <1>16, <2>1, Zenon
  <1> HIDE DEF Long
  <1>18. Long(a \o b \o c \o k)
    BY <1>15, <1>17, Zenon
  <1>19. Long((a \o b \o c \o k) \o e \o f \o g)
    BY <1>15, <1>17, <1>18, Zenon
  <1> QED BY <1>14, <1>19, Zenon DEF Long

LEMMA SizeIs == TypeOK => SizeHonest
  <1> SUFFICES ASSUME TypeOK PROVE SizeHonest
    OBVIOUS
  <1> DEFINE ps == Pieces
             off == Offsets(ps)
  <1>1. ps \in Seq(Piece) /\ Len(ps) \in Nat
    BY PiecesType
  <1>2. Len(ps) >= 1
    BY PiecesType
  <1>3. \A n \in 1..Len(ps) :
          /\ off[n - 1] \in Nat /\ off[n] = off[n - 1] + ps[n].take
          /\ ps[n].take \in Nat /\ ps[n].need \in Nat
          /\ ps[n].take <= ps[n].need /\ ps[n].need <= ps[n].take + 2
    <2>1. \A p \in Piece : /\ p.take \in Nat /\ p.need \in Nat
                           /\ p.take <= p.need /\ p.need <= p.take + 2
      BY DEF Piece
    <2>2. /\ off \in [0..Len(ps) -> Nat]
          /\ \A n \in 1..Len(ps) : off[n] = off[n - 1] + ps[n].take
      BY <1>1, OffsetsAre
    <2>3. \A n \in 1..Len(ps) : ps[n] \in Piece
      BY <1>1
    <2> HIDE DEF ps, off
    <2> QED BY <1>1, <2>1, <2>2, <2>3
  <1>4. Size = off[Len(ps)] /\ (Fits <=> \A n \in 1..Len(ps) : off[n - 1] + ps[n].need <= Mtu)
    BY DEF Size, Fits
  <1>5. \A n \in 1..Len(ps) : off[n] <= off[Len(ps)] /\ off[Len(ps)] \in Nat
    <2>1. off \in [0..Len(ps) -> Nat]
      BY <1>1, OffsetsAre
    <2>2. \A n \in 1..Len(ps) : n \in 0..Len(ps)
      BY <1>1
    <2>3. \A n \in 1..Len(ps) : off[n] <= off[Len(ps)]
      BY <1>1, <2>2, OffsetsGrow, Zenon
    <2>4. Len(ps) \in 0..Len(ps)
      BY <1>1
    <2> HIDE DEF off, ps
    <2> QED BY <2>1, <2>3, <2>4, Zenon
  <1>6. (Build = "Ok" => Fits) /\ (Build = "TransactionTooLarge" => ~Fits)
    <2>1. Validate(Message) # "TransactionTooLarge"
      BY DEF Validate
    <2> QED BY <2>1 DEF Build
  <1> HIDE DEF ps, off
  <1>7. ASSUME Fits PROVE Size <= Mtu
    <2>1. Len(ps) \in 1..Len(ps)
      BY <1>1, <1>2
    <2>2. off[Len(ps) - 1] + ps[Len(ps)].need <= Mtu
      BY <1>4, <1>7, <2>1, Zenon
    <2>3. /\ off[Len(ps) - 1] \in Nat /\ off[Len(ps)] = off[Len(ps) - 1] + ps[Len(ps)].take
          /\ ps[Len(ps)].take \in Nat /\ ps[Len(ps)].need \in Nat
          /\ ps[Len(ps)].take <= ps[Len(ps)].need
      BY <1>3, <2>1, Zenon
    <2> QED BY <1>4, <2>2, <2>3, TxnAssumption
  <1>8. ASSUME ~Fits PROVE Size > Mtu - 2
    <2>1. PICK n \in 1..Len(ps) : ~(off[n - 1] + ps[n].need <= Mtu)
      BY <1>4, <1>8
    <2>2. off[n] <= off[Len(ps)] /\ off[Len(ps)] \in Nat
      BY <1>5
    <2>3. /\ off[n - 1] \in Nat /\ off[n] = off[n - 1] + ps[n].take
          /\ ps[n].take \in Nat /\ ps[n].need \in Nat /\ ps[n].need <= ps[n].take + 2
      BY <1>3, Zenon
    <2>4. off[n] > Mtu - 2 /\ off[n] \in Nat
      BY <2>1, <2>3, TxnAssumption
    <2>5. off[Len(ps)] > Mtu - 2
      BY <2>2, <2>4, TxnAssumption
    <2> QED BY <1>4, <2>5
  <1> QED BY <1>6, <1>7, <1>8 DEF SizeHonest

(***************************************************************************)
(* What build hands out fits into a packet, and what it refuses as too     *)
(* large would leave less than the two bytes that write_cu16 asks for in   *)
(* excess (builder.rs build, write_cu16).                                  *)
(***************************************************************************)
THEOREM SizesAlwaysHonest == Spec => []SizeHonest
  <1>1. TypeOK => SizeHonest
    BY SizeIs
  <1> QED BY <1>1, TxnTypeCorrect, PTL
=============================================================================
