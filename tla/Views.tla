-------------------------------- MODULE Views -------------------------------
\* Views of bytes that the C library has parsed: transactions, and shreds.
EXTENDS Integers, Sequences, SequencesExt, FiniteSets

(***************************************************************************)
(* Reading a transaction (fd_txn lib.rs).                                  *)
(*                                                                         *)
(* Transaction::parse copies the bytes and lets the C parser fill an index *)
(* of them; everything else is a view through that index.  The accounts of *)
(* a transaction are the static ones, whose addresses are in the bytes,    *)
(* followed by those of its address lookup tables, of which only the       *)
(* number is known here: the views number both and hold addresses of the   *)
(* static ones only.  Accounts are numbered from 0, as in the code.        *)
(***************************************************************************)

CONSTANTS StaticMax, \* static accounts of a transaction
          TableMax,  \* accounts loaded through lookup tables
          RefMax     \* accounts an instruction names

ASSUME TxnViewAssumption == StaticMax \in Nat \ {0} /\ TableMax \in Nat /\ RefMax \in Nat

VARIABLES txn,    \* the parsed index, or NoTxn
          walk,   \* an AccountIter: what the C iterator has left, what has been yielded
          instrs, \* an InstructionIter: how many have been yielded
          asked   \* the last answer of an instruction's accessors

tvVars == <<txn, walk, instrs, asked>>

NoTxn == [version |-> "none", sigs |-> 0, roSigned |-> 0, roUnsigned |-> 0,
          static |-> 0, tableW |-> 0, tableR |-> 0, instr |-> <<>>]
NoWalk == [cat |-> {}, left |-> {}, yielded |-> <<>>, ended |-> FALSE]
NotAsked == [kind |-> "none", of |-> <<>>, got |-> <<>>]

ParseErrors == {"TooShort", "TooLong", "InvalidStructure"}

\* TransactionVersion: what from_raw does not know is read as Legacy
FromRawVersion(raw) == IF raw = 0 THEN "V0" ELSE "Legacy"
ToRawVersion(v) == IF v = "V0" THEN 0 ELSE 255

(***************************************************************************)
(* Categories of accounts: each account is in exactly one of six.          *)
(***************************************************************************)
Categories == {"WRITABLE_SIGNER", "READONLY_SIGNER", "WRITABLE_NONSIGNER_IMM",
               "READONLY_NONSIGNER_IMM", "WRITABLE_ALT", "READONLY_ALT"}
Writable == {"WRITABLE_SIGNER", "WRITABLE_NONSIGNER_IMM", "WRITABLE_ALT"}
Signer == {"WRITABLE_SIGNER", "READONLY_SIGNER"}
AddressLookup == {"WRITABLE_ALT", "READONLY_ALT"}

TotalCount(t) == t.static + t.tableW + t.tableR

\* What the C index says of account i: the order is fixed by the wire format
CategoryOf(t, i) ==
  IF i < t.sigs - t.roSigned THEN "WRITABLE_SIGNER"
  ELSE IF i < t.sigs THEN "READONLY_SIGNER"
  ELSE IF i < t.static - t.roUnsigned THEN "WRITABLE_NONSIGNER_IMM"
  ELSE IF i < t.static THEN "READONLY_NONSIGNER_IMM"
  ELSE IF i < t.static + t.tableW THEN "WRITABLE_ALT"
  ELSE "READONLY_ALT"
InCategory(t, cat) == {i \in 0..(TotalCount(t) - 1) : CategoryOf(t, i) \in cat}

\* fd_txn_is_writable and fd_txn_is_signer
IsWritable(t, i) ==
  \/ i < t.sigs - t.roSigned
  \/ i >= t.sigs /\ i < t.static - t.roUnsigned
  \/ i >= t.static /\ i < t.static + t.tableW
IsSigner(t, i) == i < t.sigs

CountByCategory(t, cat) == Cardinality(InCategory(t, cat))

(***************************************************************************)
(* Parsing.  The C parser accepts a program that is a static account other *)
(* than the fee payer, and account references up to the last lookup.       *)
(***************************************************************************)
WellFormed(t) ==
  /\ t.sigs > 0 /\ t.roSigned < t.sigs /\ t.sigs <= t.static /\ t.roUnsigned <= t.static - t.sigs
  /\ t.version = "Legacy" => t.tableW + t.tableR = 0
  /\ \A k \in 1..Len(t.instr) :
       /\ t.instr[k].program \in 1..(t.static - 1)
       /\ \A a \in Range(t.instr[k].accts) : a < TotalCount(t)

Instrs(n) == { [program |-> p, accts |-> a] : p \in 1..(n - 1), a \in UNION { [1..m -> 0..(n - 1)] : m \in 0..RefMax } }
Wires ==
  UNION { { t \in [version : {"Legacy", "V0"}, sigs : 1..s, roSigned : 0..(s - 1), roUnsigned : 0..(s - 1),
                   static : {s}, tableW : 0..TableMax, tableR : 0..TableMax,
                   instr : {<<>>} \cup { <<i>> : i \in Instrs(s + 1) }] : WellFormed(t) } : s \in 1..StaticMax }

Parse(t) ==
  /\ txn = NoTxn
  /\ txn' = t
  /\ UNCHANGED <<walk, instrs, asked>>

\* Empty data, data over the MTU, data the C parser rejects: nothing is built
ParseFails(e) ==
  /\ txn = NoTxn
  /\ e \in ParseErrors
  /\ asked' = [NotAsked EXCEPT !.kind = e]
  /\ UNCHANGED <<txn, walk, instrs>>

(***************************************************************************)
(* Iterating.  next() copies the address of the index the C iterator is at *)
(* and only then advances; an index without an address ends the iteration. *)
(***************************************************************************)
AccountsByCategory(cat) ==
  /\ txn # NoTxn
  /\ walk' = [cat |-> cat, left |-> InCategory(txn, cat), yielded |-> <<>>, ended |-> FALSE]
  /\ UNCHANGED <<txn, instrs, asked>>

AccountNext ==
  /\ walk.cat # {} /\ ~walk.ended
  /\ walk' = IF walk.left = {} \/ Min(walk.left) >= txn.static THEN [walk EXCEPT !.ended = TRUE]
             ELSE [walk EXCEPT !.left = @ \ {Min(@)}, !.yielded = Append(@, Min(walk.left))]
  /\ UNCHANGED <<txn, instrs, asked>>

InstructionNext ==
  /\ txn # NoTxn
  /\ instrs < Len(txn.instr)
  /\ instrs' = instrs + 1
  /\ UNCHANGED <<txn, walk, asked>>

(***************************************************************************)
(* An instruction's addresses are looked up in accounts(), the static      *)
(* ones: indexing past them panics.  "panic" stands for that.              *)
(***************************************************************************)
AddressesOf(t, idx) ==
  IF \E k \in 1..Len(idx) : idx[k] >= t.static THEN [kind |-> "panic", of |-> idx, got |-> <<>>]
  ELSE [kind |-> "addresses", of |-> idx, got |-> idx]

ProgramIdAddress ==
  /\ instrs > 0
  /\ asked' = AddressesOf(txn, <<txn.instr[instrs].program>>)
  /\ UNCHANGED <<txn, walk, instrs>>

AccountAddresses ==
  /\ instrs > 0
  /\ asked' = AddressesOf(txn, txn.instr[instrs].accts)
  /\ UNCHANGED <<txn, walk, instrs>>

\* fee_payer: accounts()[0], which a parsed transaction always has
FeePayer(t) == 0

(***************************************************************************)
(* compact-u16 (fd_cu16_enc, fd_cu16_dec and their safe wrappers): seven   *)
(* bits a byte, the lowest first; a longer form than needed is refused.    *)
(***************************************************************************)
CompactEncode(v) ==
  IF v < 128 THEN <<v>>
  ELSE IF v < 128 * 128 THEN <<(v % 128) + 128, v \div 128>>
  ELSE <<(v % 128) + 128, ((v \div 128) % 128) + 128, v \div (128 * 128)>>
\* <<>> is the error: an empty or cut-off buffer, or a form that is not the shortest
CompactDecode(b) ==
  IF Len(b) >= 1 /\ b[1] < 128 THEN <<b[1], 1>>
  ELSE IF Len(b) >= 2 /\ b[2] \in 1..127 THEN <<(b[1] - 128) + 128 * b[2], 2>>
  ELSE IF Len(b) >= 3 /\ b[2] >= 128 /\ b[3] \in 1..3
  THEN <<(b[1] - 128) + 128 * ((b[2] - 128) + 128 * b[3]), 3>>
  ELSE <<>>
CompactSize(b) == IF CompactDecode(b) = <<>> THEN 0 ELSE CompactDecode(b)[2]

TvInit == txn = NoTxn /\ walk = NoWalk /\ instrs = 0 /\ asked = NotAsked

TvNext ==
  \/ \E t \in Wires : Parse(t)
  \/ \E e \in ParseErrors : ParseFails(e)
  \/ \E cat \in {Writable, Signer, AddressLookup, Categories, Categories \ Signer} : AccountsByCategory(cat)
  \/ AccountNext
  \/ InstructionNext
  \/ ProgramIdAddress
  \/ AccountAddresses

TvSpec == TvInit /\ [][TvNext]_tvVars

TvTypeOK == /\ txn = NoTxn \/ WellFormed(txn)
            /\ instrs \in 0..1
            /\ walk.cat \subseteq Categories

(***************************************************************************)
(* AccountIter yields, once each and in order, the static accounts of its  *)
(* category and no other (lib.rs next): stopping at the first account that *)
(* has no address here loses none that has one; and the categories agree   *)
(* with is_account_signer and is_account_writable, whichever side of a     *)
(* boundary an account is on; the fee payer is one of the writable signers. *)
(***************************************************************************)
IterationExact ==
  /\ txn # NoTxn => FeePayer(txn) < txn.static /\ IsSigner(txn, FeePayer(txn)) /\ IsWritable(txn, FeePayer(txn))
  /\ walk.ended => ToSet(walk.yielded) = {i \in InCategory(txn, walk.cat) : i < txn.static}
  /\ \A k, m \in 1..Len(walk.yielded) : k < m => walk.yielded[k] < walk.yielded[m]
  /\ txn # NoTxn =>
       \A i \in 0..(TotalCount(txn) - 1) :
         /\ IsSigner(txn, i) <=> CategoryOf(txn, i) \in Signer
         /\ IsWritable(txn, i) <=> CategoryOf(txn, i) \in Writable

(***************************************************************************)
(* The address accessors of an instruction panic only when it names an     *)
(* account of a lookup table, so never in a legacy transaction and never   *)
(* for the program (lib.rs program_id_address, account_addresses).         *)
(***************************************************************************)
PanicsOnlyForTables ==
  asked.kind = "panic" =>
    /\ txn.version = "V0" /\ txn.tableW + txn.tableR > 0
    /\ \E k \in 1..Len(asked.of) : CategoryOf(txn, asked.of[k]) \in AddressLookup

(***************************************************************************)
(* A compact-u16 is read back as it was written, with its size, at every   *)
(* boundary of the three lengths, and a cut one is an error.               *)
(***************************************************************************)
CompactValues == {0, 1, 127, 128, 255, 128 * 128 - 1, 128 * 128, 4 * 128 * 128 - 1}
CompactRoundTrip ==
  \A v \in CompactValues :
    LET b == CompactEncode(v)
    IN /\ CompactDecode(b) = <<v, Len(b)>> /\ CompactSize(b \o <<200>>) = Len(b)
       /\ CompactDecode(SubSeq(b, 1, Len(b) - 1)) = <<>>

TxnViewSound == IterationExact /\ PanicsOnlyForTables /\ CompactRoundTrip

-----------------------------------------------------------------------------
(***************************************************************************)
(* Shreds (fd_shred): a view of a buffer.  The variant byte of a shred     *)
(* names its type and the nodes of its merkle proof; every accessor of the *)
(* view asks for the type first.  parse_core of the C library is external: *)
(* it accepts a buffer when the variant is known and the sizes the header  *)
(* claims fit the buffer.  Sizes are small numbers.                        *)
(***************************************************************************)

CONSTANTS
    MinSize,      \* MIN_SHRED_SIZE
    SizeBound,    \* bound: the length of a buffer
    DataHeader,   \* DATA_HEADER_SIZE
    CodeHeader,   \* CODE_HEADER_SIZE
    NodeSize,     \* MERKLE_NODE_SIZE
    NodesBound,   \* bound: the nodes of a merkle proof
    RootSize,     \* the chained merkle root
    SigSize       \* the retransmitter's signature

ASSUME ShredAssumption ==
    {MinSize, SizeBound, DataHeader, CodeHeader, NodeSize, NodesBound, RootSize, SigSize} \subseteq Nat

ShredTypes == {"LegacyData", "LegacyCode", "MerkleData", "MerkleCode", "MerkleDataChained",
               "MerkleCodeChained", "MerkleDataChainedResigned", "MerkleCodeChainedResigned"}

\* The predicates of ShredType.
IsData(t) == t \in {"LegacyData", "MerkleData", "MerkleDataChained", "MerkleDataChainedResigned"}
IsCode(t) == t \in {"LegacyCode", "MerkleCode", "MerkleCodeChained", "MerkleCodeChainedResigned"}
IsLegacy(t) == t \in {"LegacyData", "LegacyCode"}
IsMerkle(t) == ~IsLegacy(t)
IsChained(t) == t \in {"MerkleDataChained", "MerkleCodeChained",
                       "MerkleDataChainedResigned", "MerkleCodeChainedResigned"}
IsResigned(t) == t \in {"MerkleDataChainedResigned", "MerkleCodeChainedResigned"}

\* The high nibble of the variant byte (fd_shred_type), and from_raw and to_raw.
RawTypes == [LegacyData |-> 10, LegacyCode |-> 5, MerkleData |-> 8, MerkleCode |-> 4,
             MerkleDataChained |-> 9, MerkleCodeChained |-> 6,
             MerkleDataChainedResigned |-> 11, MerkleCodeChainedResigned |-> 7]
RawShred(t) == RawTypes[t]
ShredFromRaw(raw) ==
    IF \E t \in ShredTypes : RawTypes[t] = raw
    THEN <<CHOOSE t \in ShredTypes : RawTypes[t] = raw>> ELSE <<>>

VARIABLES
    shred,       \* the header a buffer holds: raw type, nodes, and the size a data shred claims
    bufLen,      \* the length of the buffer
    view         \* what parse answered: "none", "ok", "TooSmall" or "Invalid"

shVars == <<shred, bufLen, view>>

NoShred == [raw |-> 10, nodes |-> 0, size |-> 0]

ShInit == shred = NoShred /\ bufLen = 0 /\ view = "none"

\* shred_type: a raw type that is not known reads as a legacy data shred.
ShredType == IF ShredFromRaw(shred.raw) = <<>> THEN "LegacyData" ELSE ShredFromRaw(shred.raw)[1]

\* fd_shred_header_sz, fd_shred_merkle_sz and what follows the payload of a merkle shred.
HeaderSize(t) == IF IsData(t) THEN DataHeader ELSE CodeHeader
MerkleSize(t, nodes) == IF IsLegacy(t) THEN 0 ELSE nodes * NodeSize
TrailerSize(t, nodes) ==
    MerkleSize(t, nodes) + (IF IsChained(t) THEN RootSize ELSE 0) + (IF IsResigned(t) THEN SigSize ELSE 0)

\* fd_shred_payload_sz: a data shred says how long it is, a coding shred fills the buffer.
PayloadSize(t, s, len) ==
    IF IsData(t) THEN s.size - DataHeader ELSE len - CodeHeader - TrailerSize(t, s.nodes)

\* fd_shred_parse.
CAccepts(s, len) ==
    LET t == ShredFromRaw(s.raw)
    IN  /\ t # <<>>
        /\ HeaderSize(t[1]) + TrailerSize(t[1], s.nodes) <= len
        /\ IsData(t[1]) => s.size >= DataHeader /\ s.size + TrailerSize(t[1], s.nodes) <= len

\* Shred::parse.
ParseShred(s, len) ==
    /\ view = "none"
    /\ shred' = s /\ bufLen' = len
    /\ view' = IF len < MinSize THEN "TooSmall" ELSE IF CAccepts(s, len) THEN "ok" ELSE "Invalid"

\* data_payload and code_payload: the bytes from the end of the header, none when empty.
DataPayload ==
    IF ~IsData(ShredType) \/ PayloadSize(ShredType, shred, bufLen) = 0 THEN <<>>
    ELSE <<DataHeader, PayloadSize(ShredType, shred, bufLen)>>
CodePayload ==
    IF ~IsCode(ShredType) \/ PayloadSize(ShredType, shred, bufLen) = 0 THEN <<>>
    ELSE <<CodeHeader, PayloadSize(ShredType, shred, bufLen)>>

\* merkle_nodes: the proof, before the signature of a resigned shred.
MerkleNodes ==
    IF IsLegacy(ShredType) \/ shred.nodes = 0 THEN <<>>
    ELSE <<bufLen - MerkleSize(ShredType, shred.nodes)
              - (IF IsResigned(ShredType) THEN SigSize ELSE 0),
           shred.nodes * NodeSize>>

ShNext ==
    /\ view = "none"
    /\ \E raw \in 0..15, nodes \in 0..NodesBound, size, len \in 0..SizeBound :
        ParseShred([raw |-> raw, nodes |-> nodes, size |-> size], len)

ShSpec == ShInit /\ [][ShNext]_shVars

----------------------------------------------------------------------------
ShTypeOK == view \in {"none", "ok", "TooSmall", "Invalid"}

Inside(slice) == slice # <<>> => slice[1] >= 0 /\ slice[2] >= 0 /\ slice[1] + slice[2] <= bufLen
Apart(a, b) == a # <<>> /\ b # <<>> => a[1] + a[2] <= b[1]

(***************************************************************************)
(* Every slice a parsed shred hands out lies in the buffer it was parsed   *)
(* from, the payload never runs into the merkle proof, a shred is data or  *)
(* code and never both, and its type is the one in the buffer and not the  *)
(* legacy data that shred_type falls back to.                              *)
(***************************************************************************)
ShredSlicesInside ==
    view = "ok" =>
        /\ RawShred(ShredType) = shred.raw
        /\ IsData(ShredType) # IsCode(ShredType)
        /\ Inside(DataPayload) /\ Inside(CodePayload) /\ Inside(MerkleNodes)
        /\ DataPayload = <<>> \/ CodePayload = <<>>
        /\ Apart(DataPayload, MerkleNodes) /\ Apart(CodePayload, MerkleNodes)
=============================================================================
