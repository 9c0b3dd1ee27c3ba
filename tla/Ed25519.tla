------------------------------- MODULE Ed25519 -------------------------------
(***************************************************************************)
(* Keys, signatures and program addresses (fd_ed25519).                    *)
(*                                                                         *)
(* A hash is its preimage: the bytes appended, in order and with nothing   *)
(* between two pieces.  Whether a hash is a point of the curve is decided  *)
(* the first time it is asked and never changes; a "noncanonical" one      *)
(* decodes to a point whose encoding differs from it.  Signatures and      *)
(* shared secrets are the values they are computed from.  The C curve,     *)
(* hash, hex and base58 routines are external.                             *)
(***************************************************************************)
EXTENDS Integers, Sequences, SequencesExt

CONSTANTS
    BumpMax,      \* u8::MAX
    MaxSeeds,     \* MAX_SEEDS
    MaxSeedLen,   \* MAX_SEED_LEN
    BatchMax,     \* the largest batch the C verifier takes
    CountWidth,   \* the values of the u8 that carries the size of a batch
    EdBatch       \* bound: the pairs in a batch

ASSUME EdAssumption ==
    {BumpMax, MaxSeeds, MaxSeedLen, BatchMax, CountWidth, EdBatch} \subseteq Nat \ {0}

Classes == {"off", "canonical", "noncanonical"}

\* Seeds of every length around the limit.  (All of the same byte: only lengths decide.)
EdSeeds == {[i \in 1..n |-> BumpMax] : n \in 0..(MaxSeedLen + 1)}
SeedLists == UNION {[1..n -> EdSeeds] : n \in 0..(MaxSeeds + 1)}

VARIABLES
    oracle,    \* the class of each hash asked for so far
    finding,   \* find_program_address: where it is, its seeds, bump and answer
    created,   \* what the last create_program_address was given and answered
    batch,     \* the last batch_verify_single_message: the pairs that verify, and the answer
    secret     \* an X25519SharedSecret: "none", its bytes, or the zeroes its drop leaves

edVars == <<oracle, finding, created, batch, secret>>

NoBatch == [ok |-> <<>>, sigs |-> 0, answer |-> "none"]
Idle == [at |-> "idle", seeds |-> <<>>, bump |-> BumpMax, address |-> <<>>]
NotCreated == [seeds |-> <<>>, answer |-> "none", address |-> <<>>]

EdInit ==
    /\ oracle = <<>> /\ finding = Idle /\ created = NotCreated
    /\ batch = NoBatch /\ secret = <<>>

\* (The calls keep nothing from one another but the hashes: a behaviour takes one of each
\* derivation, or one batch, or one exchange.)

\* What both derivations hash: the seeds one after the other.  (The program id and the
\* marker that follow are the same in every hash of a run and are left out.)
Preimage(seeds) == FlattenSeq(seeds)

\* fd_ed25519_point_is_on_curve: a square root exists, whatever the encoding.
PointIsOnCurve(class) == class # "off"

\* bytes_are_curve_point: decoded and encoded again, the bytes must come back.
BytesAreCurvePoint(class) == class = "canonical"

\* The checks both derivations open with.
SeedsRefused(seeds) ==
    \/ Len(seeds) > MaxSeeds
    \/ \E i \in 1..Len(seeds) : Len(seeds[i]) > MaxSeedLen

Ask(hash, class) ==
    /\ hash \in DOMAIN oracle => oracle[hash] = class
    /\ oracle' = [h \in DOMAIN oracle \cup {hash} |-> IF h = hash THEN class ELSE oracle[h]]

----------------------------------------------------------------------------
(* Pubkey::find_program_address *)

FindStart(seeds) ==
    /\ finding = Idle /\ batch = NoBatch /\ secret = <<>>
    /\ finding' = [Idle EXCEPT !.at = IF SeedsRefused(seeds) THEN "refused" ELSE "loop",
                               !.seeds = seeds]
    /\ UNCHANGED <<oracle, created, batch, secret>>

\* One round of `for _ in 0..u8::MAX`: the bumps from 255 down to 1, and never 0.
FindStep(class) ==
    /\ finding.at = "loop"
    /\ LET hash == Preimage(Append(finding.seeds, <<finding.bump>>))
       IN  /\ Ask(hash, class)
           /\ finding' = IF ~PointIsOnCurve(class)
                         THEN [finding EXCEPT !.at = "found", !.address = hash]
                         ELSE [finding EXCEPT !.bump = @ - 1,
                                              !.at = IF finding.bump = 1 THEN "failed" ELSE @]
    /\ UNCHANGED <<created, batch, secret>>

\* Pubkey::create_program_address; create_program_address_unchecked is the same without
\* the checks, and its caller promises that they would pass.
CreateProgramAddress(seeds, class) ==
    /\ finding.at # "loop" /\ created = NotCreated /\ batch = NoBatch /\ secret = <<>>
    /\ IF SeedsRefused(seeds)
       THEN created' = [created EXCEPT !.seeds = seeds, !.answer = "refused"] /\ UNCHANGED oracle
       ELSE /\ Ask(Preimage(seeds), class)
            /\ created' = IF BytesAreCurvePoint(class)
                          THEN [created EXCEPT !.seeds = seeds, !.answer = "InvalidInput"]
                          ELSE [seeds |-> seeds, answer |-> "ok", address |-> Preimage(seeds)]
    /\ UNCHANGED <<finding, batch, secret>>

----------------------------------------------------------------------------
(* Signatures, and the X25519 exchange *)

\* verify and batch_verify_single_message turn the C answer into a Result alike.
VerifyAnswer(code) ==
    CASE code = "SUCCESS" -> "true"
      [] code = "ERR_MSG" -> "false"
      [] code = "ERR_SIG" -> "InvalidSignature"
      [] code = "ERR_PUBKEY" -> "InvalidPublicKey"
      [] OTHER -> "CryptoError"

\* fd_ed25519_verify_batch_single_msg: a size of zero or above its limit is ERR_SIG.
CVerifyBatch(ok, size) ==
    IF size = 0 \/ size > BatchMax THEN "ERR_SIG"
    ELSE IF \A i \in 1..size : ok[i] THEN "SUCCESS" ELSE "ERR_MSG"

\* batch_verify_single_message: `pubkeys.len() as u8` is the length modulo 256.
BatchVerify(ok, sigs) ==
    /\ batch = NoBatch /\ finding = Idle /\ created = NotCreated /\ secret = <<>>
    /\ batch' = [ok |-> ok, sigs |-> sigs,
                 answer |-> IF Len(ok) # sigs THEN "InvalidInput"
                            ELSE IF ok = <<>> THEN "true"
                            ELSE VerifyAnswer(CVerifyBatch(ok, Len(ok) % CountWidth))]
    /\ UNCHANGED <<oracle, finding, created, secret>>

\* X25519PrivateKey::exchange: the secret depends on both keys, in either order; a peer key
\* of small order makes it fail.
Exchange(mine, peer) ==
    /\ secret = <<>> /\ finding = Idle /\ batch = NoBatch /\ created = NotCreated
    /\ \/ UNCHANGED edVars
       \/ /\ secret' = IF mine <= peer THEN <<mine, peer>> ELSE <<peer, mine>>
          /\ UNCHANGED <<oracle, finding, created, batch>>

\* Drop of an X25519SharedSecret fills it with zeroes.
DropSecret ==
    /\ secret # <<>>
    /\ secret' = <<0, 0>>
    /\ UNCHANGED <<oracle, finding, created, batch>>

EdNext ==
    \/ \E seeds \in SeedLists :
          FindStart(seeds) \/ \E class \in Classes : CreateProgramAddress(seeds, class)
    \/ \E class \in Classes : FindStep(class)
    \/ \E n, sigs \in 0..EdBatch : \E ok \in [1..n -> BOOLEAN] : BatchVerify(ok, sigs)
    \/ \E mine, peer \in 1..2 : Exchange(mine, peer)
    \/ DropSecret

EdSpec == EdInit /\ [][EdNext]_edVars

----------------------------------------------------------------------------
EdTypeOK ==
    /\ \A h \in DOMAIN oracle : oracle[h] \in Classes
    /\ finding.at \in {"idle", "loop", "found", "failed", "refused"}
    /\ finding.bump \in 0..BumpMax

\* What create_program_address would answer for hashes already asked for.
Recreated(seeds) ==
    IF SeedsRefused(seeds) THEN "refused"
    ELSE IF BytesAreCurvePoint(oracle[Preimage(seeds)]) THEN "InvalidInput" ELSE "ok"

(***************************************************************************)
(* An address that find_program_address returns is off the curve, every    *)
(* larger bump gives a point of the curve, and create_program_address      *)
(* derives the same address from the seeds and the bump - unless the seeds *)
(* are already as many as are allowed, when the bump is one too many and   *)
(* the address cannot be created again.                                    *)
(***************************************************************************)
FoundIsDerivable ==
    finding.at = "found" =>
        LET full(b) == Append(finding.seeds, <<b>>)
        IN  /\ finding.address = Preimage(full(finding.bump))
            /\ finding.address \in DOMAIN oracle /\ oracle[finding.address] = "off"
            /\ \A b \in (finding.bump + 1)..BumpMax : oracle[Preimage(full(b))] # "off"
            /\ Recreated(full(finding.bump)) =
                  IF Len(finding.seeds) = MaxSeeds THEN "refused" ELSE "ok"

(***************************************************************************)
(* What Ok(true) of a batch says: the pairs the C library was told of are  *)
(* good, and they fit its batch.  Told of are all pairs of a batch whose   *)
(* size fits the u8 it is passed in, and only the first few of a longer    *)
(* one: 257 pairs verify after one is looked at, 256 never do.             *)
(***************************************************************************)
BatchHonest ==
    (batch.answer # "none" /\ Len(batch.ok) = batch.sigs) =>
        LET told == IF batch.sigs < CountWidth THEN batch.sigs ELSE batch.sigs % CountWidth
        IN  batch.answer = "true" <=>
                /\ batch.sigs # 0 => told # 0
                /\ told <= BatchMax
                /\ \A i \in 1..told : batch.ok[i]
=============================================================================
