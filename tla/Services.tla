------------------------------ MODULE Services ------------------------------
(***************************************************************************)
(* The components that speak to the network and those that spread and      *)
(* report work: the HTTP server, the QUIC endpoint, the gRPC client, the   *)
(* AF_XDP sender, tiles and thread pools, the log and the tracing          *)
(* subscriber; and the components that turn bytes into values and back.    *)
(* They share no state in the repository: a behaviour is about the         *)
(* component in focus.                                                     *)
(***************************************************************************)
EXTENDS HttpServer, Quic, Grpc, Xdp, TilePool, Log, Tracing,
        Views, Base64, Zstd, Nanopb, Toml, Ed25519, Util

VARIABLE focus

SvInit ==
  /\ HttpInit /\ QuicInit /\ GrpcInit /\ XdpInit /\ TileInit /\ TpInit /\ LgInit /\ TrInit
  /\ focus # "xdp" => prod = 0
  /\ TvInit /\ B64Init /\ ZInit /\ PbInit /\ TomlInit /\ ShInit /\ EdInit /\ ClInit

SvNext ==
  /\ UNCHANGED focus
  /\ IF focus = "http"    THEN HttpNext ELSE UNCHANGED httpVars
  /\ IF focus = "quic"    THEN QuicNext ELSE UNCHANGED quicVars
  /\ IF focus = "grpc"    THEN GrpcNext ELSE UNCHANGED grpcVars
  /\ IF focus = "xdp"     THEN XdpNext  ELSE UNCHANGED xdpVars
  /\ IF focus = "tile"    THEN TileNext ELSE UNCHANGED tileVars
  /\ IF focus = "tpool"   THEN TpNext   ELSE UNCHANGED tpVars
  /\ IF focus = "log"     THEN LgNext   ELSE UNCHANGED lgVars
  /\ IF focus = "tracing" THEN TrNext   ELSE UNCHANGED trVars
  /\ IF focus = "txn"     THEN TvNext   ELSE UNCHANGED tvVars
  /\ IF focus = "base64"  THEN B64Next  ELSE UNCHANGED b64Vars
  /\ IF focus = "zstd"    THEN ZNext    ELSE UNCHANGED zstdVars
  /\ IF focus = "nanopb"  THEN PbNext   ELSE UNCHANGED pbVars
  /\ IF focus = "toml"    THEN TomlNext ELSE UNCHANGED tomlVars
  /\ IF focus = "shred"   THEN ShNext   ELSE UNCHANGED shVars
  /\ IF focus = "ed25519" THEN EdNext   ELSE UNCHANGED edVars
  /\ IF focus = "env"     THEN ClNext   ELSE UNCHANGED clVars

svVars ==
  <<focus, httpVars, quicVars, grpcVars, xdpVars, tileVars, tpVars, lgVars, trVars,
    tvVars, b64Vars, zstdVars, pbVars, tomlVars, shVars, edVars, clVars>>

SvSpec == SvInit /\ [][SvNext]_svVars

(***************************************************************************)
(* The transports keep what they were given: an endpoint that runs is      *)
(* owned and sends through a context that is alive; a request has its own  *)
(* deadline and its handle finds its stream; a frame leaves the machine    *)
(* with the contents it was queued with.                                   *)
(***************************************************************************)
TransportsSound ==
  /\ focus = "quic" => QuicTypeOK /\ PointersHold /\ StartedIsOwned /\ ServerWired
  /\ focus = "grpc" => GrpcTypeOK /\ DeadlineIsOwn /\ DeadlineAtHome /\ HandleFindsItsStream
  /\ focus = "xdp"  => XdpTypeOK /\ FramesIntact /\ CompletionsRunOut

(***************************************************************************)
(* Work is spread and reported as asked: a tile in use has one handle or   *)
(* was lost by try_result, and nobody waits in a circle; threads that race *)
(* to initialise the logger boot it once; the calls that install a tracing *)
(* subscriber tell between them what became of it.  (Of thread pools only  *)
(* the types are here: what they compute is SharesExact.)                  *)
(***************************************************************************)
RuntimeSound ==
  /\ focus = "tile"    => TileTypeOK /\ TilesSound
  /\ focus = "tpool"   => TpTypeOK
  /\ focus = "log"     => LgTypeOK /\ OneBoot
  /\ focus = "tracing" => TrTypeOK /\ TracingSound

(***************************************************************************)
(* Bytes become the values they stand for, and values the bytes, or an     *)
(* error says they do not: what is read is inside the buffer, what was     *)
(* written is read back, what is unpacked is whole.                        *)
(***************************************************************************)
CodecsFaithful ==
  /\ focus = "txn"     => TvTypeOK /\ TxnViewSound
  /\ focus = "base64"  => B64TypeOK /\ Base64Sound
  /\ focus = "zstd"    => ZTypeOK /\ UnpackedWhole
  /\ focus = "nanopb"  => PbTypeOK /\ StreamsAgree
  /\ focus = "toml"    => TomlTypeOK /\ TomlFaithful
  /\ focus = "shred"   => ShTypeOK /\ ShredSlicesInside
  /\ focus = "ed25519" => EdTypeOK /\ FoundIsDerivable /\ BatchHonest
  /\ focus = "env"     => ClTypeOK /\ ArgumentsSound
=============================================================================
