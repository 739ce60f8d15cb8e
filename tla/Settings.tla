------------------------------ MODULE Settings ------------------------------
(***************************************************************************)
(* How settings become effective: the commands' checks                     *)
(* (internal/config/config.go), the benchmark's defaults                   *)
(* (internal/perf/perf.go), the tunnel's own (withDefaults in              *)
(* internal/tunnel/tunnel.go), the negotiation of the chunk size           *)
(* (internal/protocol/protocol.go), and the provider presets, which the    *)
(* commands and the S3 client (internal/objectstore/s3/s3.go) both apply.  *)
(* Sizes are bytes and durations milliseconds.                             *)
(***************************************************************************)
EXTENDS Integers

CONSTANTS
    ChunkSizes, Durations, Counts,  \* values that a setting may be given
    Providers, Regions, Endpoints   \* values that a preset may be given

ASSUME SettingsAssumption ==
    ChunkSizes \subseteq Int /\ Durations \subseteq Int /\ Counts \subseteq Int

MinChunkSize == 1024
MaxChunkSize == 16777216

VARIABLES
    given,  \* the settings of a command as they were given
    peer,   \* the chunk size that the other side is given
    where   \* provider, region, endpoint and URL style as they were given

SettingsInit ==
    /\ given \in [chunk : ChunkSizes, flush : Durations, pollMin : Durations,
                  pollMax : Durations, active : Durations, window : Counts \cap Nat,
                  misses : Counts, idle : Durations]
    /\ peer \in ChunkSizes
    /\ where \in [provider : Providers, region : Regions, endpoint : Endpoints,
                  pathStyle : BOOLEAN, dotted : BOOLEAN]
-----------------------------------------------------------------------------
(* Common.Finalize accepts the numbers.                                    *)
Finalizes(c) ==
    /\ MinChunkSize <= c.chunk /\ c.chunk <= MaxChunkSize
    /\ c.flush >= 0 /\ c.active >= 0
    /\ c.window # 0 /\ c.misses > 0
    /\ 0 < c.pollMin /\ c.pollMin <= c.pollMax

Or(x, default) == IF x <= 0 THEN default ELSE x
AtLeast(x, low) == IF x < low THEN low ELSE x
AtMost(x, high) == IF x > high THEN high ELSE x

(* perf.normalizeConfig *)
normalizeConfig(c) ==
    [chunk |-> Or(c.chunk, 65536), flush |-> AtLeast(c.flush, 0),
     pollMin |-> Or(c.pollMin, 1),
     pollMax |-> AtLeast(Or(c.pollMax, 20), Or(c.pollMin, 1)),
     active |-> AtLeast(c.active, 0), window |-> Or(c.window, 16),
     misses |-> Or(c.misses, 4), idle |-> Or(c.idle, 30000)]

(* Mutant: the order of the two poll delays is not restored.               *)
withDefaultsUnordered(c) ==
    [chunk |-> AtMost(AtLeast(Or(c.chunk, 65536), MinChunkSize), MaxChunkSize),
     flush |-> AtLeast(c.flush, 0), pollMin |-> Or(c.pollMin, 50),
     pollMax |-> Or(c.pollMax, 2000), active |-> Or(AtLeast(c.active, 0), 500),
     window |-> Or(c.window, 16), misses |-> Or(c.misses, 4), idle |-> Or(c.idle, 120000)]

(* tunnel.withDefaults, for every client and server *)
withDefaults(c) ==
    [chunk |-> AtMost(AtLeast(Or(c.chunk, 65536), MinChunkSize), MaxChunkSize),
     flush |-> AtLeast(c.flush, 0), pollMin |-> Or(c.pollMin, 50),
     pollMax |-> AtLeast(Or(c.pollMax, 2000), Or(c.pollMin, 50)),
     active |-> Or(AtLeast(c.active, 0), 500),
     window |-> Or(c.window, 16), misses |-> Or(c.misses, 4), idle |-> Or(c.idle, 120000)]

ValidateChunkSize(n) == MinChunkSize <= n /\ n <= MaxChunkSize

(* 0 stands for an error.                                                  *)
EffectiveSendChunkSize(local, peerReceive) ==
    IF ~ValidateChunkSize(local) \/ ~ValidateChunkSize(peerReceive) THEN 0
    ELSE AtMost(local, peerReceive)
-----------------------------------------------------------------------------
Yandex == {"yandex", "yc", "yandex-cloud", "yandexcloud"}

(* inferProvider, the same in both packages.                               *)
inferProvider(w) ==
    CASE w.endpoint = "storage.yandexcloud.net" -> "yandex"
      [] w.endpoint # "storage.yandexcloud.net" /\ w.region \in {"ru-central1", "ru-central1-a"} ->
           "yandex"
      [] w.endpoint = "127.0.0.1:9000" /\ w.region \notin {"ru-central1", "ru-central1-a"} ->
           "minio"
      [] OTHER -> "aws"

Inferred(w) == IF w.provider = "" THEN [w EXCEPT !.provider = inferProvider(w)] ELSE w

Default(x, value) == IF x = "" THEN value ELSE x

YandexPreset(w) ==
    [provider |-> "yandex", endpoint |-> Default(w.endpoint, "storage.yandexcloud.net"),
     region |-> IF w.region \in {"", "us-east-1", "ru-central1-a"} THEN "ru-central1"
                ELSE w.region,
     pathStyle |-> TRUE, dotted |-> w.dotted]

MinioPreset(w) ==
    [provider |-> w.provider, endpoint |-> Default(w.endpoint, "127.0.0.1:9000"),
     region |-> Default(w.region, "us-east-1"), pathStyle |-> TRUE, dotted |-> w.dotted]

RegionPreset(w) ==
    [provider |-> w.provider, endpoint |-> w.endpoint,
     region |-> Default(w.region, "us-east-1"), pathStyle |-> w.pathStyle, dotted |-> w.dotted]

(* Mutant: the commands infer the provider from the endpoint only, as if   *)
(* the region had been added to one copy of inferProvider and not to the   *)
(* other.                                                                  *)
FinalizedByEndpoint(given0) ==
    LET w == IF given0.provider = ""
             THEN [given0 EXCEPT !.provider = inferProvider([given0 EXCEPT !.region = ""])]
             ELSE given0
    IN
    CASE w.provider \in Yandex -> YandexPreset(w)
      [] w.provider = "minio" -> MinioPreset(w)
      [] w.provider = "aws" -> RegionPreset(w)
      [] OTHER -> w

(* Common.Finalize: inference and Common.applyProviderDefaults.  A custom  *)
(* or unknown provider is left as it is.                                   *)
Finalized(given0) ==
    LET w == Inferred(given0) IN
    CASE w.provider \in Yandex -> YandexPreset(w)
      [] w.provider = "minio" -> MinioPreset(w)
      [] w.provider = "aws" -> RegionPreset(w)
      [] OTHER -> w

StorePreset(w) ==
    CASE w.provider \in Yandex -> YandexPreset(w)
      [] w.provider = "minio" -> MinioPreset(w)
      [] OTHER -> RegionPreset(w)

(* s3.applyProviderDefaults: a dot in the bucket's name rules out virtual  *)
(* hosts.                                                                  *)
StoreConfig(given0) ==
    LET p == StorePreset(Inferred(given0))
    IN  [p EXCEPT !.pathStyle = @ \/ (p.dotted /\ p.endpoint # "")]
-----------------------------------------------------------------------------
(* Whatever a command or a benchmark is given, the streams run with what   *)
(* they take for granted: positive delays in order, a window and a number  *)
(* of misses of at least one, an idle timeout, and a chunk size that each  *)
(* side may send and the other takes, however differently the two are      *)
(* configured.  What Finalize has accepted is not changed on the way,      *)
(* except that 0 stands for the default of two durations (withDefaults,    *)
(* HandleSOCKS, handleSession).                                            *)
SettingsEffective ==
    /\ \A c \in {withDefaults(given), withDefaults(normalizeConfig(given))} :
         LET other == withDefaults([given EXCEPT !.chunk = peer])
             size == EffectiveSendChunkSize(c.chunk, other.chunk)
         IN
         /\ MinChunkSize <= size /\ size <= c.chunk /\ size <= other.chunk
         /\ 0 < c.pollMin /\ c.pollMin <= c.pollMax /\ c.flush >= 0
         /\ c.window > 0 /\ c.misses > 0 /\ c.idle > 0 /\ c.active > 0
    /\ Finalizes(given) =>
         LET c == withDefaults(given) IN
         /\ c.chunk = given.chunk /\ c.flush = given.flush
         /\ c.pollMin = given.pollMin /\ c.pollMax = given.pollMax
         /\ c.window = given.window /\ c.misses = given.misses
         /\ given.active > 0 => c.active = given.active
         /\ given.idle > 0 => c.idle = given.idle

(* The commands apply a preset twice, in Finalize and in the S3 client,    *)
(* and the benchmark only once, in the client: all address the same        *)
(* service in the same way.                                                *)
PresetsAgree == StoreConfig(Finalized(where)) = StoreConfig(where)
=============================================================================
