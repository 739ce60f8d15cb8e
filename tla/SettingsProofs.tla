--------------------------- MODULE SettingsProofs ---------------------------
(***************************************************************************)
(* Proofs about Settings, for every value that a setting may be given.     *)
(***************************************************************************)
EXTENDS Settings, TLAPS

Given == [chunk : Int, flush : Int, pollMin : Int, pollMax : Int, active : Int,
          window : Int, misses : Int, idle : Int]

(* Settings that the streams can run with.                                 *)
Runnable(c) ==
    /\ ValidateChunkSize(c.chunk)
    /\ 0 < c.pollMin /\ c.pollMin <= c.pollMax /\ c.flush >= 0
    /\ c.window > 0 /\ c.misses > 0 /\ c.idle > 0 /\ c.active > 0

(* The commands and the benchmark are given integers.                      *)
LEMMA GivenType == SettingsInit => given \in Given /\ peer \in Int
BY SettingsAssumption DEF SettingsInit, Given

(* normalizeConfig returns settings again.                                 *)
LEMMA NormalizeType == ASSUME NEW c \in Given PROVE normalizeConfig(c) \in Given
BY DEF normalizeConfig, Given, Or, AtLeast

(* withDefaults makes any settings runnable.                               *)
LEMMA DefaultsRunnable ==
    ASSUME NEW c \in Given
    PROVE  withDefaults(c) \in Given /\ Runnable(withDefaults(c))
<1> USE DEF Or, AtLeast, AtMost, MinChunkSize, MaxChunkSize
<1>1. withDefaults(c) \in Given
    BY DEF withDefaults, Given
<1>2. ValidateChunkSize(withDefaults(c).chunk)
    BY DEF withDefaults, Given, ValidateChunkSize
<1>3. /\ 0 < withDefaults(c).pollMin
      /\ withDefaults(c).pollMin <= withDefaults(c).pollMax
    BY DEF withDefaults, Given
<1>4. /\ withDefaults(c).flush >= 0 /\ withDefaults(c).window > 0
      /\ withDefaults(c).misses > 0 /\ withDefaults(c).idle > 0
      /\ withDefaults(c).active > 0
    BY DEF withDefaults, Given
<1> QED
    BY <1>1, <1>2, <1>3, <1>4 DEF Runnable

(* Of two valid sizes the smaller is chosen, which is valid for both.      *)
LEMMA SizesMeet ==
    ASSUME NEW m \in Int, NEW n \in Int, ValidateChunkSize(m), ValidateChunkSize(n)
    PROVE  /\ MinChunkSize <= EffectiveSendChunkSize(m, n)
           /\ EffectiveSendChunkSize(m, n) <= m
           /\ EffectiveSendChunkSize(m, n) <= n
BY DEF EffectiveSendChunkSize, ValidateChunkSize, AtMost, MinChunkSize, MaxChunkSize

(* Settings that Finalize accepts keep their values, except for the two    *)
(* durations whose 0 stands for a default.                                 *)
LEMMA AcceptedIsKept ==
    ASSUME NEW c \in Given, Finalizes(c), c.window >= 0
    PROVE  /\ withDefaults(c).chunk = c.chunk
           /\ withDefaults(c).flush = c.flush
           /\ withDefaults(c).pollMin = c.pollMin
           /\ withDefaults(c).pollMax = c.pollMax
           /\ withDefaults(c).window = c.window
           /\ withDefaults(c).misses = c.misses
           /\ c.active > 0 => withDefaults(c).active = c.active
           /\ c.idle > 0 => withDefaults(c).idle = c.idle
BY SMT DEF Given, Finalizes, withDefaults, Or, AtLeast, AtMost, MinChunkSize, MaxChunkSize

(* Whatever the two sides are given, they run with sound settings and      *)
(* chunk sizes that fit (Finalize, normalizeConfig, withDefaults,          *)
(* EffectiveSendChunkSize).                                                *)
THEOREM SettingsSound == SettingsInit => SettingsEffective
<1> SUFFICES ASSUME SettingsInit PROVE SettingsEffective
    OBVIOUS
<1>1. given \in Given /\ peer \in Int /\ given.window >= 0
    BY GivenType DEF SettingsInit
<1> DEFINE other == withDefaults([given EXCEPT !.chunk = peer])
<1>2. other \in Given /\ Runnable(other)
    <2>1. [given EXCEPT !.chunk = peer] \in Given
        BY <1>1 DEF Given
    <2> QED
        BY <2>1, DefaultsRunnable
<1>3. ASSUME NEW c \in {withDefaults(given), withDefaults(normalizeConfig(given))}
      PROVE  c \in Given /\ Runnable(c)
    BY <1>1, NormalizeType, DefaultsRunnable
<1>4. ASSUME NEW c \in {withDefaults(given), withDefaults(normalizeConfig(given))}
      PROVE  LET size == EffectiveSendChunkSize(c.chunk, other.chunk)
             IN  MinChunkSize <= size /\ size <= c.chunk /\ size <= other.chunk
    <2>1. c.chunk \in Int /\ other.chunk \in Int
        BY <1>2, <1>3 DEF Given
    <2> QED
        BY <1>2, <1>3, <2>1, SizesMeet DEF Runnable
<1>5. ASSUME Finalizes(given)
      PROVE  LET c == withDefaults(given) IN
             /\ c.chunk = given.chunk /\ c.flush = given.flush
             /\ c.pollMin = given.pollMin /\ c.pollMax = given.pollMax
             /\ c.window = given.window /\ c.misses = given.misses
             /\ given.active > 0 => c.active = given.active
             /\ given.idle > 0 => c.idle = given.idle
    BY <1>1, <1>5, AcceptedIsKept
<1> QED
    BY <1>3, <1>4, <1>5 DEF SettingsEffective, Runnable

(* A value that has taken its default keeps it.                            *)
LEMMA DefaultTwice ==
    ASSUME NEW x, NEW v PROVE Default(Default(x, v), v) = Default(x, v)
BY Zenon DEF Default

(* A preset that was applied has nothing more to change.                   *)
LEMMA PresetsIdempotent ==
    ASSUME NEW w
    PROVE  /\ YandexPreset(YandexPreset(w)) = YandexPreset(w)
           /\ MinioPreset(MinioPreset(w)) = MinioPreset(w)
           /\ RegionPreset(RegionPreset(w)) = RegionPreset(w)
<1>1. YandexPreset(YandexPreset(w)) = YandexPreset(w)
    <2> DEFINE y == YandexPreset(w)
               Zone(r) == IF r \in {"", "us-east-1", "ru-central1-a"} THEN "ru-central1"
                          ELSE r
    <2>1. Zone(Zone(w.region)) = Zone(w.region)
        OBVIOUS
    <2>2. /\ y.endpoint = Default(w.endpoint, "storage.yandexcloud.net")
          /\ y.region = Zone(w.region) /\ y.dotted = w.dotted
        BY Zenon DEF YandexPreset
    <2>3. YandexPreset(y) =
            [provider |-> "yandex", endpoint |-> Default(y.endpoint, "storage.yandexcloud.net"),
             region |-> Zone(y.region), pathStyle |-> TRUE, dotted |-> y.dotted]
        BY Zenon DEF YandexPreset
    <2>4. y = [provider |-> "yandex",
               endpoint |-> Default(w.endpoint, "storage.yandexcloud.net"),
               region |-> Zone(w.region), pathStyle |-> TRUE, dotted |-> w.dotted]
        BY Zenon DEF YandexPreset
    <2> HIDE DEF y, Zone
    <2>5. YandexPreset(y) = y
        BY <2>1, <2>2, <2>3, <2>4, DefaultTwice, Zenon
    <2> QED
        BY <2>5 DEF y
<1>2. MinioPreset(MinioPreset(w)) = MinioPreset(w)
    BY DefaultTwice, Zenon DEF MinioPreset
<1>3. RegionPreset(RegionPreset(w)) = RegionPreset(w)
    BY DefaultTwice, Zenon DEF RegionPreset
<1> QED
    BY <1>1, <1>2, <1>3

(* A provider that is named, or was inferred, is not inferred again.       *)
LEMMA InferredOnce ==
    ASSUME NEW w, w.provider # "" PROVE Inferred(w) = w
BY DEF Inferred

(* Inference names a provider.                                             *)
LEMMA InferredNamed ==
    ASSUME SettingsInit PROVE Inferred(where).provider # ""
<1>1. inferProvider(where) # ""
    BY DEF inferProvider
<1>2. CASE where.provider = ""
    <2>1. Inferred(where) = [where EXCEPT !.provider = inferProvider(where)]
        BY <1>2 DEF Inferred
    <2> QED
        BY <1>1, <2>1 DEF SettingsInit
<1>3. CASE where.provider # ""
    BY <1>3, InferredOnce
<1> QED
    BY <1>2, <1>3

(* Applying a preset twice is applying it once (Common.Finalize and        *)
(* s3.applyProviderDefaults).                                              *)
THEOREM PresetsSound == SettingsInit => PresetsAgree
<1> SUFFICES ASSUME SettingsInit PROVE PresetsAgree
    OBVIOUS
<1> DEFINE v == Inferred(where)
<1>1. v.provider # ""
    BY InferredNamed
<1> HIDE DEF v
<1>2. StorePreset(Inferred(Finalized(where))) = StorePreset(v)
    <2>1. CASE v.provider \in Yandex
        <3>1. Finalized(where) = YandexPreset(v) /\ StorePreset(v) = YandexPreset(v)
            BY <2>1 DEF Finalized, StorePreset, Yandex, v
        <3>2. YandexPreset(v).provider = "yandex"
            BY DEF YandexPreset
        <3>3. Inferred(YandexPreset(v)) = YandexPreset(v)
            BY <3>2, InferredOnce
        <3>4. StorePreset(YandexPreset(v)) = YandexPreset(YandexPreset(v))
            BY <3>2 DEF StorePreset, Yandex
        <3> QED
            BY <3>1, <3>3, <3>4, PresetsIdempotent
    <2>2. CASE v.provider = "minio"
        <3>1. Finalized(where) = MinioPreset(v) /\ StorePreset(v) = MinioPreset(v)
            BY <2>2 DEF Finalized, StorePreset, Yandex, v
        <3>2. MinioPreset(v).provider = "minio"
            BY <2>2 DEF MinioPreset
        <3>3. Inferred(MinioPreset(v)) = MinioPreset(v)
            BY <3>2, InferredOnce
        <3>4. StorePreset(MinioPreset(v)) = MinioPreset(MinioPreset(v))
            BY <3>2 DEF StorePreset, Yandex
        <3> QED
            BY <3>1, <3>3, <3>4, PresetsIdempotent
    <2>3. CASE v.provider = "aws"
        <3>1. Finalized(where) = RegionPreset(v) /\ StorePreset(v) = RegionPreset(v)
            BY <2>3 DEF Finalized, StorePreset, Yandex, v
        <3>2. RegionPreset(v).provider = "aws"
            BY <2>3 DEF RegionPreset
        <3>3. Inferred(RegionPreset(v)) = RegionPreset(v)
            BY <3>2, InferredOnce
        <3>4. StorePreset(RegionPreset(v)) = RegionPreset(RegionPreset(v))
            BY <3>2 DEF StorePreset, Yandex
        <3> QED
            BY <3>1, <3>3, <3>4, PresetsIdempotent
    <2>4. CASE v.provider \notin Yandex \cup {"minio", "aws"}
        <3>1. Finalized(where) = v
            BY <2>4 DEF Finalized, v
        <3>2. Inferred(v) = v
            BY <1>1, InferredOnce
        <3> QED
            BY <3>1, <3>2
    <2> QED
        BY <2>1, <2>2, <2>3, <2>4
<1> QED
    BY <1>2 DEF PresetsAgree, StoreConfig, v
=============================================================================
