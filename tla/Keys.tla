-------------------------------- MODULE Keys --------------------------------
(***************************************************************************)
(* The names of objects: how the tunnel builds them                        *)
(* (internal/protocol/protocol.go), how the S3 client puts them into a URL *)
(* (internal/objectstore/s3/s3.go), what a LIST of a prefix finds, and how *)
(* the metrics read a name back (internal/metrics/objectstore.go).         *)
(*                                                                         *)
(* A name is the sequence of its segments between slashes; a LIST prefix   *)
(* is a sequence of whole segments and the beginning of one more.          *)
(***************************************************************************)
EXTENDS Integers, Sequences, SequencesExt

CONSTANTS
    PrefixSegments,  \* segments that a configured --prefix is made of
    MaxPrefix,       \* bound: how many segments it has
    SessionID,       \* session identifiers
    DataSeqs         \* sequence numbers of data objects

VARIABLE lookup  \* a configured prefix and an object of the protocol

Directions == {"c2s", "s2c"}
Sides == {"client", "server"}

(* The objects of the protocol.                                            *)
Objects ==
    [kind : {"open", "open-result"}, sub : {"none"}, session : SessionID, seq : {0}]
    \cup [kind : {"data"}, sub : Directions, session : SessionID, seq : DataSeqs]
    \cup [kind : {"ack"}, sub : Directions, session : SessionID, seq : {0}]
    \cup [kind : {"close", "heartbeat"}, sub : Sides, session : SessionID, seq : {0}]

KeysInit == lookup \in [prefix : BoundedSeq(PrefixSegments, MaxPrefix), object : Objects]

(* Nothing changes: every initial state is one case.                       *)
KeysSpec == KeysInit /\ [][FALSE]_lookup
-----------------------------------------------------------------------------
(* Building a key *)

(* What is between two slashes in a row, or before the first one.          *)
NoName == ""

(* strings.Trim(s, "/")                                                    *)
TrimSlashes(s) ==
    LET named == {i \in DOMAIN s : s[i] # NoName} IN
    IF named = {} THEN << >> ELSE SubSeq(s, Min(named), Max(named))

(* What path.Clean does with the next segment of a relative path.          *)
CleanSegment(out, seg) ==
    CASE seg \in {NoName, "."} -> out
      [] seg = ".." /\ out # << >> /\ Last(out) # ".." -> Front(out)
      [] OTHER -> Append(out, seg)

(* path.Clean of a relative path.                                          *)
Clean(s) ==
    LET out[i \in 0 .. Len(s)] == IF i = 0 THEN << >> ELSE CleanSegment(out[i - 1], s[i])
    IN out[Len(s)]

NormalizePrefix(prefix) ==
    IF TrimSlashes(prefix) = << >> THEN <<"s3s5">> ELSE TrimSlashes(prefix)

key(prefix, parts) == Clean(NormalizePrefix(prefix) \o parts)

Json(sessionID) == sessionID \o ".json"
FormatSeq(seq) == ToString(seq) \o ".bin"

(* What OpenKey, OpenResultKey, DataKey, AckKey, CloseKey and HeartbeatKey *)
(* put after the prefix.                                                   *)
PartsOf(o) ==
    <<"v1", o.kind>> \o
      CASE o.kind \in {"open", "open-result"} -> <<Json(o.session)>>
        [] o.kind = "data" -> <<o.sub, o.session, FormatSeq(o.seq)>>
        [] OTHER -> <<o.sub, Json(o.session)>>

KeyOf(prefix, o) == key(prefix, PartsOf(o))

(* Mutant: the prefix to list does not end with a slash.                   *)
OpenPrefixBare(prefix) == [dirs |-> key(prefix, <<"v1">>), part |-> "open"]

OpenPrefix(prefix) == [dirs |-> key(prefix, <<"v1", "open">>), part |-> NoName]

(* The prefix that s3s5-doctor --cleanup-prefix empties.                   *)
CleanupPrefix(prefix) == [dirs |-> NormalizePrefix(prefix), part |-> NoName]

(* strings.TrimSuffix(path.Base(key), ".json"), as Server.Run reads a key. *)
SessionOf(k) == CHOOSE s \in SessionID : Json(s) = Last(k)
-----------------------------------------------------------------------------
(* What the service stores and finds *)

(* url.QueryEscape of a segment, with %20 for a space.                     *)
awsEscape(seg) == IF seg = "my app" THEN "my%20app" ELSE seg

escapePath(k) == [i \in DOMAIN k |-> awsEscape(k[i])]

(* Facts about strings, which the prover does not look into: the names     *)
(* that the protocol makes of a session, 32 hexadecimal digits             *)
(* (NewSessionID), and of a sequence number are left alone by path.Clean   *)
(* and the URL, and a session can be read back from its name.              *)
ASSUME NameAssumption ==
    /\ \A name \in SessionID \cup {Json(s) : s \in SessionID} \cup {FormatSeq(n) : n \in DataSeqs} :
         name \notin {NoName, ".", ".."} /\ awsEscape(name) = name
    /\ \A s, t \in SessionID : Json(s) = Json(t) => s = t

(* objectURL puts the escaped key into URL.Path.  URL.String encodes the   *)
(* path once more and the service decodes it once, so that the name of the *)
(* object is what URL.Path holds.                                          *)
StoredKey(k) == TrimSlashes(escapePath(k))

(* LIST finds the names that begin with the prefix, which goes through the *)
(* query and arrives as it is.                                             *)
StartsWith(name, part) ==
    part = NoName \/ name = part \/ <<name, part>> = <<"open-result", "open">>

Under(p, k) ==
    /\ IsStrictPrefix(p.dirs, k)
    /\ StartsWith(k[Len(p.dirs) + 1], p.part)
-----------------------------------------------------------------------------
(* The metrics' reading of a key *)

MinParts == [data |-> 4, ack |-> 3, close |-> 3, heartbeat |-> 3]
Subs == [data |-> Directions, ack |-> Directions, close |-> Sides, heartbeat |-> Sides]

(* The segments after the first v1.                                        *)
AfterV1(parts) ==
    LET v1 == {i \in DOMAIN parts : parts[i] = "v1"} IN
    IF v1 = {} THEN << >> ELSE SubSeq(parts, Min(v1) + 1, Len(parts))

ClassifyKey(k) ==
    LET rest == AfterV1(Clean(TrimSlashes(k)))
    IN CASE rest = << >> -> <<"unknown">>
         [] rest # << >> /\ rest[1] \in {"open", "open-result"} /\ Len(rest) = 2 -> <<rest[1]>>
         [] rest # << >> /\ rest[1] \in DOMAIN MinParts /\ Len(rest) >= MinParts[rest[1]]
              /\ rest[2] \in Subs[rest[1]] -> <<rest[1], rest[2]>>
         [] OTHER -> <<"unknown">>

ClassifyListPrefix(p) ==
    IF p.part = NoName /\ ClassifyKey(Append(p.dirs, "placeholder.json")) = <<"open">>
    THEN "list-open" ELSE "unknown"
-----------------------------------------------------------------------------
Prefix == lookup.prefix
Object == lookup.object
Plain(prefix) == \A i \in DOMAIN prefix : awsEscape(prefix[i]) = prefix[i]

(* Every reader of a name finds what its writer meant, for a prefix that   *)
(* neither the URL nor path.Clean changes: the LIST of the server finds    *)
(* the open requests and nothing else, although open-result begins with    *)
(* the same letters, and reads their sessions back; --cleanup-prefix       *)
(* reaches every object; and the metrics know the class of every call,     *)
(* unless the prefix has a segment v1 of its own.                          *)
KeysReadBack ==
    LET k == StoredKey(KeyOf(Prefix, Object)) IN
    /\ Plain(Prefix) =>
         /\ Under(OpenPrefix(Prefix), k) <=> Object.kind = "open"
         /\ Object.kind = "open" => SessionOf(k) = Object.session
         /\ Clean(Prefix) = Prefix => Under(CleanupPrefix(Prefix), k)
    /\ (\A i \in DOMAIN Prefix : Prefix[i] # "v1") =>
         /\ ClassifyKey(KeyOf(Prefix, Object)) =
              IF Object.sub = "none" THEN <<Object.kind>> ELSE <<Object.kind, Object.sub>>
         /\ ClassifyListPrefix(OpenPrefix(Prefix)) = "list-open"

(* "the server polls for open requests" (docs/PROTOCOL.md:27): the LIST of *)
(* the server finds the object that the client's PutObject has created,    *)
(* whatever the prefix.                                                    *)
OpenRequestFound ==
    Object.kind = "open" => Under(OpenPrefix(Prefix), StoredKey(KeyOf(Prefix, Object)))
=============================================================================
