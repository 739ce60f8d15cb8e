------------------------------- MODULE Codec --------------------------------
(***************************************************************************)
(* Sealing and opening objects (internal/crypto/codec.go) as the tunnel    *)
(* and the doctor call it.  AES-GCM and HKDF are external and symbolic: a  *)
(* ciphertext opens under the key and the associated data it was sealed    *)
(* with and under nothing else.  The layout of a data envelope is kept,    *)
(* with the width of its length field and of Go's int.                     *)
(***************************************************************************)
EXTENDS Integers

CONSTANTS
    SealSessions,  \* session identifiers
    SealSeqs,      \* sequence numbers of data objects
    Lengths,       \* lengths of stored objects and values of the length field
    HalfWords      \* 2^(w-1) for each width w that Go's int may have

ASSUME CodecAssumption ==
    /\ SealSeqs \subseteq Nat
    /\ Lengths \subseteq Nat
    /\ HalfWords \subseteq {n \in Nat : n >= 32}

VARIABLES
    codec,    \* "psk", or "noop" with --insecure-no-crypto
    stored,   \* the call that wrote an object
    reader,   \* the call that reads it, wherever the bucket now has it
    changed,  \* what was changed in the object since it was written
    header    \* the length of a stored data object and the fields of its header

dataHeaderLen == 12
nonceSize == 12
tagSize == 16

(* The names of objects below the prefix (protocol.go, runDoctor).         *)
OpenKey(s) == <<"open", s>>
OpenResultKey(s) == <<"open-result", s>>
DataKey(dir, s, n) == <<"data", dir, s, n>>
AckKey(dir, s) == <<"ack", dir, s>>
CloseKey(side, s) == <<"close", side, s>>
ProbeKey(s) == <<"doctor", s>>

(* Which direction a side sends on and which one it receives on.           *)
SendsOn == [client |-> "c2s", server |-> "s2c"]
ReceivesOn == [client |-> "s2c", server |-> "c2s"]
BothEnds == {"client", "server"}

(* A PUT or a GET of an object with the context given to the codec.        *)
Call(by, k, type, session, dir, seq) ==
    [by |-> by, key |-> k,
     ctx |-> [type |-> type, session |-> session, dir |-> dir, seq |-> seq]]

(* What is written: putJSON always seals with sequence number 0, SealData  *)
(* with the number in the name, the doctor with its round, which is not    *)
(* in the name.                                                            *)
OpenPut(s) == Call("client", OpenKey(s), "open", s, "control", 0)
OpenResultPut(s) == Call("server", OpenResultKey(s), "open-result", s, "control", 0)
DataPut(side, s, n) == Call(side, DataKey(SendsOn[side], s, n), "data", s, SendsOn[side], n)
AckPut(side, s) == Call(side, AckKey(ReceivesOn[side], s), "ack", s, ReceivesOn[side], 0)
ClosePut(side, s) == Call(side, CloseKey(side, s), "close", s, side, 0)
ProbePut(s, i) == Call("doctor", ProbeKey(s), "doctor", s, "control", i)

Puts ==
    {OpenPut(s) : s \in SealSessions} \cup {OpenResultPut(s) : s \in SealSessions}
    \cup {DataPut(side, s, n) : side \in BothEnds, s \in SealSessions, n \in SealSeqs}
    \cup {AckPut(side, s) : side \in BothEnds, s \in SealSessions}
    \cup {ClosePut(side, s) : side \in BothEnds, s \in SealSessions}
    \cup {ProbePut(s, i) : s \in SealSessions, i \in SealSeqs}

(* What is read and opened; a close marker is only looked for.             *)
OpenGet(s) == Call("server", OpenKey(s), "open", s, "control", 0)
OpenResultGet(s) == Call("client", OpenResultKey(s), "open-result", s, "control", 0)
DataGet(side, s, n) == Call(side, DataKey(ReceivesOn[side], s, n), "data", s, ReceivesOn[side], n)
AckGet(side, s) == Call(side, AckKey(SendsOn[side], s), "ack", s, SendsOn[side], 0)
ProbeGet(s, i) == Call("doctor", ProbeKey(s), "doctor", s, "control", i)

Gets ==
    {OpenGet(s) : s \in SealSessions} \cup {OpenResultGet(s) : s \in SealSessions}
    \cup {DataGet(side, s, n) : side \in BothEnds, s \in SealSessions, n \in SealSeqs}
    \cup {AckGet(side, s) : side \in BothEnds, s \in SealSessions}
    \cup {ProbeGet(s, i) : s \in SealSessions, i \in SealSeqs}

(* SealData makes a binary envelope, Seal one in JSON.                     *)
Envelope(c) == IF c.type = "data" THEN "binary" ELSE "json"

(* The parts of an envelope.  "size" is the number of bytes, "layout" all  *)
(* of a JSON text that leaves the values of its four fields as they are.   *)
Parts(envelope) ==
    IF envelope = "binary"
    THEN {"magic", "version", "algorithm", "nonceLen", "flags", "ctLen", "size", "nonce",
          "ciphertext"}
    ELSE {"syntax", "version", "algorithm", "nonce", "ciphertext", "layout"}

CodecInit ==
    /\ codec \in {"psk", "noop"}
    /\ stored \in Puts
    /\ reader \in Gets
    /\ changed \in {"nothing"} \cup Parts(Envelope(stored.ctx))
    /\ header \in [len : Lengths, magic : BOOLEAN, version : {1, 2}, algorithm : {1, 2},
                   nonceLen : {0, 12, 255}, ctLen : Lengths, half : HalfWords]

(* Nothing changes: every initial state is one case.                       *)
CodecSpec == CodecInit /\ [][FALSE]_<<codec, stored, reader, changed, header>>
-----------------------------------------------------------------------------
deriveKey(c) == <<c.session, c.dir>>

(* Mutant: the sequence number is not part of the associated data.         *)
associatedDataUnnumbered(c) == <<c.type, c.session, c.dir, 0>>

associatedData(c) == <<c.type, c.session, c.dir, c.seq>>

(* sealRaw, sealJSON and SealData                                          *)
Seal(c) == [envelope |-> Envelope(c), key |-> deriveKey(c), aad |-> associatedData(c)]

(* openRaw: AES-GCM refuses another key, other associated data and any     *)
(* other nonce, ciphertext or tag.                                         *)
openRaw(c, box, part) ==
    /\ box.key = deriveKey(c)
    /\ box.aad = associatedData(c)
    /\ part \notin {"nonce", "ciphertext"}

(* OpenData looks at every field of the header but the flags, and none of  *)
(* them is in the associated data.                                         *)
OpenData(c, box, part) ==
    /\ box.envelope = "binary"
    /\ part \notin {"magic", "version", "algorithm", "nonceLen", "ctLen", "size"}
    /\ openRaw(c, box, part)

(* openJSON goes by the values of the fields.                              *)
openJSON(c, box, part) ==
    /\ box.envelope = "json"
    /\ part \notin {"syntax", "version", "algorithm"}
    /\ openRaw(c, box, part)

(* NoopCodec opens everything.                                             *)
Opens(c, box, part) ==
    \/ codec = "noop"
    \/ IF c.type = "data" THEN OpenData(c, box, part) ELSE openJSON(c, box, part)
-----------------------------------------------------------------------------
(* Go's int of the given width: the length field wraps when it is wider,   *)
(* and so does a sum.                                                      *)
toInt(n, half) == IF n >= half THEN n - 2 * half ELSE n

(* Mutant: bytes behind the ciphertext are tolerated.                      *)
AcceptsTrailing(h) ==
    /\ h.len >= dataHeaderLen
    /\ h.magic /\ h.version = 1 /\ h.algorithm = 1
    /\ h.nonceLen = nonceSize
    /\ toInt(h.ctLen, h.half) >= tagSize
    /\ h.len >= toInt(dataHeaderLen + h.nonceLen + toInt(h.ctLen, h.half), h.half)

(* The checks of OpenData before it slices the object.                     *)
Accepts(h) ==
    /\ h.len >= dataHeaderLen
    /\ h.magic /\ h.version = 1 /\ h.algorithm = 1
    /\ h.nonceLen = nonceSize
    /\ toInt(h.ctLen, h.half) >= tagSize
    /\ h.len = toInt(dataHeaderLen + h.nonceLen + toInt(h.ctLen, h.half), h.half)

(* A header that the object's bytes can have: the object has a header, its *)
(* length is an int and the length field a number of the int's width.      *)
Storable(h) == h.len < h.half /\ h.ctLen < 2 * h.half
-----------------------------------------------------------------------------
(* Who writes what a caller reads: the other end of the tunnel; the doctor *)
(* reads its own probe.                                                    *)
WriterFor(by) ==
    CASE by = "client" -> "server" [] by = "server" -> "client" [] OTHER -> by

(* Every read of the tunnel and of the doctor has a write by the right end *)
(* that it opens, and opens nothing else: not an object of another name,   *)
(* of the other direction or another session, not the probe of an earlier  *)
(* round under the same name, and none in which anything was changed but   *)
(* the unused flags of a data object or the layout of a JSON text          *)
(* (docs/PROTOCOL.md:89, codec.go).                                        *)
ObjectsBoundToSlot ==
    codec = "psk" =>
        /\ \E p \in Puts : /\ p.key = reader.key /\ p.by = WriterFor(reader.by)
                           /\ Opens(reader.ctx, Seal(p.ctx), "nothing")
        /\ Opens(reader.ctx, Seal(stored.ctx), changed)
             <=> /\ stored.key = reader.key /\ stored.ctx.seq = reader.ctx.seq
                 /\ changed \in {"nothing", "flags", "layout"}

(* Whatever the bytes of a data object, OpenData slices it inside its      *)
(* bounds and gives AES-GCM a ciphertext of the announced size with room   *)
(* for the tag, on 32-bit and on 64-bit builds.                            *)
SlicesInBounds ==
    Storable(header) /\ Accepts(header) =>
        /\ dataHeaderLen + header.nonceLen <= header.len
        /\ header.len - (dataHeaderLen + header.nonceLen) = header.ctLen
        /\ header.ctLen >= tagSize
=============================================================================
