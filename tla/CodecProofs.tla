---------------------------- MODULE CodecProofs -----------------------------
(* Proofs about Codec for every set of sessions, sequence numbers, lengths *)
(* and int widths, and about Keys for every prefix and set of sessions.    *)
EXTENDS Codec, Keys, WellFoundedInduction, SequenceTheorems, TLAPS

(* The name that goes with a context.                                      *)
KeyFor(c) ==
  CASE c.type \in {"open", "open-result", "doctor"} -> <<c.type, c.session>>
    [] c.type \in {"ack", "close"} -> <<c.type, c.dir, c.session>>
    [] OTHER -> <<c.type, c.dir, c.session, c.seq>>

Contexts ==
  [type : {"open", "open-result", "doctor", "ack", "close", "data"}, session : SealSessions,
   dir : {"control", "c2s", "s2c", "client", "server"}, seq : Nat]

(* A call gives its object the name and number that belong to its context. *)
Consistent(call) ==
  /\ call.ctx \in Contexts
  /\ call.key = KeyFor(call.ctx)
  /\ call.ctx.type \in {"open", "open-result", "ack", "close"} => call.ctx.seq = 0
  /\ call.ctx.type \in {"open", "open-result", "doctor"} => call.ctx.dir = "control"

(* Every call of the tunnel and the doctor does.                           *)
LEMMA CallsAreConsistent ==
  ASSUME NEW call \in Puts \cup Gets
  PROVE  Consistent(call)
<1> USE CodecAssumption DEF Consistent, Contexts, KeyFor, Call
<1>1. ASSUME NEW s \in SealSessions, call \in {OpenPut(s), OpenGet(s), OpenResultPut(s), OpenResultGet(s)}
      PROVE  Consistent(call)
  BY <1>1 DEF OpenPut, OpenGet, OpenResultPut, OpenResultGet, OpenKey, OpenResultKey
<1>2. ASSUME NEW side \in BothEnds, NEW s \in SealSessions, NEW n \in SealSeqs,
             call \in {DataPut(side, s, n), DataGet(side, s, n)}
      PROVE  Consistent(call)
  BY <1>2 DEF BothEnds, DataPut, DataGet, DataKey, SendsOn, ReceivesOn
<1>3. ASSUME NEW side \in BothEnds, NEW s \in SealSessions,
             call \in {AckPut(side, s), AckGet(side, s), ClosePut(side, s)}
      PROVE  Consistent(call)
  BY <1>3 DEF BothEnds, AckPut, AckGet, ClosePut, AckKey, CloseKey, SendsOn, ReceivesOn
<1>4. ASSUME NEW s \in SealSessions, NEW i \in SealSeqs, call \in {ProbePut(s, i), ProbeGet(s, i)}
      PROVE  Consistent(call)
  BY <1>4 DEF ProbePut, ProbeGet, ProbeKey
<1> QED BY <1>1, <1>2, <1>3, <1>4 DEF Puts, Gets

(* Associated data tells contexts apart.                                   *)
LEMMA AssociatedDataInjective ==
  ASSUME NEW a \in Contexts, NEW b \in Contexts, associatedData(a) = associatedData(b)
  PROVE  a = b
BY DEF Contexts, associatedData

(* So do name and number.                                                  *)
LEMMA NamesInjective ==
  ASSUME NEW a, NEW b, Consistent(a), Consistent(b), a.key = b.key, a.ctx.seq = b.ctx.seq
  PROVE  a.ctx = b.ctx
BY DEF Consistent, Contexts, KeyFor

(* Every object that is read is written by the end that should.            *)
LEMMA EveryReadHasAWrite ==
  ASSUME NEW g \in Gets
  PROVE  \E p \in Puts : p.key = g.key /\ p.by = WriterFor(g.by) /\ p.ctx = g.ctx
<1> USE DEF Puts, Call
<1>1. ASSUME NEW s \in SealSessions, g = OpenGet(s)
      PROVE  \E p \in Puts : p.key = g.key /\ p.by = WriterFor(g.by) /\ p.ctx = g.ctx
  <2> WITNESS OpenPut(s) \in Puts
  <2> QED BY <1>1 DEF OpenPut, OpenGet, WriterFor
<1>2. ASSUME NEW s \in SealSessions, g = OpenResultGet(s)
      PROVE  \E p \in Puts : p.key = g.key /\ p.by = WriterFor(g.by) /\ p.ctx = g.ctx
  <2> WITNESS OpenResultPut(s) \in Puts
  <2> QED BY <1>2 DEF OpenResultPut, OpenResultGet, WriterFor
<1>3. ASSUME NEW side \in BothEnds, NEW s \in SealSessions, NEW n \in SealSeqs, g = DataGet(side, s, n)
      PROVE  \E p \in Puts : p.key = g.key /\ p.by = WriterFor(g.by) /\ p.ctx = g.ctx
  <2>1. WriterFor(side) \in BothEnds /\ SendsOn[WriterFor(side)] = ReceivesOn[side]
    BY DEF BothEnds, SendsOn, ReceivesOn, WriterFor
  <2>2. DataPut(WriterFor(side), s, n) \in Puts
    BY <2>1
  <2> QED BY <1>3, <2>1, <2>2 DEF DataPut, DataGet
<1>4. ASSUME NEW side \in BothEnds, NEW s \in SealSessions, g = AckGet(side, s)
      PROVE  \E p \in Puts : p.key = g.key /\ p.by = WriterFor(g.by) /\ p.ctx = g.ctx
  <2>1. WriterFor(side) \in BothEnds /\ ReceivesOn[WriterFor(side)] = SendsOn[side]
    BY DEF BothEnds, SendsOn, ReceivesOn, WriterFor
  <2>2. AckPut(WriterFor(side), s) \in Puts
    BY <2>1
  <2> QED BY <1>4, <2>1, <2>2 DEF AckPut, AckGet
<1>5. ASSUME NEW s \in SealSessions, NEW i \in SealSeqs, g = ProbeGet(s, i)
      PROVE  \E p \in Puts : p.key = g.key /\ p.by = WriterFor(g.by) /\ p.ctx = g.ctx
  <2> WITNESS ProbePut(s, i) \in Puts
  <2> QED BY <1>5 DEF ProbePut, ProbeGet, WriterFor
<1> QED BY <1>1, <1>2, <1>3, <1>4, <1>5 DEF Gets

(* With a key, a box opens in its own context only, and only if nothing    *)
(* that the reader looks at or AES-GCM covers was changed.                 *)
LEMMA OpensExactly ==
  ASSUME codec = "psk", NEW a \in Contexts, NEW b \in Contexts,
         NEW part \in {"nothing"} \cup Parts(Envelope(a))
  PROVE  Opens(b, Seal(a), part) <=> a = b /\ part \in {"nothing", "flags", "layout"}
<1>1. associatedData(a) = associatedData(b) <=> a = b
  BY AssociatedDataInjective
<1>2. CASE a # b
  BY <1>1, <1>2 DEF Opens, OpenData, openJSON, openRaw, Seal
<1>3. CASE a = b
  BY <1>3 DEF Opens, OpenData, openJSON, openRaw, Seal, Envelope, Parts
<1> QED BY <1>2, <1>3

(* Every read of the tunnel and of the doctor opens what was written for   *)
(* it, and nothing else (codec.go, tunnel.go, runDoctor).                  *)
THEOREM SlotBinding == CodecSpec => []ObjectsBoundToSlot
<1>1. CodecInit => ObjectsBoundToSlot
  <2> SUFFICES ASSUME CodecInit, codec = "psk"
      PROVE /\ \E p \in Puts : /\ p.key = reader.key /\ p.by = WriterFor(reader.by)
                               /\ Opens(reader.ctx, Seal(p.ctx), "nothing")
            /\ Opens(reader.ctx, Seal(stored.ctx), changed)
                 <=> /\ stored.key = reader.key /\ stored.ctx.seq = reader.ctx.seq
                     /\ changed \in {"nothing", "flags", "layout"}
    BY DEF ObjectsBoundToSlot
  <2>1. reader \in Gets /\ Consistent(reader) /\ stored \in Puts /\ Consistent(stored)
    BY CallsAreConsistent DEF CodecInit
  <2>2. reader.ctx \in Contexts /\ stored.ctx \in Contexts
    BY <2>1 DEF Consistent
  <2>3. stored.ctx = reader.ctx <=> stored.key = reader.key /\ stored.ctx.seq = reader.ctx.seq
    <3>1. stored.ctx = reader.ctx => stored.key = reader.key
      BY <2>1 DEF Consistent
    <3> QED BY <2>1, <3>1, NamesInjective
  <2>4. Opens(reader.ctx, Seal(stored.ctx), changed)
          <=> stored.ctx = reader.ctx /\ changed \in {"nothing", "flags", "layout"}
    BY <2>2, OpensExactly DEF CodecInit
  <2>5. PICK p \in Puts : p.key = reader.key /\ p.by = WriterFor(reader.by) /\ p.ctx = reader.ctx
    BY <2>1, EveryReadHasAWrite
  <2>6. Opens(reader.ctx, Seal(p.ctx), "nothing")
    BY <2>2, <2>5, OpensExactly
  <2> QED BY <2>3, <2>4, <2>5, <2>6
<1>2. ObjectsBoundToSlot /\ UNCHANGED <<codec, stored, reader, changed, header>> => ObjectsBoundToSlot'
  BY DEF ObjectsBoundToSlot, Opens
<1> QED BY <1>1, <1>2, PTL DEF CodecSpec

(* OpenData never slices a stored data object outside its bounds.          *)
THEOREM EnvelopeSound == CodecSpec => []SlicesInBounds
<1>1. CodecInit => SlicesInBounds
  <2> SUFFICES ASSUME CodecInit, Storable(header), Accepts(header)
      PROVE /\ dataHeaderLen + header.nonceLen <= header.len
            /\ header.len - (dataHeaderLen + header.nonceLen) = header.ctLen
            /\ header.ctLen >= tagSize
    BY DEF SlicesInBounds
  <2>1. header.len \in Lengths /\ header.ctLen \in Lengths /\ header.half \in HalfWords
    BY DEF CodecInit
  <2>2. header.len \in Nat /\ header.ctLen \in Nat
    BY <2>1, CodecAssumption
  <2>3. header.half \in Nat /\ header.half >= 32
    BY <2>1, CodecAssumption
  <2> QED BY <2>2, <2>3 DEF Storable, Accepts, toInt, dataHeaderLen, nonceSize, tagSize
<1>2. SlicesInBounds /\ UNCHANGED <<codec, stored, reader, changed, header>> => SlicesInBounds'
  BY DEF SlicesInBounds, Storable, Accepts
<1> QED BY <1>1, <1>2, PTL DEF CodecSpec
-----------------------------------------------------------------------------
(* path.Clean *)

(* Every nonempty set of naturals has a least element: the form in which   *)
(* the proofs about path.Clean do induction.                               *)
LEMMA LeastNatural ==
  ASSUME NEW S \in SUBSET Nat, S # {}
  PROVE  \E k \in S : \A j \in S : k <= j
<1> DEFINE Less == OpToRel(<, Nat)
<1>1. \A i, j \in Nat : i < j => <<i, j>> \in Less
  BY DEF OpToRel
<1>2. IsWellFoundedOn(Less, Nat)
  BY NatLessThanWellFounded
<1> HIDE DEF Less
<1>3. PICK k \in S : \A j \in S : ~(<<j, k>> \in Less)
  BY <1>2, WFMin
<1>4. \A j \in S : ~(j < k)
  BY <1>1, <1>3
<1> QED BY <1>4

(* The empty segment differs from the segments with a meaning.             *)
LEMMA NoNameDiffers ==
  NoName \notin {".", "..", "s3s5", "v1", "open", "open-result", "data", "ack", "close",
                "heartbeat", "c2s", "s2c", "client", "server", "placeholder.json"}
BY Zenon DEF NoName

(* A cleaned segment comes from the path, and is neither empty nor a dot.  *)
LEMMA CleanSegmentType ==
  ASSUME NEW T, NEW out \in Seq(T), NEW seg, seg \in {NoName, "."} \/ seg \in T
  PROVE  CleanSegment(out, seg) \in Seq(T)
<1>1. CASE seg \in {NoName, "."}
  BY <1>1, NoNameDiffers DEF CleanSegment
<1>2. CASE seg \notin {NoName, "."} /\ seg = ".." /\ out # << >> /\ Last(out) # ".."
  <2>1. Len(out) \in Nat /\ Len(out) # 0
    BY <1>2
  <2>2. Front(out) \in Seq(T)
    BY <2>1 DEF Front
  <2> QED BY <1>2, <2>2 DEF CleanSegment
<1>3. CASE seg \notin {NoName, "."} /\ ~(seg = ".." /\ out # << >> /\ Last(out) # "..")
  <2>1. Append(out, seg) \in Seq(T)
    BY <1>3
  <2> QED BY <1>3, <2>1 DEF CleanSegment
<1> QED BY <1>1, <1>2, <1>3

(* An ordinary segment is kept.                                            *)
LEMMA OrdinaryIsKept ==
  ASSUME NEW out, NEW seg, seg \notin {NoName, ".", ".."}
  PROVE  CleanSegment(out, seg) = Append(out, seg)
BY DEF CleanSegment

(* g holds what path.Clean has after 0, 1, ..., n segments of s.           *)
IsCleaning(g, s, n) ==
  g = [i \in 0 .. n |-> IF i = 0 THEN << >> ELSE CleanSegment(g[i - 1], s[i])]

(* Cleaning n segments is defined, and only keeps segments of T.           *)
LEMMA CleaningExists ==
  ASSUME NEW T, NEW s, NEW n \in Nat, \A i \in 1 .. n : s[i] \in {NoName, "."} \/ s[i] \in T
  PROVE  \E g \in [0 .. n -> Seq(T)] : IsCleaning(g, s, n)
<1> DEFINE missing == {m \in 0 .. n : ~ \E g \in [0 .. m -> Seq(T)] : IsCleaning(g, s, m)}
<1>0. /\ missing \in SUBSET Nat
      /\ n \in missing \/ \E g \in [0 .. n -> Seq(T)] : IsCleaning(g, s, n)
  OBVIOUS
<1> SUFFICES ASSUME missing # {} PROVE FALSE
  BY <1>0
<1>1. PICK m \in missing : \A j \in missing : m <= j
  <2> HIDE DEF missing
  <2> QED BY <1>0, LeastNatural
<1>2. CASE m = 0
  <2> DEFINE g == [i \in 0 .. 0 |-> << >>]
  <2>1. g \in [0 .. 0 -> Seq(T)] /\ IsCleaning(g, s, 0)
    BY DEF IsCleaning
  <2> QED BY <1>2, <2>1
<1>3. CASE m # 0
  <2>1. m \in 1 .. n /\ m - 1 \in 0 .. n /\ m - 1 \notin missing
    BY <1>1, <1>3
  <2>2. PICK h \in [0 .. m - 1 -> Seq(T)] : IsCleaning(h, s, m - 1)
    BY <2>1
  <2> DEFINE b == CleanSegment(h[m - 1], s[m])
             g == [i \in 0 .. m |-> IF i < m THEN h[i] ELSE b]
  <2>3. b \in Seq(T)
    <3>1. h[m - 1] \in Seq(T) /\ (s[m] \in {NoName, "."} \/ s[m] \in T)
      BY <2>1, <2>2
    <3> QED BY <3>1, CleanSegmentType
  <2>4. \A i \in 0 .. m - 1 : h[i] = IF i = 0 THEN << >> ELSE CleanSegment(h[i - 1], s[i])
    BY <2>2 DEF IsCleaning
  <2>5. g \in [0 .. m -> Seq(T)]
    <3> HIDE DEF b
    <3> QED BY <2>1, <2>2, <2>3
  <2>6. ASSUME NEW i \in 0 .. m
        PROVE  g[i] = IF i = 0 THEN << >> ELSE CleanSegment(g[i - 1], s[i])
    <3>1. CASE i = m
      BY <2>1, <3>1
    <3>2. CASE i # m
      <4>1. i \in 0 .. m - 1 /\ g[i] = h[i]
        BY <2>1, <3>2
      <4>2. i # 0 => i - 1 \in 0 .. m /\ g[i - 1] = h[i - 1]
        BY <2>1, <3>2
      <4> HIDE DEF g
      <4> QED BY <2>4, <4>1, <4>2
    <3> QED BY <3>1, <3>2
  <2>7. IsCleaning(g, s, m)
    BY <2>5, <2>6 DEF IsCleaning
  <2> QED BY <1>1, <2>5, <2>7
<1> QED BY <1>2, <1>3

(* It depends on nothing but the segments cleaned so far.                  *)
LEMMA CleaningsAgree ==
  ASSUME NEW s, NEW t, NEW n \in Nat, NEW m \in Nat, n <= m,
         NEW g, NEW h, IsCleaning(g, s, n), IsCleaning(h, t, m),
         \A i \in 1 .. n : s[i] = t[i]
  PROVE  \A k \in 0 .. n : g[k] = h[k]
<1> DEFINE differ == {i \in 0 .. n : g[i] # h[i]}
<1> SUFFICES ASSUME differ # {} PROVE FALSE
  OBVIOUS
<1>0. differ \in SUBSET Nat
  OBVIOUS
<1>1. PICK i \in differ : \A j \in differ : i <= j
  <2> HIDE DEF differ
  <2> QED BY <1>0, LeastNatural
<1>2. /\ g[i] = IF i = 0 THEN << >> ELSE CleanSegment(g[i - 1], s[i])
      /\ h[i] = IF i = 0 THEN << >> ELSE CleanSegment(h[i - 1], t[i])
  BY DEF IsCleaning
<1>3. i # 0 => g[i - 1] = h[i - 1] /\ s[i] = t[i]
  BY <1>1
<1> QED BY <1>2, <1>3

(* What path.Clean leaves is made of the path's own segments, without      *)
(* empty ones and dots, and it is what any cleaning of the path arrives at.*)
LEMMA CleanType ==
  ASSUME NEW T, NEW s, Len(s) \in Nat,
         \A i \in 1 .. Len(s) : s[i] \in {NoName, "."} \/ s[i] \in T
  PROVE  /\ Clean(s) \in Seq(T)
         /\ \A g : IsCleaning(g, s, Len(s)) => Clean(s) = g[Len(s)]
<1> DEFINE f == CHOOSE f : IsCleaning(f, s, Len(s))
<1>1. PICK h \in [0 .. Len(s) -> Seq(T)] : IsCleaning(h, s, Len(s))
  BY CleaningExists
<1>2. IsCleaning(f, s, Len(s))
  BY <1>1
<1>3. Clean(s) = f[Len(s)]
  BY DEF Clean, IsCleaning
<1> HIDE DEF f
<1>4. ASSUME NEW g, IsCleaning(g, s, Len(s))
      PROVE  f[Len(s)] = g[Len(s)]
  <2>1. Len(s) <= Len(s) /\ \A i \in 1 .. Len(s) : s[i] = s[i]
    OBVIOUS
  <2>2. \A k \in 0 .. Len(s) : f[k] = g[k]
    BY <1>2, <1>4, <2>1, CleaningsAgree
  <2> QED BY <2>2
<1> QED BY <1>1, <1>3, <1>4

(* path.Clean of one more segment.                                         *)
LEMMA CleanAppend ==
  ASSUME NEW T, NEW s \in Seq(T), NEW x \in T
  PROVE  Clean(Append(s, x)) = CleanSegment(Clean(s), x)
<1> DEFINE u == Append(s, x)
<1>0. Len(s) \in Nat /\ \A i \in 1 .. Len(s) : s[i] \in T
  OBVIOUS
<1>1. PICK n \in Nat : n = Len(s)
  BY <1>0
<1>2. PICK m \in Nat : m = n + 1
  OBVIOUS
<1>3. /\ Len(u) = m /\ u[m] = x
      /\ \A i \in 1 .. n : u[i] = s[i]
      /\ \A i \in 1 .. m : u[i] \in T
  BY <1>0, <1>1, <1>2
<1> HIDE DEF u
<1>4. PICK g : IsCleaning(g, u, m)
  BY <1>3, CleaningExists
<1>5. PICK h : IsCleaning(h, s, n)
  BY <1>0, <1>1, CleaningExists
<1>6. Clean(u) = g[m]
  BY <1>3, <1>4, CleanType
<1>7. Clean(s) = h[n]
  BY <1>0, <1>1, <1>5, CleanType
<1>8. g[n] = h[n]
  <2>1. n <= m /\ \A i \in 1 .. n : s[i] = u[i]
    BY <1>2, <1>3
  <2>2. \A k \in 0 .. n : h[k] = g[k]
    BY <1>4, <1>5, <2>1, CleaningsAgree
  <2> QED BY <2>2
<1>9. g[m] = CleanSegment(g[m - 1], u[m]) /\ m - 1 = n
  BY <1>2, <1>4 DEF IsCleaning
<1> QED BY <1>3, <1>6, <1>7, <1>8, <1>9 DEF u

(* Appending to a concatenation appends to its second part.                *)
LEMMA AppendToConcat ==
  ASSUME NEW T, NEW x \in T, NEW a \in Seq(T)
  PROVE  \A c \in Seq(T) : c \o Append(a, x) = Append(c \o a, x)
OBVIOUS

(* Ordinary segments at the end of a path are kept as they are.            *)
LEMMA CleanOrdinary ==
  ASSUME NEW T, NEW s \in Seq(T), NEW t \in Seq(T),
         \A i \in 1 .. Len(t) : t[i] \notin {NoName, ".", ".."}
  PROVE  Clean(s \o t) = Clean(s) \o t
<1> DEFINE part(j) == SubSeq(t, 1, j)
           wrong == {j \in 0 .. Len(t) : Clean(s \o part(j)) # Clean(s) \o part(j)}
<1>1. /\ Len(t) \in 0 .. Len(t) /\ part(0) = << >> /\ part(Len(t)) = t
      /\ \A j \in 1 .. Len(t) :
           /\ t[j] \in T /\ part(j - 1) \in Seq(T)
           /\ part(j) = Append(part(j - 1), t[j])
  OBVIOUS
<1>2. Clean(s) \in Seq(T)
  BY CleanType
<1> HIDE DEF part
<1>3. /\ wrong \in SUBSET (0 .. Len(t)) /\ wrong \in SUBSET Nat
      /\ \A j \in 0 .. Len(t) : j \notin wrong => Clean(s \o part(j)) = Clean(s) \o part(j)
      /\ \A j \in wrong : Clean(s \o part(j)) # Clean(s) \o part(j)
  OBVIOUS
<1> HIDE DEF wrong
<1>4. ASSUME wrong # {} PROVE FALSE
  <2>1. PICK j \in wrong : \A i \in wrong : j <= i
    BY <1>3, <1>4, LeastNatural
  <2>2. CASE j = 0
    <3>1. s \o << >> = s /\ Clean(s) \o << >> = Clean(s)
      BY <1>2, ConcatEmptySeq
    <3> QED BY <1>1, <1>3, <2>2, <3>1
  <2>3. CASE j # 0
    <3>1. j \in 1 .. Len(t) /\ j - 1 \in 0 .. Len(t) /\ j - 1 \notin wrong
      BY <1>3, <2>1, <2>3
    <3>2. PICK a \in Seq(T) : a = part(j - 1)
      BY <1>1, <3>1
    <3>3. PICK x \in T : x = t[j]
      BY <1>1, <3>1
    <3>4. part(j) = Append(a, x) /\ x \notin {NoName, ".", ".."}
      BY <1>1, <3>1, <3>2, <3>3
    <3>5. Clean(s \o a) = Clean(s) \o a
      BY <1>3, <3>1, <3>2
    <3>6. s \o a \in Seq(T)
      BY ConcatProperties
    <3>7. /\ s \o Append(a, x) = Append(s \o a, x)
          /\ Clean(s) \o Append(a, x) = Append(Clean(s) \o a, x)
      BY <1>2, AppendToConcat
    <3>8. Clean(Append(s \o a, x)) = CleanSegment(Clean(s \o a), x)
      BY <3>6, CleanAppend
    <3>9. CleanSegment(Clean(s \o a), x) = Append(Clean(s \o a), x)
      BY <3>4, OrdinaryIsKept
    <3>10. Clean(s \o part(j)) = Clean(s) \o part(j)
      BY <3>4, <3>5, <3>7, <3>8, <3>9
    <3> QED BY <1>3, <3>10
  <2> QED BY <2>2, <2>3
<1> QED BY <1>1, <1>3, <1>4
-----------------------------------------------------------------------------
(* Prefixes and keys *)

(* Every nonempty set of indices of a sequence has a least and a greatest. *)
LEMMA FirstAndLast ==
  ASSUME NEW n \in Nat, NEW S \in SUBSET (1 .. n), S # {}
  PROVE  /\ Min(S) \in S /\ \A i \in S : Min(S) <= i
         /\ Max(S) \in S /\ \A i \in S : i <= Max(S)
<1>1. PICK k \in S : \A i \in S : k <= i
  <2>1. S \in SUBSET Nat
    OBVIOUS
  <2> QED BY <2>1, LeastNatural
<1>2. PICK m \in S : \A i \in S : i <= m
  <2> DEFINE bounds == {b \in 0 .. n : \A i \in S : i <= b}
  <2>1. bounds \in SUBSET Nat /\ n \in bounds
    OBVIOUS
  <2>2. PICK b \in bounds : \A j \in bounds : b <= j
    <3> HIDE DEF bounds
    <3> QED BY <2>1, LeastNatural
  <2>3. b \in S
    <3> SUFFICES ASSUME b \notin S PROVE FALSE
      OBVIOUS
    <3>1. \A i \in S : i <= b - 1
      OBVIOUS
    <3>2. b - 1 \in 0 .. n
      BY <1>1
    <3>3. b - 1 \in bounds
      BY <3>1, <3>2
    <3> QED BY <2>2, <3>3
  <2> QED BY <2>3
<1>3. Min(S) \in S /\ \A i \in S : Min(S) <= i
  BY <1>1 DEF Min
<1>4. Max(S) \in S /\ \A i \in S : i <= Max(S)
  BY <1>2 DEF Max
<1> QED BY <1>3, <1>4

(* Trimming keeps the segments' set.                                       *)
LEMMA TrimType ==
  ASSUME NEW T, NEW s \in Seq(T)
  PROVE  TrimSlashes(s) \in Seq(T)
<1> DEFINE named == {i \in DOMAIN s : s[i] # NoName}
<1>1. CASE named = {}
  BY <1>1 DEF TrimSlashes
<1>2. CASE named # {}
  <2>1. named \in SUBSET (1 .. Len(s)) /\ Len(s) \in Nat
    OBVIOUS
  <2>2. PICK a \in 1 .. Len(s) : a = Min(named)
    <3> HIDE DEF named
    <3> QED BY <1>2, <2>1, FirstAndLast
  <2>3. PICK b \in 1 .. Len(s) : b = Max(named)
    <3> HIDE DEF named
    <3> QED BY <1>2, <2>1, FirstAndLast
  <2>4. TrimSlashes(s) = SubSeq(s, a, b)
    BY <1>2, <2>2, <2>3 DEF TrimSlashes
  <2>5. SubSeq(s, a, b) \in Seq(T)
    OBVIOUS
  <2> QED BY <2>4, <2>5
<1> QED BY <1>1, <1>2

(* A name that neither begins nor ends with a slash is left alone.         *)
LEMMA TrimNothing ==
  ASSUME NEW T, NEW s \in Seq(T), s # << >>, s[1] # NoName, s[Len(s)] # NoName
  PROVE  TrimSlashes(s) = s
<1> DEFINE named == {i \in DOMAIN s : s[i] # NoName}
<1>1. /\ named \in SUBSET (1 .. Len(s)) /\ Len(s) \in Nat
      /\ 1 \in named /\ Len(s) \in named
  OBVIOUS
<1>2. TrimSlashes(s) = SubSeq(s, Min(named), Max(named))
  BY <1>1 DEF TrimSlashes
<1> HIDE DEF named
<1>3. PICK a \in 1 .. Len(s), b \in 1 .. Len(s) :
         a = Min(named) /\ b = Max(named) /\ a <= 1 /\ Len(s) <= b
  BY <1>1, FirstAndLast
<1>4. a = 1 /\ b = Len(s)
  BY <1>1, <1>3
<1>5. SubSeq(s, 1, Len(s)) = s
  OBVIOUS
<1> QED BY <1>2, <1>3, <1>4, <1>5

(* The cleaned prefix that every key begins with.                          *)
Base(prefix) == Clean(NormalizePrefix(prefix))

(* It is made of segments of the prefix or of the default one.             *)
LEMMA BaseType ==
  ASSUME NEW T, NEW prefix \in Seq(T), "s3s5" \in T
  PROVE  /\ NormalizePrefix(prefix) \in Seq(T)
         /\ Base(prefix) \in Seq(T \ {NoName, "."})
<1>1. TrimSlashes(prefix) \in Seq(T) /\ <<"s3s5">> \in Seq(T)
  BY TrimType
<1>2. NormalizePrefix(prefix) \in Seq(T)
  BY <1>1 DEF NormalizePrefix
<1> DEFINE n == NormalizePrefix(prefix)
           U == T \ {NoName, "."}
<1>3. Len(n) \in Nat /\ \A i \in 1 .. Len(n) : n[i] \in {NoName, "."} \/ n[i] \in U
  BY <1>2
<1> HIDE DEF n, U
<1>4. Clean(n) \in Seq(U)
  BY <1>3, CleanType
<1> QED BY <1>2, <1>4 DEF Base, n, U

(* A key is the cleaned prefix and, as they are, the protocol's parts.     *)
LEMMA KeyIs ==
  ASSUME NEW T, NEW prefix \in Seq(T), "s3s5" \in T, NEW parts \in Seq(T),
         \A i \in 1 .. Len(parts) : parts[i] \notin {NoName, ".", ".."}
  PROVE  key(prefix, parts) = Base(prefix) \o parts
<1>1. NormalizePrefix(prefix) \in Seq(T)
  BY BaseType
<1> QED BY <1>1, CleanOrdinary DEF key, Base

(* What the protocol makes the parts of its keys of.                       *)
Names == {Json(s) : s \in SessionID} \cup {FormatSeq(n) : n \in DataSeqs}
Words == {"v1", "open", "open-result", "data", "ack", "close", "heartbeat",
          "c2s", "s2c", "client", "server", "s3s5", "placeholder.json"}
Part == Words \cup SessionID \cup Names

(* Neither path.Clean nor the URL changes any of it.                       *)
LEMMA PartsAreOrdinary ==
  ASSUME NEW x \in Part
  PROVE  x \notin {NoName, ".", ".."} /\ awsEscape(x) = x
<1>1. CASE x \in Words
  <2>1. x # NoName
    BY <1>1, Zenon DEF Words, NoName
  <2>2. x \notin {".", ".."}
    BY <1>1 DEF Words
  <2>3. x # "my app"
    BY <1>1, Zenon DEF Words
  <2>4. awsEscape(x) = x
    BY <2>3, Zenon DEF awsEscape
  <2> QED BY <2>1, <2>2, <2>4
<1>2. CASE x \in SessionID \cup Names
  BY <1>2, NameAssumption DEF Names
<1> QED BY <1>1, <1>2 DEF Part

(* A concatenation, element by element.                                    *)
LEMMA ConcatIs ==
  ASSUME NEW T, NEW s \in Seq(T), NEW t \in Seq(T)
  PROVE  /\ s \o t \in Seq(T) /\ Len(s \o t) = Len(s) + Len(t)
         /\ Len(s) \in Nat /\ Len(t) \in Nat
         /\ \A i \in 1 .. Len(s) : (s \o t)[i] = s[i]
         /\ \A j \in 1 .. Len(t) : (s \o t)[Len(s) + j] = t[j]
BY ConcatProperties

(* Two segments before others.                                             *)
LEMMA TwoBefore ==
  ASSUME NEW T, NEW a \in T, NEW b \in T, NEW y \in Seq(T)
  PROVE  /\ <<a, b>> \o y \in Seq(T) /\ Len(<<a, b>> \o y) = 2 + Len(y)
         /\ (<<a, b>> \o y)[1] = a /\ (<<a, b>> \o y)[2] = b
         /\ \A i \in 1 .. Len(y) : (<<a, b>> \o y)[2 + i] = y[i]
<1>1. <<a, b>> \in Seq(T) /\ Len(<<a, b>>) = 2 /\ <<a, b>>[1] = a /\ <<a, b>>[2] = b
  OBVIOUS
<1>2. PICK x \in Seq(T) : x = <<a, b>>
  BY <1>1
<1>3. Len(x) = 2 /\ x[1] = a /\ x[2] = b
  BY <1>1, <1>2
<1>4. /\ x \o y \in Seq(T) /\ Len(x \o y) = Len(x) + Len(y)
      /\ \A i \in 1 .. Len(x) : (x \o y)[i] = x[i]
      /\ \A i \in 1 .. Len(y) : (x \o y)[Len(x) + i] = y[i]
  BY ConcatIs
<1>5. (x \o y)[1] = a /\ (x \o y)[2] = b
  BY <1>3, <1>4
<1> QED BY <1>2, <1>3, <1>4, <1>5

(* The parts of every object's key.                                        *)
LEMMA PartsOfObject ==
  ASSUME NEW o \in Objects
  PROVE  LET t == PartsOf(o) IN
         /\ t \in Seq(Part) /\ Len(t) \in Nat /\ Len(t) > 2
         /\ t[1] = "v1" /\ t[2] = o.kind
         /\ o.kind \in {"open", "open-result"} =>
              o.sub = "none" /\ Len(t) = 3 /\ t[3] = Json(o.session)
         /\ o.kind \notin {"open", "open-result"} =>
              /\ o.sub # "none" /\ t[3] = o.sub
              /\ o.kind \in DOMAIN MinParts
              /\ o.sub \in Subs[o.kind] /\ Len(t) > MinParts[o.kind]
         /\ o.session \in SessionID
<1> DEFINE t == PartsOf(o)
<1>0. o.session \in SessionID /\ Json(o.session) \in Part /\ o.session \in Part
  BY DEF Objects, Part, Names
<1>1. CASE o.kind \in {"open", "open-result"}
  <2>1. o.sub = "none"
    BY <1>1 DEF Objects
  <2>2. t = <<"v1", o.kind>> \o <<Json(o.session)>>
    BY <1>1 DEF PartsOf
  <2>3. o.kind \in Part /\ "v1" \in Part
    BY <1>1 DEF Part, Words
  <2>4. t \in Seq(Part) /\ Len(t) = 3 /\ t[1] = "v1" /\ t[2] = o.kind /\ t[3] = Json(o.session)
    <3> DEFINE y == <<Json(o.session)>>
    <3>1. y \in Seq(Part) /\ Len(y) = 1 /\ y[1] = Json(o.session)
      BY <1>0
    <3> HIDE DEF y
    <3>2. /\ t \in Seq(Part) /\ Len(t) = 2 + Len(y) /\ t[1] = "v1" /\ t[2] = o.kind
          /\ \A i \in 1 .. Len(y) : t[2 + i] = y[i]
      BY <2>2, <2>3, <3>1, TwoBefore DEF y
    <3> HIDE DEF t
    <3> QED BY <3>1, <3>2
  <2> HIDE DEF t
  <2> QED BY <1>0, <1>1, <2>1, <2>4 DEF t
<1>2. CASE o.kind = "data"
  <2>1. o.sub \in {"c2s", "s2c"} /\ o.seq \in DataSeqs
    BY <1>2 DEF Objects, Directions
  <2>2. t = <<"v1", "data">> \o <<o.sub, o.session, FormatSeq(o.seq)>>
    BY <1>2 DEF PartsOf
  <2>3. o.sub \in Part /\ "v1" \in Part /\ "data" \in Part /\ FormatSeq(o.seq) \in Part
    BY <2>1 DEF Part, Words, Names
  <2>4. t \in Seq(Part) /\ Len(t) = 5 /\ t[1] = "v1" /\ t[2] = "data" /\ t[3] = o.sub
    <3> DEFINE y == <<o.sub, o.session, FormatSeq(o.seq)>>
    <3>1. y \in Seq(Part) /\ Len(y) = 3 /\ y[1] = o.sub
      BY <1>0, <2>3
    <3> HIDE DEF y
    <3>2. /\ t \in Seq(Part) /\ Len(t) = 2 + Len(y) /\ t[1] = "v1" /\ t[2] = "data"
          /\ \A i \in 1 .. Len(y) : t[2 + i] = y[i]
      BY <2>2, <2>3, <3>1, TwoBefore DEF y
    <3> HIDE DEF t
    <3> QED BY <3>1, <3>2
  <2>5. o.kind \in DOMAIN MinParts /\ MinParts[o.kind] = 4 /\ Subs[o.kind] = Directions
    BY <1>2 DEF MinParts, Subs
  <2> HIDE DEF t
  <2> QED BY <1>0, <1>2, <2>1, <2>4, <2>5 DEF t, Directions
<1>3. CASE o.kind \in {"ack", "close", "heartbeat"}
  <2>1. /\ o.kind = "ack" => o.sub \in Directions
        /\ o.kind # "ack" => o.sub \in Sides
    BY <1>3 DEF Objects
  <2>2. t = <<"v1", o.kind>> \o <<o.sub, Json(o.session)>>
    BY <1>3 DEF PartsOf
  <2>3. o.sub \in Part /\ "v1" \in Part /\ o.kind \in Part /\ o.sub # "none"
    BY <1>3, <2>1 DEF Part, Words, Directions, Sides
  <2>4. t \in Seq(Part) /\ Len(t) = 4 /\ t[1] = "v1" /\ t[2] = o.kind /\ t[3] = o.sub
    <3> DEFINE y == <<o.sub, Json(o.session)>>
    <3>1. y \in Seq(Part) /\ Len(y) = 2 /\ y[1] = o.sub
      BY <1>0, <2>3
    <3> HIDE DEF y
    <3>2. /\ t \in Seq(Part) /\ Len(t) = 2 + Len(y) /\ t[1] = "v1" /\ t[2] = o.kind
          /\ \A i \in 1 .. Len(y) : t[2 + i] = y[i]
      BY <2>2, <2>3, <3>1, TwoBefore DEF y
    <3> HIDE DEF t
    <3> QED BY <3>1, <3>2
  <2>5. o.kind \in DOMAIN MinParts /\ MinParts[o.kind] = 3 /\ o.sub \in Subs[o.kind]
    <3>1. CASE o.kind = "ack"
      BY <2>1, <3>1 DEF MinParts, Subs
    <3>2. CASE o.kind = "close"
      BY <2>1, <3>2 DEF MinParts, Subs
    <3>3. CASE o.kind = "heartbeat"
      BY <2>1, <3>3 DEF MinParts, Subs
    <3> QED BY <1>3, <3>1, <3>2, <3>3
  <2> HIDE DEF t
  <2> QED BY <1>0, <1>3, <2>3, <2>4, <2>5 DEF t
<1>4. o.kind \in {"open", "open-result", "data", "ack", "close", "heartbeat"}
  BY DEF Objects
<1> QED BY <1>1, <1>2, <1>3, <1>4
-----------------------------------------------------------------------------
(* What the readers find *)

(* A key of segments that the URL leaves alone is stored under its name.   *)
LEMMA StoredAsIs ==
  ASSUME NEW T, NEW k \in Seq(T), k # << >>, NoName \notin T, \A x \in T : awsEscape(x) = x
  PROVE  StoredKey(k) = k
<1>1. \A i \in DOMAIN k : k[i] \in T
  OBVIOUS
<1>2. \A i \in DOMAIN k : awsEscape(k[i]) = k[i]
  BY <1>1
<1>3. k = [i \in DOMAIN k |-> k[i]]
  OBVIOUS
<1>4. escapePath(k) = k
  BY <1>2, <1>3, Zenon DEF escapePath
<1>5. 1 \in DOMAIN k /\ Len(k) \in DOMAIN k
  OBVIOUS
<1>6. k[1] # NoName /\ k[Len(k)] # NoName
  BY <1>1, <1>5
<1>7. TrimSlashes(k) = k
  BY <1>6, TrimNothing
<1> QED BY <1>4, <1>7 DEF StoredKey

(* Names under b/v1/open/ are the ones with open after b/v1.               *)
LEMMA OpenListed ==
  ASSUME NEW T, NEW b \in Seq(T), NEW t \in Seq(T), Len(t) > 2, t[1] = "v1",
         NEW d \in Seq(T)
  PROVE  Len(d) = 2 /\ d[1] = "v1" /\ d[2] = "open" =>
           (IsStrictPrefix(b \o d, b \o t) <=> t[2] = "open")
<1>1. PICK u \in Seq(T) : u = b \o d
  BY ConcatIs
<1>2. PICK k \in Seq(T) : k = b \o t
  BY ConcatIs
<1>0. /\ Len(u) = Len(b) + Len(d) /\ Len(b) \in Nat /\ Len(t) \in Nat
      /\ \A i \in 1 .. Len(b) : u[i] = b[i]
      /\ \A i \in 1 .. Len(d) : u[Len(b) + i] = d[i]
  BY <1>1, ConcatIs
<1> HAVE Len(d) = 2 /\ d[1] = "v1" /\ d[2] = "open"
<1>3. /\ Len(b) \in Nat /\ Len(u) = Len(b) + 2 /\ Len(t) \in Nat
      /\ \A i \in 1 .. Len(b) : u[i] = b[i]
      /\ u[Len(b) + 1] = d[1] /\ u[Len(b) + 2] = d[2]
  BY <1>0
<1>4. /\ Len(k) = Len(b) + Len(t)
      /\ \A i \in 1 .. Len(b) : k[i] = b[i]
      /\ \A i \in 1 .. Len(t) : k[Len(b) + i] = t[i]
  BY <1>2, ConcatIs
<1>5. u # k /\ Len(u) <= Len(k)
  BY <1>3, <1>4
<1>6. SubSeq(u, 1, Len(u)) = u
  OBVIOUS
<1>7. PICK w \in Seq(T) : w = SubSeq(k, 1, Len(u))
  <2>1. PICK l \in 0 .. Len(k) : l = Len(u)
    BY <1>3, <1>4
  <2>2. SubSeq(k, 1, l) \in Seq(T)
    OBVIOUS
  <2> QED BY <2>1, <2>2
<1>8. Len(w) = Len(u) /\ \A i \in 1 .. Len(u) : w[i] = k[i]
  BY <1>3, <1>5, <1>7
<1>9. k[Len(b) + 1] = "v1" /\ k[Len(b) + 2] = t[2]
  BY <1>3, <1>4
<1>10. u[Len(b) + 1] = "v1" /\ u[Len(b) + 2] = "open"
  BY <1>3
<1>11. ASSUME t[2] = "open" PROVE w = u
  <2>1. ASSUME NEW i \in 1 .. Len(u) PROVE w[i] = u[i]
    <3>1. i \in 1 .. Len(b) \/ i = Len(b) + 1 \/ i = Len(b) + 2
      BY <1>3
    <3> QED BY <1>3, <1>4, <1>8, <1>9, <1>10, <1>11, <3>1
  <2> QED BY <1>8, <2>1, SeqEqual
<1>12. ASSUME w = u PROVE t[2] = "open"
  <2>1. Len(b) + 2 \in 1 .. Len(u)
    BY <1>3
  <2> QED BY <1>8, <1>9, <1>10, <1>12, <2>1
<1>13. IsStrictPrefix(u, k) <=> w = u
  BY <1>5, <1>6, <1>7 DEF IsStrictPrefix, IsPrefix
<1> QED BY <1>1, <1>2, <1>11, <1>12, <1>13

(* Behind a prefix without v1, the metrics see what follows the v1 of the  *)
(* key.                                                                    *)
LEMMA SeenAfterV1 ==
  ASSUME NEW U, NEW b \in Seq(U), "v1" \notin U, NoName \notin U,
         NEW t \in Seq(Part), Len(t) > 2, t[1] = "v1"
  PROVE  \E rest \in Seq(U \cup Part) :
           /\ rest = AfterV1(Clean(TrimSlashes(b \o t)))
           /\ Len(rest) = Len(t) - 1 /\ rest[1] = t[2] /\ rest[2] = t[3]
<1> DEFINE T == U \cup Part
<1>1. b \in Seq(T) /\ t \in Seq(T)
  OBVIOUS
<1>2. \A x \in Part : x \notin {NoName, ".", ".."}
  BY PartsAreOrdinary
<1>3. NoName \notin T /\ U \subseteq T
  BY <1>2
<1>4. \A i \in 1 .. Len(t) : t[i] \in Part /\ t[i] \notin {NoName, ".", ".."}
  BY <1>2
<1> HIDE DEF T
<1>5. TrimSlashes(b \o t) = b \o t
  <2>1. PICK k \in Seq(T) : k = b \o t
    BY <1>1, ConcatIs
  <2>2. Len(k) = Len(b) + Len(t) /\ Len(b) \in Nat /\ Len(t) \in Nat
    BY <1>1, <2>1, ConcatIs
  <2>3. Len(k) \in 1 .. Len(k) /\ 1 \in 1 .. Len(k) /\ k # << >>
    BY <2>2
  <2>4. \A i \in 1 .. Len(k) : k[i] \in T
    OBVIOUS
  <2>5. k[1] # NoName /\ k[Len(k)] # NoName
    BY <1>3, <2>3, <2>4
  <2>6. TrimSlashes(k) = k
    BY <2>3, <2>5, TrimNothing
  <2> QED BY <2>1, <2>6
<1>6. Clean(b \o t) = Clean(b) \o t
  BY <1>1, <1>4, CleanOrdinary
<1>7. PICK c \in Seq(U) : c = Clean(b)
  BY CleanType
<1>8. PICK k \in Seq(T) : k = c \o t
  <2>1. c \in Seq(T)
    BY <1>3
  <2> QED BY <1>1, <2>1, ConcatIs
<1>9. /\ Len(c) \in Nat /\ Len(t) \in Nat /\ Len(k) = Len(c) + Len(t)
      /\ \A i \in 1 .. Len(c) : k[i] = c[i] /\ c[i] \in U
      /\ \A i \in 1 .. Len(t) : k[Len(c) + i] = t[i]
  BY <1>1, <1>3, <1>8, ConcatIs
<1> DEFINE v1 == {i \in DOMAIN k : k[i] = "v1"}
<1>10. /\ v1 \in SUBSET (1 .. Len(k)) /\ Len(c) + 1 \in v1 /\ Len(k) \in Nat
       /\ \A i \in v1 : Len(c) + 1 <= i
  <2>1. k[Len(c) + 1] = "v1"
    BY <1>9
  <2>2. DOMAIN k = 1 .. Len(k) /\ Len(c) + 1 \in 1 .. Len(k)
    BY <1>9
  <2>3. \A i \in 1 .. Len(c) : k[i] # "v1"
    BY <1>9
  <2> QED BY <1>9, <2>1, <2>2, <2>3
<1>11. AfterV1(k) = SubSeq(k, Min(v1) + 1, Len(k))
  BY <1>10 DEF AfterV1
<1> HIDE DEF v1
<1>12. Min(v1) = Len(c) + 1
  <2>1. Min(v1) \in v1 /\ \A i \in v1 : Min(v1) <= i
    BY <1>10, FirstAndLast
  <2>2. PICK m \in 1 .. Len(k) : m = Min(v1)
    BY <1>10, <2>1
  <2>3. m <= Len(c) + 1 /\ Len(c) + 1 <= m
    BY <1>10, <2>1, <2>2
  <2> QED BY <1>9, <2>2, <2>3
<1>13. PICK a \in Nat : a = Len(c) + 2
  BY <1>9
<1>14. /\ SubSeq(k, a, Len(k)) \in Seq(T)
       /\ Len(SubSeq(k, a, Len(k))) = Len(t) - 1
       /\ SubSeq(k, a, Len(k))[1] = k[a] /\ SubSeq(k, a, Len(k))[2] = k[a + 1]
  BY <1>9, <1>13
<1>15. k[a] = t[2] /\ k[a + 1] = t[3]
  BY <1>9, <1>13
<1>16. (Len(c) + 1) + 1 = a
  BY <1>9, <1>13
<1> QED BY <1>5, <1>6, <1>7, <1>8, <1>11, <1>12, <1>14, <1>15, <1>16 DEF T

(* The metrics' class of a key with the parts t.                           *)
LEMMA ClassIs ==
  ASSUME NEW U, NEW b \in Seq(U), "v1" \notin U, NoName \notin U,
         NEW t \in Seq(Part), Len(t) > 2, t[1] = "v1"
  PROVE  /\ t[2] \in {"open", "open-result"} /\ Len(t) = 3 => ClassifyKey(b \o t) = <<t[2]>>
         /\ t[2] \in DOMAIN MinParts /\ Len(t) > MinParts[t[2]] /\ t[3] \in Subs[t[2]]
              => ClassifyKey(b \o t) = <<t[2], t[3]>>
<1>1. PICK rest \in Seq(U \cup Part) :
         /\ rest = AfterV1(Clean(TrimSlashes(b \o t)))
         /\ Len(rest) = Len(t) - 1 /\ rest[1] = t[2] /\ rest[2] = t[3]
  BY SeenAfterV1
<1>2. rest # << >> /\ Len(t) \in Nat
  BY <1>1
<1>3. ClassifyKey(b \o t) =
        CASE rest = << >> -> <<"unknown">>
          [] rest # << >> /\ rest[1] \in {"open", "open-result"} /\ Len(rest) = 2 -> <<rest[1]>>
          [] rest # << >> /\ rest[1] \in DOMAIN MinParts /\ Len(rest) >= MinParts[rest[1]]
               /\ rest[2] \in Subs[rest[1]] -> <<rest[1], rest[2]>>
          [] OTHER -> <<"unknown">>
  BY <1>1 DEF ClassifyKey
<1>4. DOMAIN MinParts = {"data", "ack", "close", "heartbeat"}
  BY DEF MinParts
<1>5. ASSUME t[2] \in {"open", "open-result"}, Len(t) = 3
      PROVE  ClassifyKey(b \o t) = <<t[2]>>
  <2>1. Len(rest) = 2 /\ rest[1] \in {"open", "open-result"} /\ rest[1] \notin DOMAIN MinParts
    BY <1>1, <1>4, <1>5
  <2> QED BY <1>1, <1>2, <1>3, <2>1
<1>6. ASSUME t[2] \in DOMAIN MinParts, Len(t) > MinParts[t[2]], t[3] \in Subs[t[2]]
      PROVE  ClassifyKey(b \o t) = <<t[2], t[3]>>
  <2>1. rest[1] \notin {"open", "open-result"}
    BY <1>1, <1>4, <1>6
  <2>2. MinParts[t[2]] \in Nat
    BY <1>4, <1>6 DEF MinParts
  <2>3. Len(rest) >= MinParts[rest[1]]
    BY <1>1, <1>2, <1>6, <2>2
  <2> QED BY <1>1, <1>2, <1>3, <1>6, <2>1, <2>3
<1> QED BY <1>5, <1>6

(* The LIST of the server, for a prefix that the URL leaves alone.         *)
LEMMA ListFindsOpens ==
  ASSUME NEW prefix \in Seq(PrefixSegments), NEW o \in Objects, Plain(prefix)
  PROVE  LET k == StoredKey(KeyOf(prefix, o)) IN
         /\ Under(OpenPrefix(prefix), k) <=> o.kind = "open"
         /\ o.kind = "open" => SessionOf(k) = o.session
         /\ Clean(prefix) = prefix => Under(CleanupPrefix(prefix), k)
<1> DEFINE S == {x \in PrefixSegments : awsEscape(x) = x} \cup Part
           T == S \ {NoName, "."}
<1>1. prefix \in Seq(S) /\ "s3s5" \in S /\ Part \subseteq S
  <2>1. "s3s5" \in Part
    BY DEF Part, Words
  <2>2. \A i \in 1 .. Len(prefix) : prefix[i] \in S
    BY DEF Plain
  <2> QED BY <2>1, <2>2
<1>2. \A x \in Part : x \notin {NoName, ".", ".."} /\ awsEscape(x) = x
  BY PartsAreOrdinary
<1>3. Part \subseteq T /\ T \subseteq S /\ NoName \notin T /\ \A x \in T : awsEscape(x) = x
  BY <1>2
<1> HIDE DEF S, T
<1>4. PICK b \in Seq(T) : b = Base(prefix)
  BY <1>1, BaseType DEF T
<1>5. PICK t \in Seq(T) : t = PartsOf(o) /\ t \in Seq(Part)
  <2>1. PartsOf(o) \in Seq(Part)
    BY PartsOfObject
  <2> QED BY <1>3, <2>1
<1>6. /\ Len(t) > 2 /\ t[1] = "v1" /\ t[2] = o.kind /\ o.session \in SessionID
      /\ o.kind = "open" => Len(t) = 3 /\ t[3] = Json(o.session)
  BY <1>5, PartsOfObject
<1>7. \A parts \in Seq(Part) : key(prefix, parts) = b \o parts
  <2> TAKE parts \in Seq(Part)
  <2>1. parts \in Seq(S) /\ \A i \in 1 .. Len(parts) : parts[i] \notin {NoName, ".", ".."}
    BY <1>1, <1>2
  <2> QED BY <1>1, <1>4, <2>1, KeyIs
<1>8. PICK k \in Seq(T) : k = b \o t
  BY ConcatIs
<1>9. /\ Len(b) \in Nat /\ Len(t) \in Nat /\ Len(k) = Len(b) + Len(t)
      /\ \A i \in 1 .. Len(b) : k[i] = b[i]
      /\ \A i \in 1 .. Len(t) : k[Len(b) + i] = t[i]
  BY <1>8, ConcatIs
<1>10. StoredKey(KeyOf(prefix, o)) = k
  <2>1. KeyOf(prefix, o) = k
    BY <1>5, <1>7, <1>8 DEF KeyOf
  <2>2. k # << >>
    BY <1>6, <1>9
  <2>3. StoredKey(k) = k
    BY <1>3, <2>2, StoredAsIs
  <2> QED BY <2>1, <2>3
<1>11. Under(OpenPrefix(prefix), k) <=> o.kind = "open"
  <2> DEFINE d == <<"v1", "open">>
  <2>1. "v1" \in Part /\ "open" \in Part
    BY DEF Part, Words
  <2>2. d \in Seq(Part) /\ d \in Seq(T) /\ Len(d) = 2 /\ d[1] = "v1" /\ d[2] = "open"
    BY <1>3, <2>1
  <2>3. OpenPrefix(prefix).dirs = key(prefix, d) /\ OpenPrefix(prefix).part = NoName
    BY DEF OpenPrefix
  <2> HIDE DEF d
  <2>4. OpenPrefix(prefix).dirs = b \o d
    BY <1>7, <2>2, <2>3
  <2>5. IsStrictPrefix(b \o d, b \o t) <=> t[2] = "open"
    BY <1>6, <2>2, OpenListed
  <2> QED BY <1>6, <1>8, <2>3, <2>4, <2>5 DEF Under, StartsWith
<1>12. ASSUME o.kind = "open" PROVE SessionOf(k) = o.session
  <2>1. Last(k) = Json(o.session)
    <3>1. Len(t) = 3 /\ t[3] = Json(o.session)
      BY <1>6, <1>12
    <3>2. 3 \in 1 .. Len(t) /\ Len(k) = Len(b) + 3
      BY <1>9, <3>1
    <3>3. k[Len(b) + 3] = t[3]
      BY <1>9, <3>2
    <3> QED BY <3>1, <3>2, <3>3 DEF Last
  <2>2. \A s \in SessionID : Json(s) = Json(o.session) => s = o.session
    BY <1>6, NameAssumption
  <2> QED BY <1>6, <2>1, <2>2 DEF SessionOf
<1>13. ASSUME Clean(prefix) = prefix PROVE Under(CleanupPrefix(prefix), k)
  <2>1. NormalizePrefix(prefix) = b
    <3>1. CASE prefix = << >>
      <4>1. TrimSlashes(prefix) = << >>
        BY <3>1 DEF TrimSlashes
      <4>2. NormalizePrefix(prefix) = <<"s3s5">>
        BY <4>1 DEF NormalizePrefix
      <4>3. <<"s3s5">> \in Seq(S) /\ << >> \in Seq(S)
        BY <1>1
      <4>4. "s3s5" \notin {NoName, ".", ".."}
        BY <1>2 DEF Part, Words
      <4>5. Clean(<< >> \o <<"s3s5">>) = Clean(<< >>) \o <<"s3s5">>
        <5>1. PICK y \in Seq(S), e \in Seq(S) : y = <<"s3s5">> /\ e = << >>
          BY <4>3
        <5>2. \A i \in 1 .. Len(y) : y[i] \notin {NoName, ".", ".."}
          BY <4>4, <5>1
        <5>3. Clean(e \o y) = Clean(e) \o y
          BY <5>2, CleanOrdinary
        <5> QED BY <5>1, <5>3
      <4>6. << >> \o <<"s3s5">> = <<"s3s5">>
        BY <4>3, ConcatEmptySeq
      <4> QED BY <1>4, <1>13, <3>1, <4>2, <4>5, <4>6 DEF Base
    <3>2. CASE prefix # << >>
      <4>1. \A i \in 1 .. Len(prefix) : prefix[i] \in {NoName, "."} \/ prefix[i] \in T
        BY <1>1 DEF T
      <4>2. Clean(prefix) \in Seq(T)
        BY <4>1, CleanType
      <4>3. prefix \in Seq(T) /\ 1 \in 1 .. Len(prefix) /\ Len(prefix) \in 1 .. Len(prefix)
        BY <1>13, <3>2, <4>2
      <4>4. prefix[1] # NoName /\ prefix[Len(prefix)] # NoName
        BY <1>3, <4>3
      <4>5. TrimSlashes(prefix) = prefix
        BY <3>2, <4>4, TrimNothing
      <4>6. NormalizePrefix(prefix) = prefix
        BY <3>2, <4>5 DEF NormalizePrefix
      <4> QED BY <1>4, <1>13, <4>6 DEF Base
    <3> QED BY <3>1, <3>2
  <2>2. IsStrictPrefix(b, k)
    <3>1. Len(b) <= Len(k) /\ b # k
      BY <1>6, <1>9
    <3>2. SubSeq(b, 1, Len(b)) = b
      OBVIOUS
    <3>3. SubSeq(k, 1, Len(b)) = b
      <4>1. PICK w \in Seq(T) : w = SubSeq(k, 1, Len(b))
        <5>1. PICK l \in 0 .. Len(k) : l = Len(b)
          BY <1>6, <1>9
        <5>2. SubSeq(k, 1, l) \in Seq(T)
          OBVIOUS
        <5> QED BY <5>1, <5>2
      <4>2. Len(w) = Len(b) /\ \A i \in 1 .. Len(b) : w[i] = b[i]
        BY <1>9, <3>1, <4>1
      <4> QED BY <4>1, <4>2, SeqEqual
    <3> QED BY <3>1, <3>2, <3>3 DEF IsStrictPrefix, IsPrefix
  <2>3. CleanupPrefix(prefix).dirs = b /\ CleanupPrefix(prefix).part = NoName
    BY <2>1 DEF CleanupPrefix
  <2> QED BY <2>2, <2>3 DEF Under, StartsWith
<1> QED BY <1>10, <1>11, <1>12, <1>13

(* The metrics' reading, for a prefix without a segment v1.                *)
LEMMA ClassesReadBack ==
  ASSUME NEW prefix \in Seq(PrefixSegments), NEW o \in Objects,
         \A i \in DOMAIN prefix : prefix[i] # "v1"
  PROVE  /\ ClassifyKey(KeyOf(prefix, o)) = IF o.sub = "none" THEN <<o.kind>> ELSE <<o.kind, o.sub>>
         /\ ClassifyListPrefix(OpenPrefix(prefix)) = "list-open"
<1> DEFINE S == {x \in PrefixSegments : x # "v1"} \cup {"s3s5"}
           U == S \ {NoName, "."}
<1>1. prefix \in Seq(S) /\ "s3s5" \in S
  <2>1. \A i \in 1 .. Len(prefix) : prefix[i] \in S
    OBVIOUS
  <2> QED BY <2>1
<1>2. "v1" \notin U /\ NoName \notin U
  OBVIOUS
<1> HIDE DEF S, U
<1>3. PICK b \in Seq(U) : b = Base(prefix)
  BY <1>1, BaseType DEF U
<1>4. \A parts \in Seq(Part) : key(prefix, parts) = b \o parts
  <2> TAKE parts \in Seq(Part)
  <2>1. \A i \in 1 .. Len(parts) : parts[i] \in Part
    OBVIOUS
  <2>2. \A i \in 1 .. Len(parts) : parts[i] \notin {NoName, ".", ".."}
    BY <2>1, PartsAreOrdinary
  <2>3. prefix \in Seq(S \cup Part) /\ parts \in Seq(S \cup Part) /\ "s3s5" \in S \cup Part
    BY <1>1
  <2> QED BY <1>3, <2>2, <2>3, KeyIs
<1>5. ClassifyKey(KeyOf(prefix, o)) = IF o.sub = "none" THEN <<o.kind>> ELSE <<o.kind, o.sub>>
  <2>1. PICK t \in Seq(Part) : t = PartsOf(o)
    BY PartsOfObject
  <2>2. /\ Len(t) > 2 /\ t[1] = "v1" /\ t[2] = o.kind
        /\ o.kind \in {"open", "open-result"} => o.sub = "none" /\ Len(t) = 3
        /\ o.kind \notin {"open", "open-result"} =>
             /\ o.sub # "none" /\ t[3] = o.sub /\ o.kind \in DOMAIN MinParts
             /\ o.sub \in Subs[o.kind] /\ Len(t) > MinParts[o.kind]
    BY <2>1, PartsOfObject
  <2>3. KeyOf(prefix, o) = b \o t
    BY <1>4, <2>1 DEF KeyOf
  <2>4. CASE o.kind \in {"open", "open-result"}
    <3>1. ClassifyKey(b \o t) = <<t[2]>>
      BY <1>2, <2>2, <2>4, ClassIs
    <3> QED BY <2>2, <2>3, <2>4, <3>1
  <2>5. CASE o.kind \notin {"open", "open-result"}
    <3>1. ClassifyKey(b \o t) = <<t[2], t[3]>>
      BY <1>2, <2>2, <2>5, ClassIs
    <3> QED BY <2>2, <2>3, <2>5, <3>1
  <2> QED BY <2>4, <2>5
<1>6. ClassifyListPrefix(OpenPrefix(prefix)) = "list-open"
  <2> DEFINE d == <<"v1", "open">>
             p == "placeholder.json"
             t == Append(d, p)
  <2>1. "v1" \in Part /\ "open" \in Part /\ p \in Part
    BY DEF Part, Words
  <2>2. d \in Seq(Part) /\ t \in Seq(Part) /\ Len(t) = 3 /\ t[1] = "v1" /\ t[2] = "open"
    BY <2>1
  <2>3. OpenPrefix(prefix).dirs = key(prefix, d) /\ OpenPrefix(prefix).part = NoName
    BY DEF OpenPrefix
  <2> HIDE DEF d
  <2>4. OpenPrefix(prefix).dirs = b \o d
    BY <1>4, <2>2, <2>3
  <2>5. Append(b \o d, p) = b \o t
    <3> DEFINE V == U \cup Part
    <3>1. b \in Seq(V) /\ d \in Seq(V) /\ p \in V
      BY <2>1, <2>2
    <3> HIDE DEF p, V
    <3> QED BY <3>1, AppendToConcat
  <2> HIDE DEF t, p
  <2>6. ClassifyKey(b \o t) = <<"open">>
    <3>1. PICK tt \in Seq(Part) : tt = t
      BY <2>2
    <3>2. Len(tt) = 3 /\ tt[1] = "v1" /\ tt[2] = "open"
      BY <2>2, <3>1
    <3>3. ClassifyKey(b \o tt) = <<tt[2]>>
      BY <1>2, <3>2, ClassIs
    <3> QED BY <3>1, <3>2, <3>3
  <2> QED BY <2>3, <2>4, <2>5, <2>6 DEF ClassifyListPrefix, p
<1> QED BY <1>5, <1>6

(* Every reader of a key finds what its writer meant (KeysReadBack), for   *)
(* prefixes of every length and all sessions and sequence numbers: the     *)
(* LIST of the server, the session read off a key, --cleanup-prefix and    *)
(* the metrics' ClassifyKey.                                               *)
THEOREM ReadersAgree == KeysSpec => []KeysReadBack
<1>1. KeysInit => KeysReadBack
  <2> SUFFICES ASSUME KeysInit PROVE KeysReadBack
    OBVIOUS
  <2>1. Prefix \in Seq(PrefixSegments) /\ Object \in Objects
    BY DEF KeysInit, Prefix, Object, BoundedSeq, SeqOf
  <2> HIDE DEF Prefix, Object
  <2> QED BY <2>1, ListFindsOpens, ClassesReadBack DEF KeysReadBack
<1>2. KeysReadBack /\ UNCHANGED lookup => KeysReadBack'
  BY DEF KeysReadBack, Prefix, Object
<1> QED BY <1>1, <1>2, PTL DEF KeysSpec
=============================================================================
