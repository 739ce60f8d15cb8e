-------------------------- MODULE ComponentProofs ---------------------------
(***************************************************************************)
(* Proofs about three components around the tunnel, which do not interact: *)
(* the egress policy (Policy), the aggregation of chunks (Aggregator), and *)
(* DeletePrefix and the doctor against a faulty store (Cleanup).           *)
(***************************************************************************)
EXTENDS Policy, Aggregator, Cleanup, FiniteSetTheorems, SequenceTheorems, TLAPS

(* Egress policy *)

(* A rule that New accepts has no port or a positive one.                  *)
LEMMA PortIsValid ==
    \A p \in ValidPorts : p = NoPort \/ p = EmptyPort \/ p > 0
BY DEF ValidPorts, NoPort, EmptyPort

(* A rule that New accepts matches exactly what it was written to cover.   *)
LEMMA ParsedMatches ==
    ASSUME NEW raw \in RawRules, ~Malformed(raw), NEW t \in Targets, t.port # 0, NEW ip
    PROVE  matches(parseRule(raw), t, {ip}) <=> Covers(raw, t, ip)
<1>1. /\ raw.form \in {"*", "net", "suffix", "name"} /\ raw.port \in Int
      /\ raw.net \in SUBSET IP /\ t.port \in Nat
    BY PolicyAssumption
<1> DEFINE r == parseRule(raw)
<1>2. /\ r.any <=> raw.form = "*"
      /\ r.host = IF raw.form = "name" THEN raw.name ELSE << >>
      /\ r.suffix = IF raw.form = "suffix" THEN raw.name ELSE << >>
      /\ r.cidr = IF raw.form = "net" THEN raw.net ELSE {}
      /\ r.hasPort <=> raw.port > 0
      /\ raw.port > 0 => r.port = raw.port
    BY <1>1 DEF parseRule
<1>3. (r.hasPort => r.port = t.port) <=> raw.port \in {NoPort, EmptyPort, t.port}
    <2>1. raw.port = NoPort \/ raw.port = EmptyPort \/ raw.port > 0
        BY PortIsValid, Zenon DEF Malformed
    <2>2. ~(NoPort > 0) /\ ~(EmptyPort > 0)
        BY DEF NoPort, EmptyPort
    <2>3. t.port > 0
        BY <1>1
    <2> QED
        BY <1>1, <1>2, <2>1, <2>2, <2>3
<1>4. matches(r, t, {ip}) <=>
        /\ r.hasPort => r.port = t.port
        /\ \/ r.any
           \/ r.host # << >> /\ t.name = r.host
           \/ r.suffix # << >> /\ IsSuffix(r.suffix, t.name)
           \/ ip \in r.cidr
    BY DEF matches
<1> HIDE DEF r
<1>5. matches(r, t, {ip}) <=> Covers(raw, t, ip)
    BY <1>1, <1>2, <1>3, <1>4 DEF Covers
<1> QED
    BY <1>5 DEF r

(* New has built the engine from rules that are all well formed, and from  *)
(* an allowlist where one is required.                                     *)
Built ==
    /\ eng.allow = {parseRule(raw) : raw \in cfg.allow}
    /\ eng.deny = {parseRule(raw) : raw \in cfg.deny}
    /\ \A raw \in cfg.allow \cup cfg.deny : ~Malformed(raw)
    /\ cfg.require /\ cfg.allow = {} => cfg.unrestricted

(* resolveTarget has had an answer.                                        *)
Resolved ==
    /\ dial.target.port # 0
    /\ dial.ips # {}
    /\ dial.target.literal # {} => dial.ips = dial.target.literal

PolicyTypeOK ==
    /\ cfg.allow \subseteq RawRules /\ cfg.deny \subseteq RawRules
    /\ dial \in [pc : {"new", "resolve", "decide", "dial", "connected", "refused"},
                 target : Targets, ips : SUBSET IP, tried : SUBSET IP]

(* Each stage of the dial keeps what the earlier ones have established,    *)
(* and so does a dial that is over, when it has tried an address: the      *)
(* decision stands for the very addresses that are tried.                  *)
PolicyInv ==
    /\ PolicyTypeOK
    /\ dial.tried \subseteq dial.ips
    /\ dial.pc \in {"new", "resolve", "decide"} => dial.tried = {}
    /\ dial.pc \in {"resolve", "decide", "dial"} \/ dial.tried # {} => Built
    /\ dial.pc \in {"decide", "dial"} \/ dial.tried # {} => Resolved
    /\ dial.pc = "dial" \/ dial.tried # {} => Allowed(eng, dial.target, dial.ips)

(* Nothing has been tried at first.                                        *)
LEMMA PolicyInitial == PolicyInit => PolicyInv
BY DEF PolicyInit, PolicyInv, PolicyTypeOK, AtMostOne

(* Every step of the dial preserves the invariant.                         *)
LEMMA PolicyInductive == PolicyInv /\ [PolicyNext]_policyVars => PolicyInv'
<1> SUFFICES ASSUME PolicyInv, [PolicyNext]_policyVars PROVE PolicyInv'
    OBVIOUS
<1> USE DEF PolicyInv
<1>1. CASE New
    <2>1. /\ cfg' = cfg /\ dial.pc = "new"
          /\ dial' = [dial EXCEPT !.pc = dial'.pc]
          /\ dial'.pc \in {"refused", "resolve"}
        BY <1>1 DEF New, PolicyTypeOK
    <2>2. PolicyTypeOK' /\ dial'.tried = {} /\ dial'.tried \subseteq dial'.ips
        BY <2>1 DEF PolicyTypeOK
    <2>3. dial'.pc = "resolve" => Built'
        BY <1>1, <2>1 DEF New, Built, PolicyTypeOK
    <2> QED
        BY <2>1, <2>2, <2>3
<1>2. CASE Resolve
    <2>0. PICK answer \in (SUBSET IP) \ {{}} :
            /\ dial.target.literal # {} => answer = dial.target.literal
            /\ dial' = [dial EXCEPT !.pc = "decide", !.ips = answer]
        BY <1>2 DEF Resolve
    <2>1. /\ cfg' = cfg /\ eng' = eng /\ dial.pc = "resolve" /\ dial.target.port # 0
        BY <1>2 DEF Resolve
    <2>2. /\ dial'.pc = "decide" /\ dial'.ips = answer
          /\ dial'.target = dial.target /\ dial'.tried = {}
          /\ PolicyTypeOK'
        BY <2>0, <2>1 DEF PolicyTypeOK
    <2>3. Built'
        BY <2>1 DEF Built
    <2>4. Resolved'
        <3>1. answer # {} /\ (dial.target.literal # {} => answer = dial.target.literal)
            BY <2>0
        <3> QED
            BY <2>1, <2>2, <3>1, Zenon DEF Resolved
    <2> QED
        BY <2>2, <2>3, <2>4
<1>3. CASE ResolveFails
    <2>1. /\ cfg' = cfg /\ eng' = eng /\ dial.pc = "resolve"
          /\ dial'.pc = "refused" /\ dial'.tried = {} /\ PolicyTypeOK'
        BY <1>3 DEF ResolveFails, PolicyTypeOK
    <2> QED
        BY <2>1
<1>4. CASE Decide
    <2>1. /\ cfg' = cfg /\ eng' = eng /\ dial.pc = "decide"
          /\ dial'.pc = IF Allowed(eng, dial.target, dial.ips) THEN "dial" ELSE "refused"
          /\ dial'.target = dial.target /\ dial'.ips = dial.ips /\ dial'.tried = {}
          /\ PolicyTypeOK'
        BY <1>4 DEF Decide, PolicyTypeOK
    <2>2. Built' /\ Resolved'
        BY <2>1 DEF Built, Resolved
    <2>3. dial'.pc = "dial" => Allowed(eng, dial.target, dial.ips)'
        BY <2>1 DEF Allowed
    <2> QED
        BY <2>1, <2>2, <2>3
<1>5. ASSUME NEW ip \in IP, DialTarget(ip) PROVE PolicyInv'
    <2> PICK pc \in {"connected", "refused", "dial"} :
            dial' = [dial EXCEPT !.tried = @ \cup {ip}, !.pc = pc]
        BY <1>5 DEF DialTarget
    <2>1. /\ cfg' = cfg /\ eng' = eng /\ dial.pc = "dial" /\ ip \in dial.ips
          /\ dial'.pc = pc
          /\ dial'.target = dial.target /\ dial'.ips = dial.ips
          /\ dial'.tried = dial.tried \cup {ip}
          /\ PolicyTypeOK'
        BY <1>5 DEF DialTarget, PolicyTypeOK
    <2>2. Built' /\ Resolved'
        BY <2>1 DEF Built, Resolved
    <2>3. Allowed(eng, dial.target, dial.ips)'
        BY <2>1 DEF Allowed
    <2> QED
        BY <2>1, <2>2, <2>3
<1>6. CASE UNCHANGED policyVars
    BY <1>6 DEF policyVars, PolicyTypeOK, Built, Resolved, Allowed
<1> QED
    BY <1>1, <1>2, <1>3, <1>4, <1>5, <1>6 DEF PolicyNext

(* A rule that matches the target by itself matches it with any address of *)
(* the answer too.                                                         *)
LEMMA MatchesWithAddress ==
    ASSUME NEW r, NEW t, NEW ips, ips # {}, t.literal # {} => ips = t.literal,
           matches(r, t, t.literal)
    PROVE  \E ip \in ips : matches(r, t, {ip})
BY DEF matches

(* What the engine decides on its parsed rules is what the written rules   *)
(* say.                                                                    *)
LEMMA DecisionIsPermission == PolicyInv => DialledIsPermitted
<1> SUFFICES ASSUME PolicyInv, NEW ip \in dial.tried
             PROVE  /\ ~ \E raw \in cfg.deny, a \in dial.ips \cup {ip} :
                            Covers(raw, dial.target, a)
                    /\ ip \in Unsafe => cfg.allowPrivate
                    /\ \/ cfg.unrestricted
                       \/ cfg.allow = {} /\ ~cfg.require
                       \/ \E raw \in cfg.allow, a \in dial.ips :
                              Covers(raw, dial.target, a)
    BY DEF DialledIsPermitted
<1>1. /\ Built /\ Resolved /\ Allowed(eng, dial.target, dial.ips)
      /\ ip \in dial.ips /\ dial.target \in Targets
      /\ cfg.allow \subseteq RawRules /\ cfg.deny \subseteq RawRules
    BY DEF PolicyInv, PolicyTypeOK
<1> DEFINE t == dial.target
<1>2. \A raw \in cfg.allow \cup cfg.deny : \A a :
          matches(parseRule(raw), t, {a}) <=> Covers(raw, t, a)
    <2> SUFFICES ASSUME NEW raw \in cfg.allow \cup cfg.deny, NEW a
                 PROVE  matches(parseRule(raw), t, {a}) <=> Covers(raw, t, a)
        OBVIOUS
    <2>1. raw \in RawRules /\ ~Malformed(raw) /\ t \in Targets /\ t.port # 0
        BY <1>1 DEF Built, Resolved
    <2> HIDE DEF t
    <2> QED
        BY <2>1, ParsedMatches, Zenon
<1>3. ~ \E raw \in cfg.deny, a \in dial.ips \cup {ip} : Covers(raw, t, a)
    <2> SUFFICES ASSUME NEW raw \in cfg.deny, NEW a \in dial.ips, Covers(raw, t, a)
                 PROVE  FALSE
        BY <1>1
    <2>1. parseRule(raw) \in eng.deny /\ matches(parseRule(raw), t, {a})
        BY <1>1, <1>2 DEF Built
    <2> QED
        BY <1>1, <2>1, Zenon DEF Allowed, matchesAny
<1>4. ip \in Unsafe => cfg.allowPrivate
    BY <1>1 DEF Allowed
<1>5. CASE ~cfg.unrestricted /\ cfg.allow # {}
    <2>1. eng.allow # {} /\ matchesAny(eng.allow, t, dial.ips)
        BY <1>1, <1>5 DEF Allowed, Built
    <2>2. PICK r \in eng.allow : \E a \in dial.ips : matches(r, t, {a})
        <3>1. dial.ips # {} /\ (t.literal # {} => dial.ips = t.literal)
            BY <1>1 DEF Resolved
        <3> HIDE DEF t
        <3> QED
            BY <2>1, <3>1, MatchesWithAddress, Zenon DEF matchesAny
    <2>3. PICK raw \in cfg.allow : r = parseRule(raw)
        BY <1>1 DEF Built
    <2> QED
        BY <1>2, <1>3, <1>4, <2>2, <2>3
<1> QED
    BY <1>1, <1>3, <1>4, <1>5, Zenon DEF Built

(* Every address that the server connects to, or tries to, is permitted by *)
(* the rules as they were written, for every set of rules, every target    *)
(* and every answer of the resolver.                                       *)
THEOREM DialsArePermitted == PolicySpec => []DialledIsPermitted
<1>1. PolicySpec => []PolicyInv
    BY PolicyInitial, PolicyInductive, PTL DEF PolicySpec
<1> QED
    BY <1>1, DecisionIsPermission, PTL
-----------------------------------------------------------------------------
(* Aggregation *)

(* Consecutive intervals join.                                             *)
LEMMA IntervalsJoin ==
    ASSUME NEW a \in Nat, NEW n \in Nat
    PROVE  /\ Interval(a, a + n) \in Seq(Nat)
           /\ Len(Interval(a, a + n)) = n
           /\ Interval(0, a) \o Interval(a, a + n) = Interval(0, a + n)
<1>1. /\ Interval(a, a + n) = [i \in 1 .. n |-> a + i]
      /\ Interval(0, a) = [i \in 1 .. a |-> i]
      /\ Interval(0, a + n) = [i \in 1 .. a + n |-> i]
    BY DEF Interval
<1>2. /\ Interval(a, a + n) \in Seq(Nat) /\ Len(Interval(a, a + n)) = n
      /\ Interval(0, a) \in Seq(Nat) /\ Len(Interval(0, a)) = a
      /\ Interval(0, a + n) \in Seq(Nat) /\ Len(Interval(0, a + n)) = a + n
    BY <1>1
<1> DEFINE s == Interval(0, a)
           t == Interval(a, a + n)
           u == Interval(0, a + n)
<1> HIDE DEF s, t, u
<1>3. /\ s \in Seq(Nat) /\ t \in Seq(Nat) /\ u \in Seq(Nat)
      /\ Len(s) = a /\ Len(t) = n /\ Len(u) = a + n
      /\ \A i \in 1 .. a : s[i] = i
      /\ \A i \in 1 .. n : t[i] = a + i
      /\ \A i \in 1 .. a + n : u[i] = i
    BY <1>1, <1>2 DEF s, t, u
<1>4. s \o t \in Seq(Nat) /\ Len(s \o t) = Len(u)
    BY <1>3
<1>5. ASSUME NEW i \in 1 .. Len(u) PROVE (s \o t)[i] = u[i]
    BY <1>3
<1>6. s \o t = u
    BY <1>3, <1>4, <1>5, SeqEqual
<1> QED
    BY <1>2, <1>6 DEF s, t, u

(* Concatenation of sequences of bytes is associative.                     *)
LEMMA Reassociated ==
    ASSUME NEW s \in Seq(Nat), NEW t \in Seq(Nat), NEW u \in Seq(Nat)
    PROVE  s \o (t \o u) = (s \o t) \o u
BY ConcatAssociative

Socket == [arrived : Nat, read : Nat, end : {"open", "eof", "error"},
           deadline : {"none", "armed", "passed"}]
Gathering == [pc : {"first", "more", "ended"}, out : Seq(Nat),
              err : {"nil", "eof", "error", "cancelled"}, flush : BOOLEAN]

AggTypeOK ==
    /\ sock \in Socket
    /\ agg \in Gathering
    /\ got \in Seq(Nat)
    /\ last \in [size : Nat, reason : {"none", "size", "deadline", "eof", "error"}]

(* The deadline is on the socket only while a chunk is being gathered, so  *)
(* that a first read cannot time out; the chunk has room until it is       *)
(* returned; and the end of the stream is taken note of only behind the    *)
(* last byte that arrived, after which none can arrive.                    *)
AggInv ==
    /\ AggTypeOK
    /\ sock.read <= sock.arrived
    /\ AggregationLossless
    /\ IF agg.pc = "more" THEN Len(agg.out) < MaxBytes
       ELSE agg.out = << >> /\ sock.deadline = "none"
    /\ agg.err \in {"eof", "error"} =>
          agg.pc = "ended" /\ sock.end # "open" /\ sock.read = sock.arrived
    /\ last.size <= MaxBytes
    /\ last.reason = "size" => last.size = MaxBytes

(* What a socket read may return, in terms of the socket.                  *)
LEMMA SocketReadIs ==
    ASSUME AggTypeOK, sock.read <= sock.arrived, NEW size \in Nat,
           NEW r \in SocketReads(size)
    PROVE  /\ r.n \in Nat /\ r.n <= size /\ sock.read + r.n <= sock.arrived
           /\ r.err \in {"nil", "eof", "error", "timeout"}
           /\ r.err \in {"eof", "error"} =>
                sock.end # "open" /\ sock.read + r.n = sock.arrived
           /\ r.err = "timeout" => r.n = 0 /\ sock.deadline = "passed"
           /\ r.err = "nil" => r.n > 0
<1>1. /\ sock.arrived \in Nat /\ sock.read \in Nat
      /\ sock.end \in {"open", "eof", "error"}
    BY DEF AggTypeOK, Socket
<1>2. CASE sock.deadline = "passed"
    BY <1>1, <1>2 DEF SocketReads
<1>3. CASE sock.deadline # "passed"
    BY <1>1, <1>3 DEF SocketReads
<1> QED
    BY <1>2, <1>3

(* A Read that returns everything it has read, within the limit and with   *)
(* a true reason, preserves the invariant: it takes its deadline back.     *)
LEMMA ReturnKeeps ==
    ASSUME AggInv, NEW n \in Nat, sock.read + n <= sock.arrived,
           NEW data \in Seq(Nat), got \o data = Interval(0, sock.read + n),
           Len(data) <= MaxBytes,
           NEW reason \in {"size", "deadline", "eof", "error"},
           reason = "size" => Len(data) = MaxBytes,
           NEW err \in {"nil", "eof", "error", "cancelled"},
           err \in {"eof", "error"} =>
                sock.end # "open" /\ sock.read + n = sock.arrived,
           ReadReturns(data, n, reason, err)
    PROVE  AggInv'
<1>1. AggTypeOK /\ last.size <= MaxBytes /\ (last.reason = "size" => last.size = MaxBytes)
    BY DEF AggInv
<1>2. /\ sock'.arrived = sock.arrived /\ sock'.read = sock.read + n
      /\ sock'.end = sock.end /\ sock'.deadline = "none"
      /\ sock' \in Socket
    <2>1. sock \in Socket /\ sock' = [sock EXCEPT !.read = @ + n, !.deadline = "none"]
        BY <1>1 DEF ReadReturns, AggTypeOK
    <2>2. sock' = [arrived |-> sock.arrived, read |-> sock.read + n, end |-> sock.end,
                   deadline |-> "none"]
        BY <2>1 DEF Socket
    <2>3. /\ sock.arrived \in Nat /\ sock.read + n \in Nat
          /\ sock.end \in {"open", "eof", "error"}
        BY <2>1 DEF Socket
    <2> QED
        BY <2>2, <2>3 DEF Socket
<1>3. /\ agg'.pc = IF err = "nil" THEN "first" ELSE "ended"
      /\ agg'.out = << >> /\ agg'.err = err
      /\ agg' \in Gathering
    <2> DEFINE pc == IF err = "nil" THEN "first" ELSE "ended"
    <2>1. agg \in Gathering /\ agg' = [agg EXCEPT !.pc = pc, !.out = << >>, !.err = err]
        BY <1>1 DEF ReadReturns, AggTypeOK
    <2>2. pc \in {"first", "more", "ended"} /\ << >> \in Seq(Nat)
        OBVIOUS
    <2> HIDE DEF pc
    <2>3. agg' = [pc |-> pc, out |-> << >>, err |-> err, flush |-> agg.flush]
        BY <2>1 DEF Gathering
    <2>4. agg.flush \in BOOLEAN
        BY <2>1 DEF Gathering
    <2>5. agg' \in Gathering /\ agg'.pc = pc /\ agg'.out = << >> /\ agg'.err = err
        BY <2>2, <2>3, <2>4 DEF Gathering
    <2> QED
        BY <2>5 DEF pc
<1>4. got' = got \o data /\ got' \in Seq(Nat) /\ got' \o << >> = got'
    <2>1. got' = got \o data /\ got \in Seq(Nat)
        BY <1>1 DEF ReadReturns, AggTypeOK
    <2>2. got' \in Seq(Nat)
        BY <2>1, ConcatProperties
    <2> QED
        BY <2>1, <2>2, ConcatEmptySeq
<1>5. /\ last' \in [size : Nat, reason : {"none", "size", "deadline", "eof", "error"}]
      /\ last'.size <= MaxBytes /\ (last'.reason = "size" => last'.size = MaxBytes)
    <2>1. Len(data) \in Nat
        OBVIOUS
    <2>2. CASE data = << >>
        BY <1>1, <2>2 DEF ReadReturns, AggTypeOK
    <2>3. CASE data # << >>
        <3>1. last' = [size |-> Len(data), reason |-> reason]
            BY <2>3 DEF ReadReturns
        <3> QED
            BY <2>1, <3>1
    <2> QED
        BY <2>2, <2>3
<1>6. AggTypeOK'
    BY <1>2, <1>3, <1>4, <1>5 DEF AggTypeOK
<1>7. AggregationLossless'
    BY <1>2, <1>3, <1>4, Zenon DEF AggregationLossless, Interval
<1> QED
    BY <1>2, <1>3, <1>5, <1>6, <1>7 DEF AggInv

(* A Read that goes on with the bytes it has.                              *)
LEMMA GatherKeeps ==
    ASSUME AggInv, NEW n \in Nat, sock.read + n <= sock.arrived,
           NEW data \in Seq(Nat), got \o data = Interval(0, sock.read + n),
           Len(data) < MaxBytes, agg.pc # "ended",
           NEW deadline \in {"none", "armed", "passed"},
           agg' = [pc |-> "more", out |-> data, err |-> agg.err, flush |-> agg.flush],
           sock' = [arrived |-> sock.arrived, read |-> sock.read + n, end |-> sock.end,
                    deadline |-> deadline],
           got' = got, last' = last
    PROVE  AggInv'
<1>1. AggTypeOK /\ sock \in Socket /\ agg \in Gathering
    BY DEF AggInv, AggTypeOK
<1>2. /\ sock'.arrived = sock.arrived /\ sock'.read = sock.read + n
      /\ sock'.end = sock.end /\ sock' \in Socket
    <2>1. /\ sock.arrived \in Nat /\ sock.read + n \in Nat
          /\ sock.end \in {"open", "eof", "error"}
        BY <1>1 DEF Socket
    <2> QED
        BY <2>1 DEF Socket
<1>3. /\ agg'.pc = "more" /\ agg'.out = data /\ agg'.err = agg.err
      /\ agg' \in Gathering
    <2>1. agg.err \in {"nil", "eof", "error", "cancelled"} /\ agg.flush \in BOOLEAN
        BY <1>1 DEF Gathering
    <2> QED
        BY <2>1 DEF Gathering
<1>4. AggTypeOK'
    BY <1>1, <1>2, <1>3 DEF AggTypeOK
<1>5. AggregationLossless'
    BY <1>2, <1>3, Zenon DEF AggregationLossless, Interval
<1> QED
    BY <1>2, <1>3, <1>4, <1>5 DEF AggInv

(* Nothing has arrived at first.                                           *)
LEMMA AggInitial == AggInit => AggInv
<1> SUFFICES ASSUME AggInit PROVE AggInv
    OBVIOUS
<1>1. /\ sock = [arrived |-> 0, read |-> 0, end |-> "open", deadline |-> "none"]
      /\ \E flush \in BOOLEAN :
            agg = [pc |-> "first", out |-> << >>, err |-> "nil", flush |-> flush]
      /\ got = << >> /\ last = [size |-> 0, reason |-> "none"]
    BY DEF AggInit
<1>2. AggTypeOK
    BY <1>1 DEF AggTypeOK, Socket, Gathering
<1>3. << >> \o << >> = Interval(0, 0)
    <2>1. Interval(0, 0 + 0) \in Seq(Nat) /\ Len(Interval(0, 0 + 0)) = 0
        BY IntervalsJoin
    <2> QED
        BY <2>1, EmptySeq, ConcatEmptySeq
<1> QED
    BY <1>1, <1>2, <1>3, AggregatorAssumption DEF AggInv, AggregationLossless

(* The first read of a chunk.                                              *)
LEMMA FirstReadKeeps ==
    ASSUME AggInv, NEW r \in SocketReads(MaxBytes), FirstRead(r)
    PROVE  AggInv'
<1> DEFINE data == Interval(sock.read, sock.read + r.n)
<1>1. /\ AggTypeOK /\ sock.read \in Nat /\ sock.read <= sock.arrived
      /\ got \in Seq(Nat) /\ MaxBytes \in Nat \ {0}
    BY AggregatorAssumption DEF AggInv, AggTypeOK, Socket
<1>2. agg.pc = "first" /\ agg.out = << >> /\ sock.deadline = "none"
    BY DEF FirstRead, AggInv
<1>3. /\ r.n \in Nat /\ r.n <= MaxBytes /\ sock.read + r.n <= sock.arrived
      /\ r.err \in {"nil", "eof", "error"}
      /\ r.err \in {"eof", "error"} => sock.end # "open" /\ sock.read + r.n = sock.arrived
    BY <1>1, <1>2, SocketReadIs
<1>4. data \in Seq(Nat) /\ Len(data) = r.n
    BY <1>1, <1>3, IntervalsJoin
<1>5. got \o data = Interval(0, sock.read + r.n)
    <2>1. got = Interval(0, sock.read)
        BY <1>1, <1>2, ConcatEmptySeq DEF AggInv, AggregationLossless
    <2> QED
        BY <1>1, <1>3, <2>1, IntervalsJoin
<1> HIDE DEF data
<1>6. CASE ReadReturns(data, r.n, reasonForErr(r.err), r.err)
    <2>1. reasonForErr(r.err) \in {"eof", "error"}
        BY DEF reasonForErr
    <2> QED
        BY <1>1, <1>3, <1>4, <1>5, <1>6, <2>1, ReturnKeeps
<1>7. CASE r.n >= MaxBytes /\ ReadReturns(data, r.n, "size", "nil")
    <2>1. Len(data) = MaxBytes
        BY <1>1, <1>3, <1>4, <1>7
    <2> QED
        BY <1>1, <1>3, <1>4, <1>5, <1>7, <2>1, ReturnKeeps
<1>8. CASE ReadReturns(data, r.n, "deadline", "nil")
    BY <1>1, <1>3, <1>4, <1>5, <1>8, ReturnKeeps
<1>9. CASE /\ r.n < MaxBytes
           /\ agg' = [agg EXCEPT !.pc = "more", !.out = data]
           /\ sock' = [sock EXCEPT !.read = @ + r.n, !.deadline = "armed"]
           /\ UNCHANGED <<got, last>>
    <2>1. agg' = [pc |-> "more", out |-> data, err |-> agg.err, flush |-> agg.flush]
        BY <1>1, <1>9 DEF AggTypeOK, Gathering
    <2>2. sock' = [arrived |-> sock.arrived, read |-> sock.read + r.n, end |-> sock.end,
                   deadline |-> "armed"]
        BY <1>1, <1>9 DEF AggTypeOK, Socket
    <2>3. Len(data) < MaxBytes /\ agg.pc # "ended" /\ got' = got /\ last' = last
        BY <1>2, <1>4, <1>9
    <2> QED
        BY <1>3, <1>4, <1>5, <2>1, <2>2, <2>3, GatherKeeps
<1> QED
    BY <1>6, <1>7, <1>8, <1>9, Zenon DEF FirstRead, data

(* A further read of a chunk.                                              *)
LEMMA MoreReadKeeps ==
    ASSUME AggInv, NEW r \in SocketReads(Room(agg.out)), MoreRead(r)
    PROVE  AggInv'
<1> DEFINE more == Interval(sock.read, sock.read + r.n)
           data == agg.out \o more
<1>1. /\ AggTypeOK /\ sock.read \in Nat /\ sock.read <= sock.arrived
      /\ got \in Seq(Nat) /\ agg.out \in Seq(Nat) /\ MaxBytes \in Nat \ {0}
      /\ sock \in Socket /\ agg \in Gathering
    BY AggregatorAssumption DEF AggInv, AggTypeOK, Socket, Gathering
<1>2. agg.pc = "more" /\ Len(agg.out) < MaxBytes /\ Len(agg.out) \in Nat
    BY <1>1 DEF MoreRead, AggInv
<1>3. /\ r.n \in Nat /\ Len(agg.out) + r.n <= MaxBytes
      /\ sock.read + r.n <= sock.arrived
      /\ r.err \in {"nil", "eof", "error", "timeout"}
      /\ r.err \in {"eof", "error"} => sock.end # "open" /\ sock.read + r.n = sock.arrived
      /\ r.err = "timeout" => r.n = 0
    <2>1. Room(agg.out) \in Nat /\ Room(agg.out) = MaxBytes - Len(agg.out)
        BY <1>1, <1>2 DEF Room
    <2> HIDE DEF Room
    <2>2. /\ r.n \in Nat /\ r.n <= Room(agg.out) /\ sock.read + r.n <= sock.arrived
          /\ r.err \in {"nil", "eof", "error", "timeout"}
          /\ r.err \in {"eof", "error"} =>
               sock.end # "open" /\ sock.read + r.n = sock.arrived
          /\ r.err = "timeout" => r.n = 0
        BY <1>1, <2>1, SocketReadIs
    <2> QED
        BY <1>1, <1>2, <2>1, <2>2
<1>4. more \in Seq(Nat) /\ Len(more) = r.n
      /\ Interval(0, sock.read) \o more = Interval(0, sock.read + r.n)
    BY <1>1, <1>3, IntervalsJoin
<1> HIDE DEF more
<1>5. data \in Seq(Nat) /\ Len(data) = Len(agg.out) + r.n
    <2>1. data \in Seq(Nat) /\ Len(data) = Len(agg.out) + Len(more)
        BY <1>1, <1>4, ConcatProperties, Zenon
    <2> QED
        BY <1>4, <2>1
<1>6. got \o data = Interval(0, sock.read + r.n)
    <2>1. got \o data = (got \o agg.out) \o more
        BY <1>1, <1>4, Reassociated, Zenon
    <2>2. got \o agg.out = Interval(0, sock.read)
        BY DEF AggInv, AggregationLossless
    <2> QED
        BY <1>4, <2>1, <2>2, Zenon
<1> HIDE DEF data
<1>7. CASE Len(data) >= MaxBytes /\ ReadReturns(data, r.n, "size", r.err)
    <2>1. Len(data) = MaxBytes /\ r.err # "timeout"
        BY <1>1, <1>2, <1>3, <1>5, <1>7
    <2> QED
        BY <1>1, <1>3, <1>5, <1>6, <1>7, <2>1, ReturnKeeps
<1>8. CASE ReadReturns(data, r.n, "deadline", "nil")
    <2>1. Len(data) <= MaxBytes
        BY <1>3, <1>5
    <2> QED
        BY <1>1, <1>3, <1>5, <1>6, <1>8, <2>1, ReturnKeeps
<1>9. CASE r.err \notin {"nil", "timeout"} /\ ReadReturns(data, r.n, reasonForErr(r.err), r.err)
    <2>1. reasonForErr(r.err) \in {"eof", "error"} /\ Len(data) <= MaxBytes
        BY <1>3, <1>5 DEF reasonForErr
    <2> QED
        BY <1>1, <1>3, <1>5, <1>6, <1>9, <2>1, ReturnKeeps
<1>10. CASE /\ Len(data) < MaxBytes
            /\ agg' = [agg EXCEPT !.out = data]
            /\ sock' = [sock EXCEPT !.read = @ + r.n]
            /\ UNCHANGED <<got, last>>
    <2>1. agg' = [pc |-> "more", out |-> data, err |-> agg.err, flush |-> agg.flush]
        BY <1>1, <1>2, <1>10 DEF Gathering
    <2> DEFINE d == sock.deadline
    <2>2. /\ sock' = [arrived |-> sock.arrived, read |-> sock.read + r.n,
                      end |-> sock.end, deadline |-> d]
          /\ d \in {"none", "armed", "passed"}
        BY <1>1, <1>10 DEF Socket
    <2> HIDE DEF d
    <2>3. Len(data) < MaxBytes /\ agg.pc # "ended" /\ got' = got /\ last' = last
        BY <1>2, <1>10
    <2> QED
        BY <1>3, <1>5, <1>6, <2>1, <2>2, <2>3, GatherKeeps
<1> QED
    BY <1>7, <1>8, <1>9, <1>10, Zenon DEF MoreRead, data, more

(* Every step of the goroutine and of its environment preserves the        *)
(* invariant.                                                              *)
LEMMA AggInductive == AggInv /\ [AggNext]_aggVars => AggInv'
<1> SUFFICES ASSUME AggInv, [AggNext]_aggVars PROVE AggInv'
    OBVIOUS
<1>1. CASE \E r \in SocketReads(MaxBytes) : FirstRead(r)
    BY <1>1, FirstReadKeeps, Zenon
<1>2. CASE \E r \in SocketReads(Room(agg.out)) : MoreRead(r)
    BY <1>2, MoreReadKeeps, Zenon
<1>t. /\ sock \in Socket /\ agg \in Gathering /\ MaxBytes \in Nat
      /\ sock.arrived \in Nat /\ sock.read \in Nat /\ sock.read <= sock.arrived
    BY AggregatorAssumption DEF AggInv, AggTypeOK, Socket
<1>3. CASE MoreCancelled
    <2>1. /\ agg.out \in Seq(Nat) /\ Len(agg.out) <= MaxBytes
          /\ ReadReturns(agg.out, 0, "error", "cancelled")
        BY <1>t, <1>3 DEF MoreCancelled, AggInv, Gathering
    <2>2. sock.read + 0 <= sock.arrived /\ got \o agg.out = Interval(0, sock.read + 0)
        BY <1>t DEF AggInv, AggregationLossless
    <2> QED
        BY <2>1, <2>2, ReturnKeeps
<1>4. ASSUME /\ sock' \in Socket /\ sock'.read = sock.read
             /\ sock'.arrived >= sock.arrived
             /\ sock.end # "open" => sock'.end # "open" /\ sock'.arrived = sock.arrived
             /\ sock.deadline = "none" => sock'.deadline = "none"
             /\ UNCHANGED <<agg, got, last>>
      PROVE  AggInv'
    <2>1. AggTypeOK'
        BY <1>4 DEF AggInv, AggTypeOK
    <2>2. AggregationLossless'
        BY <1>4 DEF AggInv, AggregationLossless
    <2>3. sock'.read <= sock'.arrived
        BY <1>4, <1>t DEF Socket
    <2> QED
        BY <1>4, <2>1, <2>2, <2>3 DEF AggInv
<1>5. CASE PeerSends
    BY <1>t, <1>4, <1>5 DEF PeerSends, Socket
<1>6. CASE \E how \in {"eof", "error"} : PeerEnds(how)
    BY <1>t, <1>4, <1>6 DEF PeerEnds, Socket
<1>7. CASE DeadlinePasses
    BY <1>t, <1>4, <1>7 DEF DeadlinePasses, Socket
<1>8. CASE CancelRead \/ UNCHANGED aggVars
    BY <1>t, <1>4, <1>8 DEF CancelRead, aggVars
<1> QED
    BY <1>1, <1>2, <1>3, <1>5, <1>6, <1>7, <1>8 DEF AggNext, ReadStep

(* The invariant holds for every chunk size and every stream.              *)
LEMMA AggInvariant == AggSpec => []AggInv
BY AggInitial, AggInductive, PTL DEF AggSpec

(* Aggregator.Read loses no byte and repeats none, however its chunks are  *)
(* cut short, for every chunk size.                                        *)
THEOREM NoByteIsLost == AggSpec => []AggregationLossless
<1>1. AggInv => AggregationLossless
    BY DEF AggInv
<1> QED
    BY <1>1, AggInvariant, PTL

(* What Read reports is true: sizes and reasons, and an end of the stream  *)
(* that is behind every byte and never a flush deadline in disguise.       *)
THEOREM ReportsAreTrue == AggSpec => []ReadReportsTruly
<1>1. AggInv => ReadReportsTruly
    <2> SUFFICES ASSUME AggInv PROVE ReadReportsTruly
        OBVIOUS
    <2>1. /\ agg.err \in {"nil", "eof", "error", "cancelled"}
          /\ got \in Seq(Nat) /\ sock.read \in Nat
        BY DEF AggInv, AggTypeOK, Gathering, Socket
    <2>2. CASE agg.err \in {"eof", "error"}
        <3>1. agg.out = << >> /\ sock.read = sock.arrived
            BY <2>2 DEF AggInv
        <3>2. got = Interval(0, sock.read)
            BY <2>1, <3>1, ConcatEmptySeq DEF AggInv, AggregationLossless
        <3>3. Len(Interval(0, 0 + sock.read)) = sock.read
            BY <2>1, IntervalsJoin
        <3> QED
            BY <2>1, <3>1, <3>2, <3>3 DEF AggInv, ReadReportsTruly
    <2> QED
        BY <2>1, <2>2 DEF AggInv, ReadReportsTruly
<1> QED
    BY <1>1, AggInvariant, PTL
-----------------------------------------------------------------------------
(* DeletePrefix and the doctor *)

(* A page of LIST is empty only when there is nothing to list.             *)
LEMMA EmptyPage ==
    ASSUME NEW S, S \subseteq Nat, NEW n \in Nat \ {0}, Lowest(S, n) = {}
    PROVE  S = {}
<1> SUFFICES ASSUME S # {} PROVE FALSE
    OBVIOUS
<1>1. PICK k \in S : \A j \in S : k <= j
    <2> DEFINE Less == OpToRel(<, Nat)
    <2>1. \A i, j \in Nat : i < j => <<i, j>> \in Less
        BY DEF OpToRel
    <2>2. IsWellFoundedOn(Less, Nat)
        BY NatLessThanWellFounded
    <2> HIDE DEF Less
    <2>3. PICK k \in S : \A j \in S : ~(<<j, k>> \in Less)
        BY <2>2, WFMin
    <2>4. \A j \in S : ~(j < k)
        BY <2>1, <2>3
    <2>5. \A j \in S : k <= j
        BY <2>4
    <2> QED
        BY <2>5
<1>2. {j \in S : j <= k} = {k}
    <2>1. \A j \in S : j <= k => j = k
        BY <1>1
    <2>2. k <= k
        BY <1>1
    <2> QED
        BY <2>1, <2>2
<1>3. Cardinality({j \in S : j <= k}) <= n
    BY <1>2, FS_Singleton
<1> QED
    BY <1>3 DEF Lowest

(* What a request does to the set of keys.                                 *)
LEMMA EffectOnKeys ==
    ASSUME NEW r
    PROVE  /\ DOMAIN Effect(r) \subseteq DOMAIN bucket \cup {r.key}
           /\ r.op # "put" => DOMAIN Effect(r) \subseteq DOMAIN bucket
           /\ r.op = "delete" => r.key \notin DOMAIN Effect(r)
<1>1. CASE r.op = "put"
    BY <1>1 DEF Effect, PutObject
<1>2. CASE r.op = "delete"
    BY <1>2 DEF Effect
<1>3. CASE r.op \notin {"put", "delete"}
    BY <1>3 DEF Effect
<1> QED
    BY <1>1, <1>2, <1>3

(* The callers only write keys under the prefix, and only the doctor       *)
(* writes its own.                                                         *)
RequestInv ==
    /\ DOMAIN call = Caller
    /\ DOMAIN bucket \subseteq Key
    /\ \A c \in Caller : call[c].pc = "pending" /\ call[c].op = "put" =>
          call[c].key \in Key /\ (call[c].key = DoctorKey => c = Doctor)
    /\ \A r \in orphans : r.op = "put" => r.key \in Key

(* The answer on its way to DeletePrefix is to what it has asked at this   *)
(* stage, and an empty page among the answers says that nothing stale was  *)
(* left when it was listed; what is stale only shrinks from there.         *)
CleanInv ==
    /\ clean = [pc |-> clean.pc, page |-> clean.page]
    /\ stale \subseteq DOMAIN bucket
    /\ clean.pc = "off" => call[Cleaner].pc = "idle"
    /\ clean.pc = "list" /\ call[Cleaner].pc # "idle" => call[Cleaner].op = "list"
    /\ /\ clean.pc = "list" /\ call[Cleaner].pc = "ended"
       /\ call[Cleaner].out = "success" /\ call[Cleaner].body = {}
       => stale = {}
    /\ clean.pc = "done" => stale = {}

(* The doctor's DELETE has succeeded, and it may have reported so.         *)
DoctorDeleted ==
    \/ doc.report = "ok" /\ doc.cleanup
    \/ call[Doctor].pc = "ended" /\ call[Doctor].out = "success" /\ doc.op = "delete"

(* A PUT of the doctor that is still under way after it was given up has   *)
(* failed the probe, or is about to; so that none can follow the DELETE.   *)
DoctorInv ==
    /\ doc \in [op : Op, round : Nat, cleanup : BOOLEAN, report : {"none", "ok", "failed"}]
    /\ doc.op = "delete" => doc.cleanup
    /\ call[Doctor].pc # "idle" =>
          doc.report = "none" /\ call[Doctor].op = doc.op /\ call[Doctor].key = DoctorKey
    /\ \A r \in orphans : r.op = "put" /\ r.key = DoctorKey =>
          \/ doc.report = "failed"
          \/ call[Doctor].pc = "ended" /\ call[Doctor].out # "success"
    /\ DoctorDeleted => DoctorKey \notin DOMAIN bucket

CleanupInv == RequestInv /\ CleanInv /\ DoctorInv

(* Only the call of c changes.                                             *)
Others(c) == DOMAIN call' = Caller /\ \A d \in Caller \ {c} : call'[d] = call[d]

(* A call starts, and what the store knows stays.                          *)
LEMMA InvokeIs ==
    ASSUME RequestInv, NEW c \in Caller, NEW op, NEW key, NEW val, Invoke(c, op, key, val)
    PROVE  /\ call[c].pc = "idle" /\ Others(c)
           /\ call'[c].pc = "pending" /\ call'[c].op = op /\ call'[c].key = key
           /\ UNCHANGED <<bucket, orphans>>
<1>1. /\ call[c].pc = "idle" /\ UNCHANGED <<bucket, orphans>> /\ DOMAIN call = Caller
      /\ call' = [call EXCEPT ![c] = [pc |-> "pending", op |-> op, key |-> key, val |-> val]]
    BY DEF Invoke, RequestInv
<1>2. call'[c] = [pc |-> "pending", op |-> op, key |-> key, val |-> val] /\ Others(c)
    BY <1>1 DEF Others
<1> QED
    BY <1>1, <1>2

(* A caller takes the outcome of its call.                                 *)
LEMMA TakesIs ==
    ASSUME RequestInv, NEW c \in Caller, Takes(c)
    PROVE  /\ call[c].pc = "ended" /\ Others(c) /\ call'[c].pc = "idle"
           /\ UNCHANGED <<bucket, orphans>>
<1>1. /\ call[c].pc = "ended" /\ UNCHANGED <<bucket, orphans>> /\ DOMAIN call = Caller
      /\ call' = [call EXCEPT ![c] = Idle]
    BY DEF Takes, RequestInv
<1>2. call'[c] = Idle /\ Others(c)
    BY <1>1 DEF Others
<1> QED
    BY <1>1, <1>2 DEF Idle

(* A call ends and keeps what it was about.                                *)
LEMMA EndsIs ==
    ASSUME RequestInv, NEW c \in Caller, NEW outcome, NEW body, Ends(c, outcome, body)
    PROVE  /\ Others(c) /\ call'[c].pc = "ended"
           /\ call'[c].op = call[c].op /\ call'[c].key = call[c].key
           /\ call'[c].out = outcome /\ call'[c].body = body
<1> DEFINE v == [pc |-> "ended", op |-> call[c].op, key |-> call[c].key,
                 out |-> outcome, body |-> body]
<1>1. DOMAIN call = Caller /\ call' = [call EXCEPT ![c] = v]
    BY DEF Ends, RequestInv
<1>2. /\ v.pc = "ended" /\ v.op = call[c].op /\ v.key = call[c].key
      /\ v.out = outcome /\ v.body = body
    OBVIOUS
<1> HIDE DEF v
<1>3. call'[c] = v /\ Others(c)
    BY <1>1 DEF Others
<1> QED
    BY <1>2, <1>3

(* The service handles a request.                                          *)
LEMMA HandledIs ==
    ASSUME RequestInv, NEW c \in Caller, Handled(c)
    PROVE  /\ call[c].pc = "pending" /\ Others(c) /\ call'[c].pc = "ended"
           /\ call'[c].op = call[c].op /\ call'[c].key = call[c].key
           /\ call'[c].body = Body(call[c])
           /\ bucket' = Effect(call[c]) /\ Tracked(call[c]) /\ orphans' = orphans
<1>1. /\ call[c].pc = "pending" /\ bucket' = Effect(call[c]) /\ Tracked(call[c])
      /\ Ends(c, OutcomeOf(call[c].op, Status(call[c])), Body(call[c]))
      /\ orphans' = orphans
    BY DEF Handled, Serve
<1> QED
    BY <1>1, EndsIs

(* A call that is cancelled, refused or given up has no success, and only  *)
(* its own request may remain.                                             *)
LEMMA FailedIs ==
    ASSUME RequestInv, NEW c \in Caller, Failed(c)
    PROVE  /\ call[c].pc = "pending" /\ Others(c) /\ call'[c].pc = "ended"
           /\ call'[c].op = call[c].op /\ call'[c].key = call[c].key
           /\ call'[c].out # "success"
           /\ \A r \in orphans' : r \in orphans \/ (r.op = call[c].op /\ r.key = call[c].key)
           /\ UNCHANGED <<bucket, clean, stale, doc>>
<1>1. Refused(c) /\ UNCHANGED <<clean, stale, doc>>
    BY DEF Failed
<1>2. CASE DelayCancelled(c)
    <2>1. /\ call[c].pc = "pending" /\ Ends(c, "cancelled", {})
          /\ orphans' = orphans /\ bucket' = bucket
        BY <1>2 DEF DelayCancelled
    <2> QED
        BY <1>1, <2>1, EndsIs
<1>3. ASSUME NEW status \in {404, 500}, ServeError(c, status)
      PROVE  /\ call[c].pc = "pending" /\ Others(c) /\ call'[c].pc = "ended"
             /\ call'[c].op = call[c].op /\ call'[c].key = call[c].key
             /\ call'[c].out # "success" /\ UNCHANGED <<bucket, orphans>>
    <2> DEFINE out == OutcomeOf(call[c].op, status)
    <2>1. /\ call[c].pc = "pending" /\ Ends(c, out, {})
          /\ orphans' = orphans /\ bucket' = bucket
        BY <1>3 DEF ServeError
    <2>2. out # "success"
        BY DEF OutcomeOf
    <2> HIDE DEF out
    <2> QED
        BY <2>1, <2>2, EndsIs
<1>4. ASSUME NEW outcome \in {"cancelled", "timeout"}, GiveUp(c, outcome)
      PROVE  /\ call[c].pc = "pending" /\ Others(c) /\ call'[c].pc = "ended"
             /\ call'[c].op = call[c].op /\ call'[c].key = call[c].key
             /\ call'[c].out # "success" /\ bucket' = bucket
             /\ \A r \in orphans' :
                    r \in orphans \/ (r.op = call[c].op /\ r.key = call[c].key)
    <2>1. /\ call[c].pc = "pending" /\ Ends(c, outcome, {}) /\ bucket' = bucket
          /\ orphans' = orphans \cup
                {[op |-> call[c].op, key |-> call[c].key, val |-> call[c].val]}
        BY <1>4 DEF GiveUp
    <2>2. \A r \in orphans' : r \in orphans \/ (r.op = call[c].op /\ r.key = call[c].key)
        BY <2>1
    <2> QED
        BY <2>1, <2>2, EndsIs
<1> QED
    BY <1>1, <1>2, <1>3, <1>4 DEF Refused

(* The step of a request that is handled late.                             *)
LEMMA HandledLateIs ==
    ASSUME HandledLate
    PROVE  \E r \in orphans : /\ bucket' = Effect(r) /\ Tracked(r)
                              /\ orphans' = orphans \ {r} /\ call' = call
BY DEF HandledLate, ServeOrphan

(* Every step of the callers and of the service writes under the prefix.   *)
LEMMA RequestInductive ==
    ASSUME RequestInv, [CleanupNext]_cleanupVars
    PROVE  RequestInv'
<1>0. /\ Caller = {Cleaner, Doctor, Tunnel} /\ DoctorKey \in Key
      /\ Cleaner # Doctor /\ Tunnel # Doctor
    BY CleanupAssumption
<1>1. ASSUME NEW c \in Caller, Others(c), call'[c].pc # "pending", DOMAIN bucket' \subseteq Key,
             \A r \in orphans' : r.op = "put" => r.key \in Key
      PROVE  RequestInv'
    BY <1>1 DEF RequestInv, Others
<1>2. ASSUME NEW c \in Caller, NEW op, NEW key, NEW val, Invoke(c, op, key, val),
             op = "put" => key \in Key /\ (key = DoctorKey => c = Doctor)
      PROVE  RequestInv'
    <2>1. /\ Others(c) /\ call'[c].op = op /\ call'[c].key = key
          /\ UNCHANGED <<bucket, orphans>>
        BY <1>2, InvokeIs
    <2> QED
        BY <1>2, <2>1 DEF RequestInv, Others
<1>3. ASSUME NEW c \in Caller, Takes(c) PROVE RequestInv'
    <2>1. Others(c) /\ call'[c].pc = "idle" /\ UNCHANGED <<bucket, orphans>>
        BY <1>3, TakesIs
    <2> QED
        BY <1>1, <2>1 DEF RequestInv
<1>4. ASSUME NEW c \in Caller, Handled(c) PROVE RequestInv'
    <2>1. /\ call[c].pc = "pending" /\ Others(c) /\ call'[c].pc = "ended"
          /\ bucket' = Effect(call[c]) /\ orphans' = orphans
        BY <1>4, HandledIs
    <2>2. DOMAIN bucket' \subseteq Key
        BY <2>1, EffectOnKeys DEF RequestInv
    <2> QED
        BY <1>1, <2>1, <2>2 DEF RequestInv
<1>5. ASSUME NEW c \in Caller, Failed(c) PROVE RequestInv'
    <2>1. /\ call[c].pc = "pending" /\ Others(c) /\ call'[c].pc = "ended"
          /\ \A r \in orphans' : r \in orphans \/ (r.op = call[c].op /\ r.key = call[c].key)
          /\ bucket' = bucket
        BY <1>5, FailedIs
    <2>2. \A r \in orphans' : r.op = "put" => r.key \in Key
        BY <2>1 DEF RequestInv
    <2> QED
        BY <1>1, <2>1, <2>2 DEF RequestInv
<1>6. CASE HandledLate
    <2>1. PICK r \in orphans : bucket' = Effect(r) /\ orphans' = orphans \ {r} /\ call' = call
        BY <1>6, HandledLateIs
    <2>2. DOMAIN bucket' \subseteq Key
        BY <2>1, EffectOnKeys DEF RequestInv
    <2> QED
        BY <2>1, <2>2 DEF RequestInv
<1>7. CASE CleanStart
    BY <1>7 DEF CleanStart, RequestInv
<1>8. CASE CleanupStep
    <2>1. CASE CleanCall
        BY <1>0, <1>2, <2>1 DEF CleanCall
    <2>2. CASE CleanListed \/ CleanDeleted
        BY <1>0, <1>3, <2>2 DEF CleanListed, CleanDeleted
    <2> QED
        BY <1>8, <2>1, <2>2 DEF CleanupStep
<1>9. CASE DoctorStep
    BY <1>0, <1>2, <1>3, <1>9 DEF DoctorStep, DoctorCall, DoctorTakes
<1>10. CASE TunnelStep
    <2>1. ASSUME NEW op \in {"put", "delete"}, NEW key \in Key \ {DoctorKey},
                 TunnelCall(op, key)
          PROVE  RequestInv'
        BY <1>0, <1>2, <2>1 DEF TunnelCall
    <2>2. CASE TunnelTakes
        BY <1>0, <1>3, <2>2 DEF TunnelTakes
    <2> QED
        BY <1>10, <2>1, <2>2 DEF TunnelStep
<1>11. CASE UNCHANGED cleanupVars
    BY <1>11 DEF cleanupVars, RequestInv
<1> QED
    BY <1>4, <1>5, <1>6, <1>7, <1>8, <1>9, <1>10, <1>11 DEF CleanupNext, ServiceStep

(* No step makes anything stale but the start of DeletePrefix, and every   *)
(* step of it follows from what it was told.                               *)
LEMMA CleanInductive ==
    ASSUME RequestInv, CleanInv, [CleanupNext]_cleanupVars
    PROVE  CleanInv'
<1>0. /\ Caller = {Cleaner, Doctor, Tunnel} /\ Key \subseteq Nat
      /\ Cleaner # Doctor /\ Cleaner # Tunnel /\ MaxKeys \in Nat \ {0}
    BY CleanupAssumption, StoreAssumption
<1>1. ASSUME call'[Cleaner] = call[Cleaner], clean' = clean,
             stale' \subseteq stale, stale' \subseteq DOMAIN bucket'
      PROVE  CleanInv'
    BY <1>1 DEF CleanInv
<1>2. ASSUME NEW c \in {Doctor, Tunnel}, Others(c),
             UNCHANGED <<bucket, clean, stale>>
      PROVE  CleanInv'
    <2>1. call'[Cleaner] = call[Cleaner]
        BY <1>0, <1>2 DEF Others
    <2> QED
        BY <1>1, <1>2, <2>1 DEF CleanInv
<1>3. ASSUME NEW r, Tracked(r)
      PROVE  /\ clean' = clean /\ stale' \subseteq stale
             /\ stale' \subseteq DOMAIN bucket'
    BY <1>3 DEF Tracked
<1>4. ASSUME NEW c \in Caller, Handled(c) PROVE CleanInv'
    <2>1. /\ call[c].pc = "pending" /\ Others(c) /\ call'[c].pc = "ended"
          /\ call'[c].op = call[c].op /\ call'[c].body = Body(call[c])
          /\ bucket' = Effect(call[c]) /\ Tracked(call[c])
        BY <1>4, HandledIs
    <2>2. /\ clean' = clean /\ stale' \subseteq stale /\ stale' \subseteq DOMAIN bucket'
        BY <1>3, <2>1
    <2>3. CASE c # Cleaner
        BY <1>0, <1>1, <2>1, <2>2, <2>3 DEF Others
    <2>4. CASE c = Cleaner
        <3>1. clean.pc # "off"
            BY <2>1, <2>4 DEF CleanInv
        <3>2. ASSUME clean.pc = "list", call'[Cleaner].body = {} PROVE stale' = {}
            <4>1. call[Cleaner].op = "list"
                BY <2>1, <2>4, <3>2 DEF CleanInv
            <4>2. Lowest(DOMAIN bucket, MaxKeys) = {}
                BY <2>1, <2>4, <3>2, <4>1 DEF Body
            <4>3. DOMAIN bucket = {}
                BY <1>0, <4>2, EmptyPage DEF RequestInv
            <4> QED
                BY <2>2, <4>3 DEF CleanInv
        <3> QED
            BY <2>1, <2>2, <2>4, <3>1, <3>2 DEF CleanInv
    <2> QED
        BY <2>3, <2>4
<1>5. ASSUME NEW c \in Caller, Failed(c) PROVE CleanInv'
    <2>1. /\ call[c].pc = "pending" /\ Others(c) /\ call'[c].pc = "ended"
          /\ call'[c].op = call[c].op /\ call'[c].out # "success"
          /\ UNCHANGED <<bucket, clean, stale>>
        BY <1>5, FailedIs
    <2>2. CASE c # Cleaner
        BY <1>0, <1>2, <2>1, <2>2
    <2>3. CASE c = Cleaner
        BY <2>1, <2>3 DEF CleanInv
    <2> QED
        BY <2>2, <2>3
<1>6. CASE HandledLate
    <2>1. PICK r \in orphans : Tracked(r) /\ call' = call
        BY <1>6, HandledLateIs
    <2> QED
        BY <1>1, <1>3, <2>1
<1>7. CASE CleanStart
    <2>1. /\ clean.pc = "off" /\ stale' = DOMAIN bucket /\ UNCHANGED <<bucket, call>>
          /\ clean' = [clean EXCEPT !.pc = "list"]
        BY <1>7 DEF CleanStart
    <2>2. clean' = [pc |-> "list", page |-> clean.page]
        BY <2>1 DEF CleanInv
    <2> QED
        BY <2>1, <2>2 DEF CleanInv
<1>8. CASE CleanCall
    <2>1. UNCHANGED <<clean, stale>>
        BY <1>8 DEF CleanCall
    <2>2. CASE clean.pc = "list" /\ Invoke(Cleaner, "list", 0, 0)
        <3>1. /\ call'[Cleaner].pc = "pending" /\ call'[Cleaner].op = "list"
              /\ bucket' = bucket
            BY <1>0, <2>2, InvokeIs
        <3> QED
            BY <2>1, <2>2, <3>1 DEF CleanInv
    <2>3. CASE clean.pc = "delete" /\ Invoke(Cleaner, "delete", First(clean.page), 0)
        <3>1. bucket' = bucket
            BY <1>0, <2>3, InvokeIs
        <3> QED
            BY <2>1, <2>3, <3>1 DEF CleanInv
    <2> QED
        BY <1>8, <2>2, <2>3 DEF CleanCall
<1>9. CASE CleanListed
    <2>1. /\ call[Cleaner].pc = "ended" /\ call'[Cleaner].pc = "idle" /\ bucket' = bucket
        BY <1>0, <1>9, TakesIs DEF CleanListed
    <2> DEFINE pc == IF call[Cleaner].out # "success" THEN "failed"
                     ELSE IF call[Cleaner].body = {} THEN "done" ELSE "delete"
    <2>2. /\ clean.pc = "list" /\ stale' = stale
          /\ clean' = [clean EXCEPT !.pc = pc, !.page = call[Cleaner].body]
        BY <1>9 DEF CleanListed
    <2>3. pc = "done" => stale = {}
        BY <2>1, <2>2 DEF CleanInv
    <2>4. pc \in {"failed", "done", "delete"}
        OBVIOUS
    <2> HIDE DEF pc
    <2>5. clean' = [pc |-> pc, page |-> call[Cleaner].body]
        BY <2>2 DEF CleanInv
    <2>6. clean'.pc = pc /\ clean' = [pc |-> clean'.pc, page |-> clean'.page]
        BY <2>5
    <2> QED
        BY <2>1, <2>2, <2>3, <2>4, <2>6 DEF CleanInv
<1>10. CASE CleanDeleted
    <2>1. /\ call'[Cleaner].pc = "idle" /\ bucket' = bucket
        BY <1>0, <1>10, TakesIs DEF CleanDeleted
    <2>2. clean.pc = "delete" /\ stale' = stale
        BY <1>10 DEF CleanDeleted
    <2>3. /\ clean' = [pc |-> clean'.pc, page |-> clean'.page]
          /\ clean'.pc \in {"list", "delete", "failed"}
        <3>1. CASE call[Cleaner].out \in {"success", "not_found"}
            BY <1>10, <3>1 DEF CleanDeleted
        <3>2. CASE call[Cleaner].out \notin {"success", "not_found"}
            <4>1. clean' = [clean EXCEPT !.pc = "failed"]
                BY <1>10, <3>2 DEF CleanDeleted
            <4> QED
                BY <4>1 DEF CleanInv
        <3> QED
            BY <3>1, <3>2
    <2> QED
        BY <2>1, <2>2, <2>3 DEF CleanInv
<1>11. CASE DoctorStep
    <2>1. CASE DoctorCall
        <3>1. Others(Doctor) /\ bucket' = bucket
            BY <1>0, <2>1, InvokeIs DEF DoctorCall
        <3> QED
            BY <1>2, <2>1, <3>1 DEF DoctorCall
    <2>2. CASE DoctorTakes
        <3>0. Takes(Doctor) /\ UNCHANGED <<clean, stale>>
            BY <2>2 DEF DoctorTakes
        <3>1. Others(Doctor) /\ bucket' = bucket
            BY <1>0, <3>0, TakesIs
        <3> QED
            BY <1>2, <3>0, <3>1
    <2> QED
        BY <1>11, <2>1, <2>2 DEF DoctorStep
<1>12. CASE TunnelStep
    <2>1. ASSUME NEW op, NEW key, TunnelCall(op, key) PROVE CleanInv'
        <3>1. Others(Tunnel) /\ bucket' = bucket
            BY <1>0, <2>1, InvokeIs DEF TunnelCall
        <3> QED
            BY <1>2, <2>1, <3>1 DEF TunnelCall
    <2>2. CASE TunnelTakes
        <3>1. Others(Tunnel) /\ bucket' = bucket
            BY <1>0, <2>2, TakesIs DEF TunnelTakes
        <3> QED
            BY <1>2, <2>2, <3>1 DEF TunnelTakes
    <2> QED
        BY <1>12, <2>1, <2>2 DEF TunnelStep
<1>13. CASE UNCHANGED cleanupVars
    BY <1>13 DEF cleanupVars, CleanInv
<1> QED
    BY <1>4, <1>5, <1>6, <1>7, <1>8, <1>9, <1>10, <1>11, <1>12, <1>13
    DEF CleanupNext, CleanupStep, ServiceStep

(* The probe goes from its last LIST to the DELETE only with --cleanup.    *)
LEMMA DoctorAdvances ==
    ASSUME DoctorInv, doc.report = "none", DoctorTakes
    PROVE  /\ doc' \in [op : Op, round : Nat, cleanup : BOOLEAN,
                        report : {"none", "ok", "failed"}]
           /\ doc'.cleanup = doc.cleanup
           /\ doc'.op = "delete" => doc'.cleanup
           /\ doc'.report = "ok" /\ doc.cleanup => doc.op = "delete"
           /\ doc'.report # "failed" => call[Doctor].out = "success"
<1>1. /\ doc.op \in Op /\ doc.round \in Nat /\ doc.cleanup \in BOOLEAN
      /\ doc = [op |-> doc.op, round |-> doc.round, cleanup |-> doc.cleanup,
                report |-> doc.report]
      /\ doc.op = "delete" => doc.cleanup
    BY DEF DoctorInv
<1> DEFINE last0 == doc.op = "list" /\ doc.round = Rounds
           good == /\ call[Doctor].out = "success"
                   /\ doc.op = "get" => call[Doctor].body = {doc.round}
           round == IF doc.op = "list" THEN doc.round + 1 ELSE doc.round
<1>2. doc' = IF ~good THEN [doc EXCEPT !.report = "failed"]
             ELSE IF doc.op = "delete" \/ (last0 /\ ~doc.cleanup)
             THEN [doc EXCEPT !.report = "ok"]
             ELSE IF last0 THEN [doc EXCEPT !.op = "delete"]
             ELSE [doc EXCEPT !.op = After[doc.op], !.round = round]
    BY DEF DoctorTakes
<1>3. good => call[Doctor].out = "success"
    OBVIOUS
<1>4. round \in Nat
    BY <1>1
<1>5. last0 => doc.op = "list"
    OBVIOUS
<1> HIDE DEF last0, good, round
<1>6. CASE ~good
    <2>1. doc' = [op |-> doc.op, round |-> doc.round, cleanup |-> doc.cleanup,
                  report |-> "failed"]
        BY <1>1, <1>2, <1>6
    <2> QED
        BY <1>1, <2>1
<1>7. CASE good /\ (doc.op = "delete" \/ (last0 /\ ~doc.cleanup))
    <2>1. doc' = [op |-> doc.op, round |-> doc.round, cleanup |-> doc.cleanup,
                  report |-> "ok"]
        BY <1>1, <1>2, <1>7
    <2> QED
        BY <1>1, <1>3, <1>7, <2>1
<1>8. CASE good /\ doc.op # "delete" /\ last0 /\ doc.cleanup
    <2>1. doc' = [op |-> "delete", round |-> doc.round, cleanup |-> doc.cleanup,
                  report |-> "none"]
        BY <1>1, <1>2, <1>8
    <2> QED
        BY <1>1, <1>3, <1>8, <2>1 DEF Op
<1>9. CASE good /\ doc.op # "delete" /\ ~last0
    <2> DEFINE op == After[doc.op]
    <2>1. op \in Op /\ op # "delete"
        BY <1>1, <1>9 DEF After, Op
    <2>2. doc' = [op |-> op, round |-> round, cleanup |-> doc.cleanup, report |-> "none"]
        BY <1>1, <1>2, <1>9
    <2> HIDE DEF op
    <2>3. call[Doctor].out = "success"
        BY <1>3, <1>9
    <2> QED
        BY <1>1, <1>4, <2>1, <2>2, <2>3
<1> QED
    BY <1>6, <1>7, <1>8, <1>9

(* No step brings the doctor's object back once its DELETE has succeeded.  *)
LEMMA DoctorInductive ==
    ASSUME RequestInv, DoctorInv, [CleanupNext]_cleanupVars
    PROVE  DoctorInv'
<1>0. /\ Caller = {Cleaner, Doctor, Tunnel} /\ Cleaner # Doctor /\ Tunnel # Doctor
    BY CleanupAssumption
<1>1. ASSUME call'[Doctor] = call[Doctor], doc' = doc,
             \A r \in orphans' : r.op = "put" /\ r.key = DoctorKey => r \in orphans,
             DoctorDeleted /\ DoctorKey \notin DOMAIN bucket => DoctorKey \notin DOMAIN bucket'
      PROVE  DoctorInv'
    BY <1>1 DEF DoctorInv, DoctorDeleted
<1>2. ASSUME NEW c \in {Cleaner, Tunnel}, Others(c), UNCHANGED <<bucket, orphans, doc>>
      PROVE  DoctorInv'
    <2>1. call'[Doctor] = call[Doctor]
        BY <1>0, <1>2 DEF Others
    <2> QED
        BY <1>1, <1>2, <2>1
<1>3. ASSUME NEW r, r.op = "put" => r.key # DoctorKey
      PROVE  DoctorKey \notin DOMAIN bucket => DoctorKey \notin DOMAIN Effect(r)
    BY <1>3, EffectOnKeys
<1>4. ASSUME NEW c \in Caller, Handled(c) PROVE DoctorInv'
    <2>1. /\ call[c].pc = "pending" /\ Others(c) /\ call'[c].pc = "ended"
          /\ call'[c].op = call[c].op /\ call'[c].key = call[c].key
          /\ bucket' = Effect(call[c]) /\ orphans' = orphans /\ doc' = doc
        BY <1>4, HandledIs DEF Tracked
    <2>2. CASE c # Doctor
        <3>1. call[c].op = "put" => call[c].key # DoctorKey
            BY <2>1, <2>2 DEF RequestInv
        <3>2. DoctorKey \notin DOMAIN bucket => DoctorKey \notin DOMAIN bucket'
            BY <1>3, <2>1, <3>1
        <3>3. call'[Doctor] = call[Doctor]
            BY <1>0, <2>1, <2>2 DEF Others
        <3> QED
            BY <1>1, <2>1, <3>2, <3>3
    <2>3. CASE c = Doctor
        <3>1. /\ doc.report = "none" /\ call[Doctor].op = doc.op
              /\ call[Doctor].key = DoctorKey
            BY <2>1, <2>3 DEF DoctorInv
        <3>2. \A r \in orphans : ~(r.op = "put" /\ r.key = DoctorKey)
            BY <2>1, <2>3, <3>1 DEF DoctorInv
        <3>3. doc.op = "delete" => DoctorKey \notin DOMAIN bucket'
            BY <2>1, <2>3, <3>1, EffectOnKeys
        <3> QED
            BY <2>1, <2>3, <3>1, <3>2, <3>3 DEF DoctorInv, DoctorDeleted
    <2> QED
        BY <2>2, <2>3
<1>5. ASSUME NEW c \in Caller, Failed(c) PROVE DoctorInv'
    <2>1. /\ call[c].pc = "pending" /\ Others(c) /\ call'[c].pc = "ended"
          /\ call'[c].op = call[c].op /\ call'[c].key = call[c].key
          /\ call'[c].out # "success"
          /\ \A r \in orphans' : r \in orphans \/ (r.op = call[c].op /\ r.key = call[c].key)
          /\ bucket' = bucket /\ doc' = doc
        BY <1>5, FailedIs
    <2>2. CASE c # Doctor
        <3>1. call[c].op = "put" => call[c].key # DoctorKey
            BY <2>1, <2>2 DEF RequestInv
        <3>2. call'[Doctor] = call[Doctor]
            BY <1>0, <2>1, <2>2 DEF Others
        <3> QED
            BY <1>1, <2>1, <3>1, <3>2
    <2>3. CASE c = Doctor
        <3>1. doc.report = "none"
            BY <2>1, <2>3 DEF DoctorInv
        <3> QED
            BY <2>1, <2>3, <3>1 DEF DoctorInv, DoctorDeleted
    <2> QED
        BY <2>2, <2>3
<1>6. CASE HandledLate
    <2>1. PICK r \in orphans : /\ bucket' = Effect(r) /\ Tracked(r)
                               /\ orphans' = orphans \ {r} /\ call' = call
        BY <1>6, HandledLateIs
    <2>2. doc' = doc
        BY <2>1 DEF Tracked
    <2>3. DoctorDeleted => (r.op = "put" => r.key # DoctorKey)
        BY <1>0 DEF DoctorInv, DoctorDeleted
    <2>4. DoctorDeleted /\ DoctorKey \notin DOMAIN bucket => DoctorKey \notin DOMAIN bucket'
        BY <1>3, <2>1, <2>3
    <2> QED
        BY <1>1, <2>1, <2>2, <2>4
<1>7. CASE DoctorCall
    <2>1. doc.report = "none" /\ Invoke(Doctor, doc.op, DoctorKey, doc.round) /\ doc' = doc
        BY <1>7 DEF DoctorCall
    <2>2. /\ call[Doctor].pc = "idle" /\ call'[Doctor].pc = "pending"
          /\ call'[Doctor].op = doc.op /\ call'[Doctor].key = DoctorKey
          /\ UNCHANGED <<bucket, orphans>>
        BY <1>0, <2>1, InvokeIs
    <2> QED
        BY <2>1, <2>2 DEF DoctorInv, DoctorDeleted
<1>8. CASE DoctorTakes
    <2>1. doc.report = "none" /\ Takes(Doctor)
        BY <1>8 DEF DoctorTakes
    <2>2. /\ call[Doctor].pc = "ended" /\ call'[Doctor].pc = "idle"
          /\ UNCHANGED <<bucket, orphans>>
        BY <1>0, <2>1, TakesIs
    <2>3. /\ doc' \in [op : Op, round : Nat, cleanup : BOOLEAN,
                       report : {"none", "ok", "failed"}]
          /\ doc'.cleanup = doc.cleanup
          /\ doc'.op = "delete" => doc'.cleanup
          /\ doc'.report = "ok" /\ doc.cleanup => doc.op = "delete"
          /\ doc'.report # "failed" => call[Doctor].out = "success"
        BY <1>8, <2>1, DoctorAdvances
    <2>4. DoctorDeleted' => DoctorDeleted
        BY <2>2, <2>3 DEF DoctorDeleted
    <2>5. \A r \in orphans : r.op = "put" /\ r.key = DoctorKey => doc'.report = "failed"
        BY <2>1, <2>2, <2>3 DEF DoctorInv
    <2> QED
        BY <2>2, <2>3, <2>4, <2>5 DEF DoctorInv
<1>9. CASE CleanStart
    BY <1>1, <1>9 DEF CleanStart
<1>10. CASE CleanupStep
    <2>1. CASE CleanCall
        <3>1. Others(Cleaner) /\ UNCHANGED <<bucket, orphans>>
            BY <1>0, <2>1, InvokeIs DEF CleanCall
        <3>2. doc' = doc
            BY <2>1 DEF CleanCall
        <3> QED
            BY <1>2, <3>1, <3>2
    <2>2. CASE CleanListed \/ CleanDeleted
        <3>1. Takes(Cleaner) /\ doc' = doc
            BY <2>2 DEF CleanListed, CleanDeleted
        <3>2. Others(Cleaner) /\ UNCHANGED <<bucket, orphans>>
            BY <1>0, <3>1, TakesIs
        <3> QED
            BY <1>2, <3>1, <3>2
    <2> QED
        BY <1>10, <2>1, <2>2 DEF CleanupStep
<1>11. CASE TunnelStep
    <2>1. ASSUME NEW op, NEW key, TunnelCall(op, key) PROVE DoctorInv'
        <3>1. Others(Tunnel) /\ UNCHANGED <<bucket, orphans>>
            BY <1>0, <2>1, InvokeIs DEF TunnelCall
        <3> QED
            BY <1>2, <2>1, <3>1 DEF TunnelCall
    <2>2. CASE TunnelTakes
        <3>1. Others(Tunnel) /\ UNCHANGED <<bucket, orphans>>
            BY <1>0, <2>2, TakesIs DEF TunnelTakes
        <3> QED
            BY <1>2, <2>2, <3>1 DEF TunnelTakes
    <2> QED
        BY <1>11, <2>1, <2>2 DEF TunnelStep
<1>12. CASE UNCHANGED cleanupVars
    BY <1>12 DEF cleanupVars, DoctorInv, DoctorDeleted
<1> QED
    BY <1>4, <1>5, <1>6, <1>7, <1>8, <1>9, <1>10, <1>11, <1>12
    DEF CleanupNext, DoctorStep, ServiceStep

(* No call has been made at first.                                         *)
LEMMA CleanupInitial == CleanupInit => CleanupInv
<1> SUFFICES ASSUME CleanupInit PROVE CleanupInv
    OBVIOUS
<1>0. /\ Caller = {Cleaner, Doctor, Tunnel} /\ DoctorKey \in Key
    BY CleanupAssumption
<1>1. /\ call = [c \in Caller |-> Idle] /\ orphans = {} /\ stale = {}
      /\ bucket = [k \in Key \ {DoctorKey} |-> 0]
      /\ clean = [pc |-> "off", page |-> {}]
      /\ \E cleanup \in BOOLEAN :
            doc = [op |-> "put", round |-> 1, cleanup |-> cleanup, report |-> "none"]
    BY DEF CleanupInit, StoreInit
<1>2. \A c \in Caller : call[c].pc = "idle"
    BY <1>1 DEF Idle
<1>3. RequestInv
    BY <1>1, <1>2 DEF RequestInv
<1>4. CleanInv
    BY <1>0, <1>1, <1>2 DEF CleanInv
<1>5. DoctorInv
    BY <1>0, <1>1, <1>2 DEF DoctorInv, DoctorDeleted, Op
<1> QED
    BY <1>3, <1>4, <1>5 DEF CleanupInv

(* The invariant holds for every set of keys, page size and number of      *)
(* failures.                                                               *)
LEMMA CleanupInvariant == CleanupSpec => []CleanupInv
<1>1. CleanupInv /\ [CleanupNext]_cleanupVars => CleanupInv'
    BY RequestInductive, CleanInductive, DoctorInductive, Zenon DEF CleanupInv
<1> QED
    BY <1>1, CleanupInitial, PTL DEF CleanupSpec

(* DeletePrefix that returns without an error has left nothing behind that *)
(* was there when it started and was not written since.                    *)
THEOREM DeletePrefixIsComplete == CleanupSpec => []CleanupComplete
<1>1. CleanupInv => CleanupComplete
    BY DEF CleanupInv, CleanInv, CleanupComplete
<1> QED
    BY <1>1, CleanupInvariant, PTL

(* A doctor that reports success with --cleanup has left no object in the  *)
(* bucket and no request that could still bring it back.                   *)
THEOREM DoctorLeavesNothing == CleanupSpec => []DoctorHonest
<1>1. CleanupInv => DoctorHonest
    <2> SUFFICES ASSUME CleanupInv, doc.report = "ok", doc.cleanup
                 PROVE  /\ DoctorKey \notin DOMAIN bucket
                        /\ \A r \in orphans : r.key = DoctorKey => r.op # "put"
        BY DEF DoctorHonest
    <2>1. call[Doctor].pc = "idle"
        BY DEF CleanupInv, DoctorInv
    <2> QED
        BY <2>1 DEF CleanupInv, DoctorInv, DoctorDeleted
<1> QED
    BY <1>1, CleanupInvariant, PTL
=============================================================================
