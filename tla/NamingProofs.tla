---------------------------- MODULE NamingProofs ----------------------------
(***************************************************************************)
(* What the server's names and the client's reading of them have to agree  *)
(* about, for names of every length.                                       *)
(***************************************************************************)
EXTENDS Naming, SequenceTheorems, TLAPS

(* No valid segment is unsafe on disk: not empty, no "." or "..", and free of
   the characters that the client refuses (lib.rs, TargetPath::parse). *)
LEMMA SegmentIsSafe ==
    ASSUME CharactersDiffer, NEW s \in Segment
    PROVE  ~UnsafeSegment(s)
  <1>1. s \in Seq(Chars) /\ s # <<>> /\ s[1] \in Alnum
    BY DEF Segment, Name
  <1>2. s # <<Dot>> /\ s # <<Dot, Dot>>
    BY <1>1 DEF CharactersDiffer
  <1>3. ASSUME NEW i \in DOMAIN s
        PROVE  s[i] \notin {Backslash, Colon, Nul}
    BY DEF Segment, CharactersDiffer
  <1> QED
    BY <1>1, <1>2, <1>3 DEF UnsafeSegment

(* Nor is the platform and the architecture, joined by a hyphen. *)
LEMMA MachineIsSafe ==
    ASSUME CharactersDiffer, NEW p \in Segment, NEW a \in Segment
    PROVE  ~UnsafeSegment(p \o <<Hyphen>> \o a)
  <1> DEFINE m == p \o <<Hyphen>> \o a
  <1>1. p \in Seq(Chars) /\ a \in Seq(Chars) /\ <<Hyphen>> \in Seq(Chars)
    BY DEF Segment, Name, CharactersDiffer
  <1>2. Len(p) > 0 /\ Len(a) > 0
    BY <1>1 DEF Segment
  <1>3. /\ Len(m) = Len(p) + 1 + Len(a)
        /\ DOMAIN m = 1..Len(m)
        /\ \A i \in 1..Len(p) : m[i] = p[i]
        /\ m[Len(p) + 1] = Hyphen
        /\ \A i \in 1..Len(a) : m[Len(p) + 1 + i] = a[i]
    BY <1>1
  <1>4. m # <<>> /\ m # <<Dot>> /\ m # <<Dot, Dot>>
    BY <1>2, <1>3
  <1>5. ASSUME NEW i \in DOMAIN m
        PROVE  m[i] \notin {Backslash, Colon, Nul}
    <2>1. CASE i <= Len(p)
      <3>1. m[i] = p[i] /\ i \in DOMAIN p
        BY <2>1, <1>1, <1>3
      <3> QED BY <3>1 DEF Segment, CharactersDiffer
    <2>2. CASE i = Len(p) + 1
      BY <2>2, <1>3 DEF CharactersDiffer
    <2>3. CASE i > Len(p) + 1
      <3> DEFINE k == i - Len(p) - 1
      <3>1. k \in 1..Len(a) /\ i = Len(p) + 1 + k
        <4>1. Len(p) \in Nat /\ Len(a) \in Nat /\ i \in 1..(Len(p) + 1 + Len(a))
          BY <1>1, <1>3
        <4> HIDE DEF m
        <4> QED BY <2>3, <4>1
      <3>2. m[i] = a[k] /\ k \in DOMAIN a
        BY <3>1, <1>1, <1>3
      <3> QED BY <3>2 DEF Segment, CharactersDiffer
    <2> QED BY <2>1, <2>2, <2>3, <1>1, <1>3
  <1> QED
    BY <1>4, <1>5 DEF UnsafeSegment

(* Nor is the reserved word of a pointer, which is no Segment. *)
LEMMA PointerVersionIsSafe ==
    ASSUME CharactersDiffer, CurrentWord \in Seq(Alnum)
    PROVE  ~UnsafeSegment(PointerVersion)
  <1> DEFINE v == PointerVersion
  <1>1. CurrentWord \in Seq(Chars) /\ <<Underscore>> \in Seq(Chars)
    BY DEF CharactersDiffer
  <1>2. /\ Len(v) = Len(CurrentWord) + 1 /\ DOMAIN v = 1..Len(v)
        /\ v[1] = Underscore
        /\ \A i \in 1..Len(CurrentWord) : v[i + 1] = CurrentWord[i]
    BY <1>1 DEF PointerVersion
  <1>3. v # <<>> /\ v # <<Dot>> /\ v # <<Dot, Dot>>
    BY <1>1, <1>2 DEF CharactersDiffer
  <1>4. ASSUME NEW i \in DOMAIN v
        PROVE  v[i] \notin {Backslash, Colon, Nul}
    <2>1. CASE i = 1
      BY <2>1, <1>2 DEF CharactersDiffer
    <2>2. CASE i # 1
      <3>0. Len(CurrentWord) \in Nat /\ i \in 1..(Len(CurrentWord) + 1)
        BY <1>1, <1>2
      <3>1. i - 1 \in 1..Len(CurrentWord) /\ i = (i - 1) + 1
        BY <3>0, <2>2
      <3>2. v[i] = CurrentWord[i - 1]
        BY <3>1, <1>2
      <3>3. CurrentWord[i - 1] \in Alnum
        BY <3>1
      <3> QED
        BY <3>2, <3>3 DEF CharactersDiffer
    <2> QED
      BY <2>1, <2>2
  <1> QED
    BY <1>3, <1>4 DEF UnsafeSegment

(* Every path that the server can publish is one that the client can use: what a
   key of a release renders to, and the path of a channel's pointer, are accepted by
   TargetPath::parse. *)
THEOREM PublishedPathsParse ==
    ASSUME CharactersDiffer, Channels \subseteq Segment, CurrentWord \in Seq(Alnum),
           NEW key \in TargetKey, NEW channel \in ChannelKey, NEW file \in Segment
    PROVE  Parses(Path(key)) /\ Parses(PointerPath(channel, file))
  <1>1. ASSUME NEW v, ~UnsafeSegment(v), NEW f \in Segment, NEW c \in ChannelKey
        PROVE  Parses(<<c.app_id, c.channel, Machine(c), v, f>>)
    <2>1. /\ c.app_id \in Segment /\ c.channel \in Segment
          /\ c.platform \in Segment /\ c.arch \in Segment
      BY DEF ChannelKey
    <2>2. ~UnsafeSegment(c.app_id) /\ ~UnsafeSegment(c.channel) /\ ~UnsafeSegment(f)
      BY <2>1, SegmentIsSafe
    <2>3. ~UnsafeSegment(Machine(c))
      BY <2>1, MachineIsSafe DEF Machine
    <2> DEFINE p == <<c.app_id, c.channel, Machine(c), v, f>>
    <2>4. /\ Len(p) = 5 /\ DOMAIN p = 1..5
          /\ p[1] = c.app_id /\ p[2] = c.channel /\ p[3] = Machine(c)
          /\ p[4] = v /\ p[5] = f
      OBVIOUS
    <2> HIDE DEF p
    <2>5. ASSUME NEW i \in 1..5 PROVE ~UnsafeSegment(p[i])
      BY <1>1, <2>2, <2>3, <2>4
    <2>6. Parses(p)
      BY <2>4, <2>5 DEF Parses
    <2> QED
      BY <2>6 DEF p
  <1> DEFINE c == [app_id |-> key.app_id, channel |-> key.channel,
                   platform |-> key.platform, arch |-> key.arch]
  <1>2. c \in ChannelKey /\ key.version \in Segment /\ key.filename \in Segment
    BY DEF ChannelKey, TargetKey
  <1>3. Path(key) = <<c.app_id, c.channel, Machine(c), key.version, key.filename>>
    BY DEF Path, Machine
  <1>4. Parses(Path(key))
    <2>1. ~UnsafeSegment(key.version)
      BY <1>2, SegmentIsSafe
    <2> HIDE DEF c
    <2> QED
      BY <2>1, <1>1, <1>2, <1>3
  <1>5. Parses(PointerPath(channel, file))
    BY <1>1, PointerVersionIsSafe DEF PointerPath
  <1> QED
    BY <1>4, <1>5

(* The first slash ends the first segment: a string is split in one way. *)
LEMMA SplitIsUnique ==
    ASSUME CharactersDiffer, NEW a \in Name, NEW b \in Name,
           NEW s \in String, NEW t \in String, Before(a, s) = Before(b, t)
    PROVE  a = b /\ s = t
  <1> DEFINE l == Before(a, s)
             r == Before(b, t)
  <1>1. /\ a \in Seq(Chars \cup {Slash}) /\ b \in Seq(Chars \cup {Slash})
        /\ <<Slash>> \in Seq(Chars \cup {Slash})
        /\ s \in Seq(Chars \cup {Slash}) /\ t \in Seq(Chars \cup {Slash})
    BY DEF Name, String
  <1>2. /\ Len(l) = Len(a) + 1 + Len(s)
        /\ \A i \in 1..Len(a) : l[i] = a[i]
        /\ l[Len(a) + 1] = Slash
        /\ \A i \in 1..Len(s) : l[Len(a) + 1 + i] = s[i]
    BY <1>1 DEF Before
  <1>3. /\ Len(r) = Len(b) + 1 + Len(t)
        /\ \A i \in 1..Len(b) : r[i] = b[i]
        /\ r[Len(b) + 1] = Slash
        /\ \A i \in 1..Len(t) : r[Len(b) + 1 + i] = t[i]
    BY <1>1 DEF Before
  <1>4. l = r
    OBVIOUS
  <1> HIDE DEF l, r
  <1>5. /\ Len(a) \in Nat /\ Len(b) \in Nat /\ Len(s) \in Nat /\ Len(t) \in Nat
        /\ \A i \in 1..Len(a) : a[i] # Slash
        /\ \A i \in 1..Len(b) : b[i] # Slash
    BY DEF Name, String, CharactersDiffer
  <1>6. Len(a) = Len(b)
    <2>1. ~(Len(a) < Len(b))
      <3>1. SUFFICES ASSUME Len(a) < Len(b) PROVE FALSE
        OBVIOUS
      <3>2. Len(a) + 1 \in 1..Len(b)
        BY <3>1, <1>5
      <3> QED
        BY <3>2, <1>2, <1>3, <1>4, <1>5
    <2>2. ~(Len(b) < Len(a))
      <3>1. SUFFICES ASSUME Len(b) < Len(a) PROVE FALSE
        OBVIOUS
      <3>2. Len(b) + 1 \in 1..Len(a)
        BY <3>1, <1>5
      <3> QED
        BY <3>2, <1>2, <1>3, <1>4, <1>5
    <2> QED
      BY <2>1, <2>2, <1>5
  <1>7. Len(s) = Len(t)
    BY <1>2, <1>3, <1>4, <1>5, <1>6
  <1>8. \A i \in 1..Len(a) : a[i] = b[i]
    BY <1>2, <1>3, <1>4, <1>6
  <1>9. \A i \in 1..Len(s) : s[i] = t[i]
    BY <1>2, <1>3, <1>4, <1>6, <1>7
  <1> QED
    BY <1>1, <1>6, <1>7, <1>8, <1>9, SeqEqual

LEMMA BeforeIsString ==
    ASSUME NEW a \in Name, NEW s \in String
    PROVE  Before(a, s) \in String
  <1>1. a \in Seq(Chars \cup {Slash}) /\ <<Slash>> \in Seq(Chars \cup {Slash})
    BY DEF Name
  <1> QED
    BY <1>1 DEF Before, String

(* An application's role may sign its own releases, all of them, and those of no
   other application (naming.py, app_path_pattern; PLAN.md 3.1). *)
THEOREM DelegationIsExact ==
    ASSUME NEW key \in TargetKey, NEW app \in Segment
    PROVE  Matches(AppPathPattern(app), Path(key)) <=> app = key.app_id
  <1>1. Path(key) = <<key.app_id, key.channel, Machine(key), key.version, key.filename>>
    BY DEF Path
  <1>2. app # Wildcard
    BY DEF Segment, Wildcard
  <1> DEFINE q == AppPathPattern(app)
             p == Path(key)
  <1>3. q = <<app, Wildcard, Wildcard, Wildcard, Wildcard>>
    BY DEF AppPathPattern
  <1> HIDE DEF p, q
  <1>4. Len(p) = Len(q) /\ DOMAIN q = 1..5 /\ q[1] = app /\ p[1] = key.app_id
    BY <1>1, <1>3 DEF p
  <1>5. \A i \in 2..5 : q[i] = Wildcard
    BY <1>3
  <1> QED
    BY <1>2, <1>4, <1>5 DEF Matches, p, q

(* The start of a path: three segments before what is left. *)
Start(path, rest) == Before(path[1], Before(path[2], Before(path[3], rest)))

LEMMA StartIsUnique ==
    ASSUME CharactersDiffer, NEW p \in [1..3 -> Name], NEW q \in [1..3 -> Name],
           NEW s \in String, NEW t \in String, Start(p, s) = Start(q, t)
    PROVE  p[1] = q[1] /\ p[2] = q[2] /\ p[3] = q[3] /\ s = t
  <1> DEFINE p3 == Before(p[3], s)
             p2 == Before(p[2], p3)
             q3 == Before(q[3], t)
             q2 == Before(q[2], q3)
  <1>1. /\ p[1] \in Name /\ p[2] \in Name /\ p[3] \in Name
        /\ q[1] \in Name /\ q[2] \in Name /\ q[3] \in Name
    OBVIOUS
  <1>2. p3 \in String /\ q3 \in String
    BY <1>1, BeforeIsString
  <1>3. p2 \in String /\ q2 \in String
    <2> HIDE DEF p3, q3
    <2> QED BY <1>1, <1>2, BeforeIsString
  <1>4. p[1] = q[1] /\ p2 = q2
    <2>1. Before(p[1], p2) = Before(q[1], q2)
      BY DEF Start
    <2> HIDE DEF p2, q2
    <2> QED BY <2>1, <1>1, <1>3, SplitIsUnique
  <1>5. p[2] = q[2] /\ p3 = q3
    <2>1. Before(p[2], p3) = Before(q[2], q3)
      BY <1>4
    <2> HIDE DEF p3, q3
    <2> QED BY <2>1, <1>1, <1>2, SplitIsUnique
  <1>6. p[3] = q[3] /\ s = t
    BY <1>1, <1>5, SplitIsUnique
  <1> QED
    BY <1>4, <1>5, <1>6

(* startswith, in terms of concatenation. *)
LEMMA StartsWithIsConcatenation ==
    ASSUME NEW s \in String, NEW p \in String
    PROVE  StartsWith(s, p) <=> \E u \in String : s = p \o u
  <1> DEFINE All == Chars \cup {Slash}
  <1>1. ASSUME StartsWith(s, p) PROVE \E u \in String : s = p \o u
    <2> DEFINE n == Len(s) - Len(p)
               u == [i \in 1..n |-> s[Len(p) + i]]
    <2>1. Len(s) \in Nat /\ Len(p) \in Nat /\ Len(p) <= Len(s) /\ n \in Nat
      BY <1>1 DEF StartsWith, String
    <2>2. u \in String /\ Len(u) = n
      <3>1. \A i \in 1..n : Len(p) + i \in 1..Len(s)
        BY <2>1
      <3>2. \A i \in 1..n : s[Len(p) + i] \in All
        BY <3>1 DEF String
      <3> HIDE DEF n
      <3>3. u \in Seq(All)
        BY <2>1, <3>2, IsASeq
      <3>4. DOMAIN u = 1..n
        OBVIOUS
      <3> HIDE DEF u
      <3> QED BY <2>1, <3>3, <3>4 DEF String
    <2>3. /\ p \o u \in Seq(All)
          /\ Len(p \o u) = Len(p) + n
          /\ \A i \in 1..Len(p) : (p \o u)[i] = p[i]
          /\ \A i \in 1..n : (p \o u)[Len(p) + i] = u[i]
      <3> HIDE DEF u, n
      <3> QED BY <2>1, <2>2 DEF String
    <2>4. \A i \in 1..Len(p) : s[i] = p[i]
      BY <1>1 DEF StartsWith, String
    <2>5. Len(p \o u) = Len(s)
      BY <2>1, <2>3
    <2>6. ASSUME NEW i \in 1..Len(s) PROVE s[i] = (p \o u)[i]
      <3>1. CASE i <= Len(p)
        BY <3>1, <2>1, <2>3, <2>4
      <3>2. CASE i > Len(p)
        <4>1. i - Len(p) \in 1..n /\ i = Len(p) + (i - Len(p))
          BY <3>2, <2>1
        <4>2. u[i - Len(p)] = s[i]
          BY <4>1
        <4> HIDE DEF u, n
        <4> QED BY <4>1, <4>2, <2>3
      <3> QED BY <3>1, <3>2, <2>1
    <2> HIDE DEF u, n
    <2>7. s = p \o u
      BY <2>3, <2>5, <2>6, SeqEqual DEF String
    <2> QED BY <2>2, <2>7
  <1>2. ASSUME NEW u \in String, s = p \o u PROVE StartsWith(s, p)
    BY <1>2 DEF StartsWith, String
  <1> QED BY <1>1, <1>2

LEMMA MachineIsName ==
    ASSUME CharactersDiffer, NEW p \in Segment, NEW a \in Segment
    PROVE  p \o <<Hyphen>> \o a \in Name
  <1>1. p \in Seq(Chars) /\ a \in Seq(Chars) /\ <<Hyphen>> \in Seq(Chars)
    BY DEF Segment, Name, CharactersDiffer
  <1> QED BY <1>1 DEF Name

(* A channel's first three segments. *)
Head3(channel) ==
    [i \in 1..3 |-> IF i = 1 THEN channel.app_id
                    ELSE IF i = 2 THEN channel.channel ELSE Machine(channel)]

LEMMA BeforeConcatenation ==
    ASSUME NEW a \in Name, NEW s \in String, NEW u \in String
    PROVE  Before(a, s) \o u = Before(a, s \o u)
  <1> DEFINE All == Chars \cup {Slash}
             t == <<Slash>> \o s
  <1>1. a \in Seq(All) /\ <<Slash>> \in Seq(All) /\ s \in Seq(All) /\ u \in Seq(All)
    BY DEF Name, String
  <1>2. t \in Seq(All)
    BY <1>1
  <1>3. t \o u = <<Slash>> \o (s \o u)
    BY <1>1, ConcatAssociative
  <1> HIDE DEF t
  <1>4. (a \o t) \o u = a \o (t \o u)
    BY <1>1, <1>2, ConcatAssociative
  <1> QED
    BY <1>3, <1>4, Zenon DEF Before, t

LEMMA PrefixIsStart ==
    ASSUME CharactersDiffer, Channels \subseteq Segment, NEW channel \in ChannelKey
    PROVE  /\ Head3(channel) \in [1..3 -> Name]
           /\ Prefix(channel) \in String
           /\ \A u \in String : Prefix(channel) \o u = Start(Head3(channel), u)
  <1> DEFINE a == channel.app_id
             c == channel.channel
             m == Machine(channel)
             p3 == Before(m, <<>>)
             p2 == Before(c, p3)
  <1>1. a \in Name /\ c \in Name /\ m \in Name /\ <<>> \in String
    BY MachineIsName DEF ChannelKey, Segment, Machine, String
  <1>2. Head3(channel) \in [1..3 -> Name]
    BY <1>1 DEF Head3
  <1>3. Head3(channel)[1] = a /\ Head3(channel)[2] = c /\ Head3(channel)[3] = m
    BY DEF Head3
  <1>4. Prefix(channel) = Before(a, p2)
    BY DEF Prefix
  <1> HIDE DEF a, c, m
  <1>5. p3 \in String
    BY <1>1, BeforeIsString
  <1>6. ASSUME NEW u \in String PROVE p3 \o u = Before(m, u)
    <2>1. <<>> \o u = u
      BY ConcatEmptySeq DEF String
    <2>2. p3 \o u = Before(m, <<>> \o u)
      BY <1>1, BeforeConcatenation
    <2> QED BY <2>1, <2>2
  <1> HIDE DEF p3
  <1>7. p2 \in String /\ \A u \in String : p2 \o u = Before(c, p3 \o u)
    BY <1>1, <1>5, BeforeIsString, BeforeConcatenation
  <1> HIDE DEF p2
  <1>8. Before(a, p2) \in String /\ \A u \in String : Before(a, p2) \o u = Before(a, p2 \o u)
    BY <1>1, <1>7, BeforeIsString, BeforeConcatenation
  <1>9. ASSUME NEW u \in String PROVE Prefix(channel) \o u = Start(Head3(channel), u)
    <2>1. Prefix(channel) \o u = Before(a, Before(c, Before(m, u)))
      BY <1>4, <1>6, <1>7, <1>8
    <2> QED BY <2>1, <1>3 DEF Start
  <1> QED
    BY <1>2, <1>4, <1>8, <1>9

(* The string of a path, by its first three segments. *)
LEMMA JoinedIsStart ==
    ASSUME NEW path \in [1..5 -> Name]
    PROVE  /\ [i \in 1..3 |-> path[i]] \in [1..3 -> Name]
           /\ Before(path[4], path[5]) \in String
           /\ Joined(path) \in String
           /\ Joined(path) = Start([i \in 1..3 |-> path[i]], Before(path[4], path[5]))
  <1>1. path[5] \in String
    BY DEF Name, String
  <1>2. Before(path[4], path[5]) \in String
    BY <1>1, BeforeIsString
  <1>3. Before(path[3], Before(path[4], path[5])) \in String
    BY <1>2, BeforeIsString
  <1>4. Before(path[2], Before(path[3], Before(path[4], path[5]))) \in String
    BY <1>3, BeforeIsString
  <1>5. Joined(path) \in String
    BY <1>4, BeforeIsString DEF Joined
  <1> QED
    BY <1>2, <1>5 DEF Joined, Start

(* What passes for a channel's is the channel's: a string that startswith lets
   through, whatever a pointer holds, is split into segments of which the first are
   the application, the channel and the machine, so that no role but the
   application's own may have signed it; and nothing of the channel's is refused
   (naming.py, ChannelKey.covers; update.py, run). *)
THEOREM PointersStayInTheirChannel ==
    ASSUME CharactersDiffer, Channels \subseteq Segment,
           NEW channel \in ChannelKey, NEW path \in [1..5 -> Name]
    PROVE  /\ Covers(channel, Joined(path))
                <=> /\ path[1] = channel.app_id
                    /\ path[2] = channel.channel
                    /\ path[3] = Machine(channel)
           /\ \A app \in Segment :
                Covers(channel, Joined(path)) /\ Matches(AppPathPattern(app), path)
                    => app = channel.app_id
  <1> DEFINE h == Head3(channel)
             p == [i \in 1..3 |-> path[i]]
             rest == Before(path[4], path[5])
  <1>1. /\ p \in [1..3 -> Name] /\ rest \in String
        /\ Joined(path) \in String /\ Joined(path) = Start(p, rest)
    BY JoinedIsStart
  <1>2. /\ h \in [1..3 -> Name] /\ Prefix(channel) \in String
        /\ \A u \in String : Prefix(channel) \o u = Start(h, u)
    BY PrefixIsStart
  <1>3. Covers(channel, Joined(path)) <=> \E u \in String : Start(p, rest) = Start(h, u)
    <2> HIDE DEF h, p, rest
    <2>1. Covers(channel, Joined(path))
            <=> \E u \in String : Joined(path) = Prefix(channel) \o u
      BY <1>1, <1>2, StartsWithIsConcatenation DEF Covers
    <2> QED BY <2>1, <1>1, <1>2
  <1>4. (\E u \in String : Start(p, rest) = Start(h, u))
            <=> p[1] = h[1] /\ p[2] = h[2] /\ p[3] = h[3]
    <2> HIDE DEF h, p, rest
    <2>1. ASSUME NEW u \in String, Start(p, rest) = Start(h, u)
          PROVE  p[1] = h[1] /\ p[2] = h[2] /\ p[3] = h[3]
      BY <2>1, <1>1, <1>2, StartIsUnique
    <2>2. ASSUME p[1] = h[1], p[2] = h[2], p[3] = h[3]
          PROVE  Start(p, rest) = Start(h, rest)
      BY <2>2 DEF Start
    <2> QED BY <2>1, <2>2, <1>1
  <1>5. /\ p[1] = path[1] /\ p[2] = path[2] /\ p[3] = path[3]
        /\ h[1] = channel.app_id /\ h[2] = channel.channel /\ h[3] = Machine(channel)
    BY DEF Head3
  <1>6. ASSUME NEW app \in Segment, path[1] = channel.app_id,
               Matches(AppPathPattern(app), path)
        PROVE  app = channel.app_id
    <2> DEFINE q == AppPathPattern(app)
    <2>1. DOMAIN q = 1..5 /\ q[1] = app
      BY DEF AppPathPattern
    <2>2. app # Wildcard
      BY DEF Segment, Wildcard
    <2> HIDE DEF q
    <2> QED BY <1>6, <2>1, <2>2 DEF Matches, q
  <1> HIDE DEF h, p, rest
  <1> QED
    BY <1>3, <1>4, <1>5, <1>6

(* No release takes the place of a channel's pointer: "a release therefore cannot
   shadow the pointer and the pointer cannot shadow a release" (naming.py): their
   strings differ, though a segment may hold dots, hyphens and underscores. *)
THEOREM PointerIsReserved ==
    ASSUME CharactersDiffer, Channels \subseteq Segment, CurrentWord \in Seq(Alnum),
           NEW key \in TargetKey, NEW channel \in ChannelKey, NEW file \in Segment
    PROVE  Joined(Path(key)) # Joined(PointerPath(channel, file))
  <1> DEFINE p == Path(key)
             q == PointerPath(channel, file)
  <1>1. /\ p \in [1..5 -> Name] /\ p[4] = key.version
    <2>1. /\ key.app_id \in Name /\ key.channel \in Name /\ key.version \in Name
          /\ key.filename \in Name /\ Machine(key) \in Name
      BY MachineIsName DEF TargetKey, Segment, Machine
    <2> QED BY <2>1 DEF Path
  <1>2. /\ q \in [1..5 -> Name] /\ q[4] = PointerVersion
    <2>1. PointerVersion \in Name
      <3>1. CurrentWord \in Seq(Chars) /\ <<Underscore>> \in Seq(Chars)
        BY DEF CharactersDiffer
      <3> QED BY <3>1 DEF PointerVersion, Name
    <2>2. /\ channel.app_id \in Name /\ channel.channel \in Name
          /\ file \in Name /\ Machine(channel) \in Name
      BY MachineIsName DEF ChannelKey, Segment, Machine
    <2> QED BY <2>1, <2>2 DEF PointerPath
  <1>3. key.version # PointerVersion
    <2>1. key.version[1] \in Alnum
      BY DEF TargetKey, Segment
    <2>2. PointerVersion[1] = Underscore
      <3>1. CurrentWord \in Seq(Chars) /\ <<Underscore>> \in Seq(Chars)
        BY DEF CharactersDiffer
      <3> QED BY <3>1 DEF PointerVersion
    <2> QED BY <2>1, <2>2 DEF CharactersDiffer
  <1> HIDE DEF p, q
  <1>4. SUFFICES ASSUME Joined(p) = Joined(q) PROVE FALSE
    BY DEF p, q
  <1> DEFINE p3 == [i \in 1..3 |-> p[i]]
             q3 == [i \in 1..3 |-> q[i]]
             s == Before(p[4], p[5])
             t == Before(q[4], q[5])
  <1>5. /\ p3 \in [1..3 -> Name] /\ s \in String /\ Joined(p) = Start(p3, s)
        /\ q3 \in [1..3 -> Name] /\ t \in String /\ Joined(q) = Start(q3, t)
    BY <1>1, <1>2, JoinedIsStart
  <1>6. s = t
    <2> HIDE DEF p3, q3, s, t
    <2>1. Start(p3, s) = Start(q3, t)
      BY <1>4, <1>5
    <2> QED BY <2>1, <1>5, StartIsUnique
  <1>7. p[4] = q[4]
    <2>1. /\ p[4] \in Name /\ q[4] \in Name /\ p[5] \in String /\ q[5] \in String
      BY <1>1, <1>2 DEF Name, String
    <2> QED BY <1>6, <2>1, SplitIsUnique
  <1> QED
    BY <1>1, <1>2, <1>3, <1>7

(* What the client reads of a release is what was signed: the two sides agree on
   the keys, and on what it means that one is absent (naming.py, to_custom;
   verifier.rs, release_info). *)
THEOREM DescriptionsSurvive ==
    ASSUME NEW info \in ReleaseInfo
    PROVE  ReadCustom(ToCustom(info)) = info
  <1> DEFINE c == ToCustom(info)
  <1>1. DOMAIN c = {"version", "mandatory", "rollout_pct"}
                      \cup {k \in Optional : info[k] # Absent}
    BY DEF ToCustom
  <1>2. \A k \in DOMAIN c : c[k] = info[k]
    BY DEF ToCustom
  <1>3. \A k \in Optional : Entry(c, k, Absent) = info[k]
    BY <1>1, <1>2 DEF Entry, Optional
  <1>4. /\ c["version"] = info.version
        /\ Entry(c, "mandatory", FALSE) = info.mandatory
        /\ Entry(c, "rollout_pct", 100) = info.rollout_pct
    BY <1>1, <1>2 DEF Entry
  <1> HIDE DEF c
  <1> QED
    BY <1>3, <1>4 DEF ReadCustom, ReleaseInfo, Optional, c

(* A byte appended to a number that is below a bound. *)
LEMMA AppendByte ==
    ASSUME NEW n \in Nat, NEW bound \in Nat, n < bound, NEW b \in 0..255
    PROVE  n * 256 + b \in Nat /\ bound * 256 \in Nat /\ n * 256 + b < bound * 256
  BY SMT

(* Four bytes are a number that 32 bits hold. *)
LEMMA FourBytes ==
    ASSUME NEW d \in Digest
    PROVE  FromBytes(d) \in Nat /\ FromBytes(d) < 256 * 256 * 256 * 256
  <1> DEFINE n2 == d[1] * 256 + d[2]
             n3 == n2 * 256 + d[3]
             n4 == n3 * 256 + d[4]
             w2 == 256 * 256
             w3 == w2 * 256
             w4 == w3 * 256
  <1>1. d[1] \in 0..255 /\ d[2] \in 0..255 /\ d[3] \in 0..255 /\ d[4] \in 0..255
    BY DEF Digest
  <1>2. d[1] \in Nat /\ 256 \in Nat /\ d[1] < 256
    BY <1>1
  <1>3. n2 \in Nat /\ w2 \in Nat /\ n2 < w2
    BY <1>1, <1>2, AppendByte
  <1> HIDE DEF n2, w2
  <1>4. n3 \in Nat /\ w3 \in Nat /\ n3 < w3
    BY <1>1, <1>3, AppendByte
  <1> HIDE DEF n3, w3
  <1>5. n4 \in Nat /\ w4 \in Nat /\ n4 < w4
    BY <1>1, <1>4, AppendByte
  <1>6. FromBytes(d) = n4
    BY Zenon DEF FromBytes, n2, n3
  <1>7. w4 = 256 * 256 * 256 * 256
    BY Zenon DEF w2, w3
  <1> HIDE DEF n4, w4
  <1> QED
    BY <1>5, <1>6, <1>7, Zenon

(* The server's reference and the client agree on every digest and percentage: if
   "the two disagree, a staged rollout either stalls or overshoots" (rollout.rs). *)
THEOREM RolloutsAgree ==
    ASSUME U32 \in Nat, U32 = 256 * 256 * 256 * 256, NEW d \in Digest, NEW pct \in 0..100
    PROVE  InRollout(d, pct) <=> InRolloutClient(d, pct)
  <1>1. FromBytes(d) \in Nat /\ FromBytes(d) < U32
    BY FourBytes, Zenon
  <1>2. FromBytes(d) % U32 = FromBytes(d)
    BY <1>1, SMT
  <1> QED
    BY <1>2 DEF InRollout, InRolloutClient, FromBeBytes

(* Raising the percentage of a release takes it from no install that had it, none
   has it at 0 and all have it at 100 (naming.py, in_rollout). *)
THEOREM RolloutsGrow ==
    ASSUME NEW d \in Digest, NEW p \in 0..100, NEW q \in 0..100, p <= q
    PROVE  /\ InRollout(d, p) => InRollout(d, q)
           /\ ~InRollout(d, 0)
           /\ InRollout(d, 100)
  <1>1. FromBytes(d) \in Nat
    BY FourBytes, Zenon
  <1>2. FromBytes(d) % 100 \in 0..99
    BY <1>1
  <1> QED
    BY <1>2 DEF InRollout

(* An application never goes back and forth between two versions: is_newer is an
   order, whatever the lengths of the versions (update.py, is_newer). *)
THEOREM NewerIsAnOrder ==
    ASSUME NEW a \in Numbers, NEW b \in Numbers, NEW c \in Numbers,
           IsNewer(a, b)
    PROVE  /\ ~IsNewer(b, a)
           /\ IsNewer(b, c) => IsNewer(a, c)
  <1> DEFINE Witness(x, y, i) ==
               /\ i \in DOMAIN x
               /\ \A j \in 1..(i - 1) : j \in DOMAIN y /\ x[j] = y[j]
               /\ i \in DOMAIN y => x[i] > y[i]
  <1>0. /\ DOMAIN a = 1..Len(a) /\ DOMAIN b = 1..Len(b) /\ DOMAIN c = 1..Len(c)
        /\ Len(a) \in Nat /\ Len(b) \in Nat /\ Len(c) \in Nat
        /\ \A i \in DOMAIN a : a[i] \in Nat
        /\ \A i \in DOMAIN b : b[i] \in Nat
        /\ \A i \in DOMAIN c : c[i] \in Nat
    BY DEF Numbers
  <1>1. PICK i : Witness(a, b, i)
    BY DEF IsNewer
  <1>2. ~IsNewer(b, a)
    <2> SUFFICES ASSUME NEW k, Witness(b, a, k) PROVE FALSE
      BY DEF IsNewer
    <2> QED BY <1>0, <1>1
  <1>3. ASSUME IsNewer(b, c) PROVE IsNewer(a, c)
    <2>1. PICK k : Witness(b, c, k)
      BY <1>3 DEF IsNewer
    <2>2. /\ i \in 1..Len(a) /\ \A j \in 1..(i - 1) : j \in 1..Len(b) /\ a[j] = b[j]
          /\ i \in 1..Len(b) => a[i] > b[i]
      BY <1>0, <1>1
    <2>3. /\ k \in 1..Len(b) /\ \A j \in 1..(k - 1) : j \in 1..Len(c) /\ b[j] = c[j]
          /\ k \in 1..Len(c) => b[k] > c[k]
      BY <1>0, <2>1
    <2>4. i \in DOMAIN a /\ (k \in 1..Len(a) => k \in DOMAIN a)
      BY <1>0, <2>2
    <2>5. ASSUME NEW n, \A j \in 1..(n - 1) : j \in 1..Len(c) /\ a[j] = c[j],
                 n \in DOMAIN a, n \in 1..Len(c) => a[n] > c[n]
          PROVE  IsNewer(a, c)
      <3>1. Witness(a, c, n)
        BY <1>0, <2>5
      <3> QED
        BY <3>1 DEF IsNewer
    <2>6. CASE i < k
      <3>1. i \in 1..(k - 1) /\ i \in 1..Len(b)
        BY <1>0, <2>2, <2>3, <2>6
      <3>2. i \in 1..Len(c) /\ b[i] = c[i] /\ a[i] > b[i]
        BY <2>2, <2>3, <3>1
      <3>3. ASSUME NEW j \in 1..(i - 1) PROVE j \in 1..Len(c) /\ a[j] = c[j]
        <4>1. j \in 1..(k - 1)
          BY <1>0, <2>2, <2>3, <2>6, <3>3
        <4> QED
          BY <2>2, <2>3, <3>3, <4>1
      <3> QED
        BY <2>4, <2>5, <3>2, <3>3
    <2>7. CASE i = k
      <3>1. a[i] > b[i] /\ (i \in 1..Len(c) => b[i] > c[i]) /\ a[i] \in Nat /\ b[i] \in Nat
        BY <1>0, <2>2, <2>3, <2>7
      <3>2. i \in 1..Len(c) => a[i] > c[i]
        <4>1. i \in 1..Len(c) => c[i] \in Nat
          BY <1>0
        <4> QED
          BY <3>1, <4>1
      <3>3. \A j \in 1..(i - 1) : j \in 1..Len(c) /\ a[j] = c[j]
        BY <2>2, <2>3, <2>7
      <3> QED
        BY <2>4, <2>5, <3>2, <3>3
    <2>8. CASE i > k
      <3>1. k \in 1..(i - 1)
        BY <1>0, <2>2, <2>3, <2>8
      <3>2. k \in 1..Len(a) /\ a[k] = b[k]
        BY <1>0, <2>2, <3>1
      <3>3. ASSUME NEW j \in 1..(k - 1) PROVE j \in 1..Len(c) /\ a[j] = c[j]
        <4>1. j \in 1..(i - 1)
          BY <1>0, <2>2, <2>3, <2>8, <3>3
        <4> QED
          BY <2>2, <2>3, <3>3, <4>1
      <3> QED
        BY <2>4, <2>5, <2>3, <3>2, <3>3
    <2> QED BY <1>0, <2>2, <2>3, <2>6, <2>7, <2>8
  <1> QED BY <1>2, <1>3
=============================================================================
