--------------------------- MODULE VerifierProofs ---------------------------
(***************************************************************************)
(* Theorems about Verifier, for any releases, lifetimes and number of      *)
(* publications, and for a host that makes its calls in any order with     *)
(* files of any age.                                                       *)
(***************************************************************************)
EXTENDS Verifier, TLAPS

USE VerifierAssumption

LEMMA MaxOfTwo ==
    ASSUME NEW a \in Nat, NEW b \in Nat
    PROVE  Max({a, b}) = IF a >= b THEN a ELSE b
  BY DEF Max

LEMMA LastIs ==
    ASSUME NEW S, NEW s \in Seq(S), s # <<>>
    PROVE  Last(s) = s[Len(s)] /\ Last(s) \in S
  BY DEF Last

LEMMA IsMember ==
    ASSUME NEW S, NEW s \in Seq(S), NEW i \in 1..Len(s)
    PROVE  s[i] \in ToSet(s)
  BY DEF ToSet

LEMMA MemberOf ==
    ASSUME NEW S, NEW s \in Seq(S), NEW x \in ToSet(s)
    PROVE  \E i \in 1..Len(s) : x = s[i]
  BY DEF ToSet

LEMMA Appended ==
    ASSUME NEW S, NEW s \in Seq(S), NEW x \in S
    PROVE  /\ Append(s, x) \in Seq(S)
           /\ Len(Append(s, x)) = Len(s) + 1
           /\ \A i \in 1..Len(s) : Append(s, x)[i] = s[i]
           /\ Append(s, x)[Len(s) + 1] = x
  OBVIOUS

-----------------------------------------------------------------------------
(* What was published.  Files are numbered in the order of their publication, a
   timestamp names the snapshot of its number, and what snapshots name only grows,
   up to the newest files. *)

Timestamps == Seq([version: Nat, expires: Nat, snapshot: Nat])
Snapshots == Seq([version: Nat, expires: Nat, targets: Nat, app: Nat])
Targetses == Seq([version: Nat, expires: Nat])
Apps == Seq([version: Nat, expires: Nat, release: {0} \cup Releases])

Numbered(s) == \A i \in 1..Len(s) : s[i].version = i
Names(timestamp) == \A i \in 1..Len(timestamp) : timestamp[i].snapshot = i
Within(snapshot, targets, app) ==
    \A i \in 1..Len(snapshot) :
        snapshot[i].targets \in 1..Len(targets) /\ snapshot[i].app \in 0..Len(app)
Grows(snapshot) ==
    \A i \in 1..Len(snapshot) : \A j \in i..Len(snapshot) :
        snapshot[i].targets <= snapshot[j].targets /\ snapshot[i].app <= snapshot[j].app
Tip(snapshot, targets, app) ==
    /\ Len(snapshot) > 0
    /\ snapshot[Len(snapshot)].targets = Len(targets)
    /\ snapshot[Len(snapshot)].app = Len(app)

Chain ==
    /\ Numbered(published.timestamp) /\ Numbered(published.snapshot)
    /\ Numbered(published.targets) /\ Numbered(published.app)
    /\ Names(published.timestamp)
    /\ Len(published.timestamp) = Len(published.snapshot)
    /\ Within(published.snapshot, published.targets, published.app)
    /\ Grows(published.snapshot)
    /\ Tip(published.snapshot, published.targets, published.app)

LEMMA NumberedAppend ==
    ASSUME NEW S, NEW s \in Seq(S), NEW x \in S, Numbered(s), x.version = Len(s) + 1
    PROVE  Numbered(Append(s, x))
  BY Appended DEF Numbered

LEMMA NamesAppend ==
    ASSUME NEW S, NEW s \in Seq(S), NEW x \in S, Names(s), x.snapshot = Len(s) + 1
    PROVE  Names(Append(s, x))
  BY Appended DEF Names

LEMMA SnapshotsAppend ==
    ASSUME NEW snapshot \in Snapshots, NEW targets, NEW app, NEW targets2, NEW app2,
           Len(targets) \in Nat, Len(app) \in Nat, Len(targets2) \in Nat, Len(app2) \in Nat,
           Len(targets) > 0, Len(targets) <= Len(targets2), Len(app) <= Len(app2),
           Within(snapshot, targets, app), Grows(snapshot), Tip(snapshot, targets, app),
           NEW x \in [version: Nat, expires: Nat, targets: Nat, app: Nat],
           x.targets = Len(targets2), x.app = Len(app2)
    PROVE  /\ Within(Append(snapshot, x), targets2, app2)
           /\ Grows(Append(snapshot, x))
           /\ Tip(Append(snapshot, x), targets2, app2)
<1> DEFINE more == Append(snapshot, x)
<1>1. /\ Len(snapshot) \in Nat /\ Len(more) = Len(snapshot) + 1
      /\ \A i \in 1..Len(snapshot) : more[i] = snapshot[i]
      /\ more[Len(snapshot) + 1] = x
  BY Appended DEF Snapshots
<1> HIDE DEF more
<1>2. \A i \in 1..Len(snapshot) :
          snapshot[i].targets \in 1..Len(targets) /\ snapshot[i].app \in 0..Len(app)
  BY DEF Within
<1>3. \A i \in 1..Len(more) : i \in 1..Len(snapshot) \/ i = Len(snapshot) + 1
  BY <1>1
<1>4. Within(more, targets2, app2)
  BY <1>1, <1>2, <1>3 DEF Within
<1>5. Grows(more)
  <2> SUFFICES ASSUME NEW i \in 1..Len(more), NEW j \in i..Len(more)
               PROVE  more[i].targets <= more[j].targets /\ more[i].app <= more[j].app
    BY DEF Grows
  <2>1. CASE j \in 1..Len(snapshot)
    BY <1>1, <2>1 DEF Grows
  <2>2. CASE j = Len(snapshot) + 1
    BY <1>1, <1>4, <2>2 DEF Within
  <2> QED
    BY <1>1, <1>3, <2>1, <2>2
<1>6. Tip(more, targets2, app2)
  BY <1>1 DEF Tip
<1> QED
  BY <1>4, <1>5, <1>6 DEF more

(* A publication keeps the chain, and every file that was there stays what it is. *)
Extends(old, new) == Len(old) <= Len(new) /\ \A i \in 1..Len(old) : new[i] = old[i]

FilesType ==
    /\ published.timestamp \in Timestamps /\ published.snapshot \in Snapshots
    /\ published.targets \in Targetses /\ published.app \in Apps

LEMMA ExtendsAppend ==
    ASSUME NEW S, NEW s \in Seq(S), NEW x \in S
    PROVE  Extends(s, Append(s, x)) /\ Append(s, x) \in Seq(S)
  BY Appended DEF Extends

LEMMA FileAppended ==
    ASSUME NEW S, NEW s \in Seq(S), NEW x \in S, Numbered(s), x.version = Len(s) + 1
    PROVE  /\ Append(s, x) \in Seq(S) /\ Numbered(Append(s, x)) /\ Extends(s, Append(s, x))
           /\ Len(s) \in Nat /\ Len(Append(s, x)) = Len(s) + 1
  BY Appended, ExtendsAppend, NumberedAppend

LEMMA ExtendsSame ==
    ASSUME NEW S, NEW s \in Seq(S)
    PROVE  Extends(s, s)
  BY DEF Extends

LEMMA FilesTyped == TypeOK => FilesType
  BY DEF TypeOK, FilesType, Timestamps, Snapshots, Targetses, Apps

PublicationKeeps ==
    /\ published' \in [timestamp: Timestamps, snapshot: Snapshots, targets: Targetses, app: Apps]
    /\ Chain'
    /\ Extends(published.timestamp, published'.timestamp)
    /\ Extends(published.snapshot, published'.snapshot)
    /\ Extends(published.targets, published'.targets)
    /\ Extends(published.app, published'.app)

LEMMA ReleaseKeeps ==
    ASSUME TypeOK, Chain, NEW n \in Releases, PublishRelease(n)
    PROVE  PublicationKeeps
<1> DEFINE v == Len(published.app) + 1
           a == [version |-> v, expires |-> Until("app"), release |-> n]
           s == Signed(Newest("snapshot").targets, v).snapshot
           t == Signed(Newest("snapshot").targets, v).timestamp
           Timestamp == [version: Nat, expires: Nat, snapshot: Nat]
           Snapshot == [version: Nat, expires: Nat, targets: Nat, app: Nat]
           App == [version: Nat, expires: Nat, release: {0} \cup Releases]
           timestamp == Append(published.timestamp, t)
           snapshot == Append(published.snapshot, s)
           more == Append(published.app, a)
<1>1. /\ published.timestamp \in Seq(Timestamp) /\ published.snapshot \in Seq(Snapshot)
      /\ published.app \in Seq(App)
  BY DEF TypeOK
<1>2. Until("app") \in Nat /\ Until("snapshot") \in Nat /\ Until("timestamp") \in Nat
  <2>1. now \in Nat
    BY DEF TypeOK
  <2> QED
    BY <2>1 DEF Until, Roles
<1>3. /\ Newest("snapshot").targets = Len(published.targets)
      /\ Len(published.targets) \in Nat /\ Len(published.app) \in Nat
      /\ Len(published.targets) > 0
  <2>1. Len(published.targets) \in Nat /\ Len(published.app) \in Nat
    BY DEF TypeOK
  <2>2. Len(published.snapshot) \in 1..Len(published.snapshot)
    BY <1>1 DEF Chain, Tip
  <2>3. Len(published.targets) > 0
    BY <2>1, <2>2 DEF Chain, Tip, Within
  <2>4. Newest("snapshot").targets = Len(published.targets)
    <3>1. Newest("snapshot") = published.snapshot[Len(published.snapshot)]
      BY DEF Newest, Last
    <3> QED
      BY <3>1 DEF Chain, Tip
  <2> QED
    BY <2>1, <2>3, <2>4
<1>4. v \in Nat /\ Len(published.snapshot) \in Nat /\ Len(published.timestamp) \in Nat
  BY <1>1
<1>5. a \in App /\ s \in Snapshot /\ t \in Timestamp
  BY <1>2, <1>3, <1>4 DEF Signed
<1>6. /\ a.version = v /\ s.version = Len(published.snapshot) + 1
      /\ s.app = v /\ s.targets = Len(published.targets)
      /\ t.version = Len(published.timestamp) + 1 /\ t.snapshot = Len(published.timestamp) + 1
  BY <1>3 DEF Signed, Chain
<1>7. published' = [published EXCEPT !.app = more, !.snapshot = snapshot, !.timestamp = timestamp]
  BY DEF PublishRelease
<1>8. /\ published'.app = more /\ published'.snapshot = snapshot
      /\ published'.timestamp = timestamp /\ published'.targets = published.targets
  <2> HIDE DEF more, snapshot, timestamp
  <2> QED
    BY <1>7 DEF TypeOK
<1> HIDE DEF a, s, t, Timestamp, Snapshot, App
<1>9. /\ timestamp \in Seq(Timestamp) /\ Numbered(timestamp)
      /\ Extends(published.timestamp, timestamp)
      /\ Len(timestamp) = Len(published.timestamp) + 1
  BY <1>1, <1>5, <1>6, FileAppended DEF Chain
<1>10. Names(timestamp)
  BY <1>1, <1>5, <1>6, NamesAppend DEF Chain
<1>11. /\ snapshot \in Seq(Snapshot) /\ Numbered(snapshot)
       /\ Extends(published.snapshot, snapshot)
       /\ Len(snapshot) = Len(published.snapshot) + 1
  BY <1>1, <1>5, <1>6, FileAppended DEF Chain
<1>12. /\ more \in Seq(App) /\ Numbered(more) /\ Extends(published.app, more)
       /\ Len(more) = v
  BY <1>1, <1>5, <1>6, FileAppended DEF Chain
<1>13. Within(snapshot, published.targets, more) /\ Grows(snapshot) /\ Tip(snapshot, published.targets, more)
  <2>1. /\ published.snapshot \in Snapshots
        /\ s \in [version: Nat, expires: Nat, targets: Nat, app: Nat]
    BY <1>1, <1>5 DEF Snapshot, Snapshots
  <2>2. s.app = Len(more) /\ Len(more) \in Nat /\ Len(published.app) <= Len(more)
    BY <1>3, <1>4, <1>6, <1>12
  <2>3. /\ Within(published.snapshot, published.targets, published.app)
        /\ Grows(published.snapshot)
        /\ Tip(published.snapshot, published.targets, published.app)
    BY DEF Chain
  <2>4. /\ Len(published.targets) \in Nat /\ Len(published.app) \in Nat
        /\ Len(published.targets) > 0
        /\ Len(published.targets) <= Len(published.targets)
        /\ Len(published.app) <= Len(published.app)
    BY <1>3
  <2> HIDE DEF more
  <2> QED
    BY <1>6, <2>1, <2>2, <2>3, <2>4, SnapshotsAppend
<1>14. Extends(published.targets, published.targets)
  BY <1>3 DEF Extends
<1> HIDE DEF timestamp, snapshot, more
<1>15. published' \in [timestamp: Timestamps, snapshot: Snapshots, targets: Targetses, app: Apps]
  <2>1. published \in [timestamp: Timestamps, snapshot: Snapshots, targets: Targetses, app: Apps]
    BY DEF TypeOK, Timestamps, Snapshots, Targetses, Apps
  <2>2. timestamp \in Timestamps /\ snapshot \in Snapshots /\ more \in Apps
    BY <1>9, <1>11, <1>12 DEF Timestamp, Snapshot, App, Timestamps, Snapshots, Apps
  <2> QED
    BY <1>7, <2>1, <2>2
<1>16. Chain'
  BY <1>8, <1>9, <1>10, <1>11, <1>12, <1>13 DEF Chain
<1> QED
  BY <1>8, <1>9, <1>11, <1>12, <1>14, <1>15, <1>16 DEF PublicationKeeps

LEMMA TargetsKeep ==
    ASSUME TypeOK, Chain, SignTargets
    PROVE  PublicationKeeps
<1> DEFINE v == Len(published.targets) + 1
           g == [version |-> v, expires |-> Until("targets")]
           s == Signed(v, Newest("snapshot").app).snapshot
           t == Signed(v, Newest("snapshot").app).timestamp
           Timestamp == [version: Nat, expires: Nat, snapshot: Nat]
           Snapshot == [version: Nat, expires: Nat, targets: Nat, app: Nat]
           Targets == [version: Nat, expires: Nat]
           timestamp == Append(published.timestamp, t)
           snapshot == Append(published.snapshot, s)
           more == Append(published.targets, g)
<1>1. /\ published.timestamp \in Seq(Timestamp) /\ published.snapshot \in Seq(Snapshot)
      /\ published.targets \in Seq(Targets)
  BY DEF TypeOK
<1>2. Until("targets") \in Nat /\ Until("snapshot") \in Nat /\ Until("timestamp") \in Nat
  <2>1. now \in Nat
    BY DEF TypeOK
  <2> QED
    BY <2>1 DEF Until, Roles
<1>3. /\ Newest("snapshot").app = Len(published.app)
      /\ Len(published.targets) \in Nat /\ Len(published.app) \in Nat
      /\ Len(published.targets) > 0
  <2>1. Len(published.targets) \in Nat /\ Len(published.app) \in Nat
    BY DEF TypeOK
  <2>2. Len(published.snapshot) \in 1..Len(published.snapshot)
    BY <1>1 DEF Chain, Tip
  <2>3. Len(published.targets) > 0
    BY <2>1, <2>2 DEF Chain, Tip, Within
  <2>4. Newest("snapshot").app = Len(published.app)
    <3>1. Newest("snapshot") = published.snapshot[Len(published.snapshot)]
      BY DEF Newest, Last
    <3> QED
      BY <3>1 DEF Chain, Tip
  <2> QED
    BY <2>1, <2>3, <2>4
<1>4. v \in Nat /\ Len(published.snapshot) \in Nat /\ Len(published.timestamp) \in Nat
  BY <1>1
<1>5. g \in Targets /\ s \in Snapshot /\ t \in Timestamp
  BY <1>2, <1>3, <1>4 DEF Signed
<1>6. /\ g.version = v /\ s.version = Len(published.snapshot) + 1
      /\ s.targets = v /\ s.app = Len(published.app)
      /\ t.version = Len(published.timestamp) + 1 /\ t.snapshot = Len(published.timestamp) + 1
  BY <1>3 DEF Signed, Chain
<1>7. published' = [published EXCEPT !.targets = more, !.snapshot = snapshot, !.timestamp = timestamp]
  BY DEF SignTargets
<1>8. /\ published'.targets = more /\ published'.snapshot = snapshot
      /\ published'.timestamp = timestamp /\ published'.app = published.app
  <2> HIDE DEF more, snapshot, timestamp
  <2> QED
    BY <1>7 DEF TypeOK
<1> HIDE DEF g, s, t, Timestamp, Snapshot, Targets
<1>9. /\ timestamp \in Seq(Timestamp) /\ Numbered(timestamp)
      /\ Extends(published.timestamp, timestamp)
      /\ Len(timestamp) = Len(published.timestamp) + 1
  BY <1>1, <1>5, <1>6, FileAppended DEF Chain
<1>10. Names(timestamp)
  BY <1>1, <1>5, <1>6, NamesAppend DEF Chain
<1>11. /\ snapshot \in Seq(Snapshot) /\ Numbered(snapshot)
       /\ Extends(published.snapshot, snapshot)
       /\ Len(snapshot) = Len(published.snapshot) + 1
  BY <1>1, <1>5, <1>6, FileAppended DEF Chain
<1>12. /\ more \in Seq(Targets) /\ Numbered(more) /\ Extends(published.targets, more)
       /\ Len(more) = v
  BY <1>1, <1>5, <1>6, FileAppended DEF Chain
<1>13. Within(snapshot, more, published.app) /\ Grows(snapshot) /\ Tip(snapshot, more, published.app)
  <2>1. /\ published.snapshot \in Snapshots
        /\ s \in [version: Nat, expires: Nat, targets: Nat, app: Nat]
    BY <1>1, <1>5 DEF Snapshot, Snapshots
  <2>2. s.targets = Len(more) /\ Len(more) \in Nat /\ Len(published.targets) <= Len(more)
    BY <1>3, <1>4, <1>6, <1>12
  <2>3. /\ Within(published.snapshot, published.targets, published.app)
        /\ Grows(published.snapshot)
        /\ Tip(published.snapshot, published.targets, published.app)
    BY DEF Chain
  <2>4. /\ Len(published.targets) \in Nat /\ Len(published.app) \in Nat
        /\ Len(published.targets) > 0
        /\ Len(published.targets) <= Len(published.targets)
        /\ Len(published.app) <= Len(published.app)
    BY <1>3
  <2> HIDE DEF more
  <2> QED
    BY <1>6, <2>1, <2>2, <2>3, <2>4, SnapshotsAppend
<1>14. Extends(published.app, published.app)
  BY <1>3 DEF Extends
<1> HIDE DEF timestamp, snapshot, more
<1>15. published' \in [timestamp: Timestamps, snapshot: Snapshots, targets: Targetses, app: Apps]
  <2>1. published \in [timestamp: Timestamps, snapshot: Snapshots, targets: Targetses, app: Apps]
    BY DEF TypeOK, Timestamps, Snapshots, Targetses, Apps
  <2>2. timestamp \in Timestamps /\ snapshot \in Snapshots /\ more \in Targetses
    BY <1>9, <1>11, <1>12 DEF Timestamp, Snapshot, Targets, Timestamps, Snapshots, Targetses
  <2> QED
    BY <1>7, <2>1, <2>2
<1>16. Chain'
  BY <1>8, <1>9, <1>10, <1>11, <1>12, <1>13 DEF Chain
<1> QED
  BY <1>8, <1>9, <1>11, <1>12, <1>14, <1>15, <1>16 DEF PublicationKeeps

-----------------------------------------------------------------------------
(* What is trusted.  Everything is a file that was published.  The verifier forgets
   a role, but the timestamp and the application's role never; and what the newest
   snapshot it ever trusted names bounds the rest. *)

PublishedFile(role) ==
    \/ db[role] = Nothing[role]
    \/ db[role].version \in 1..Len(published[role]) /\ db[role] = published[role][db[role].version]
FilesTrusted ==
    /\ PublishedFile("timestamp") /\ PublishedFile("snapshot")
    /\ PublishedFile("targets") /\ PublishedFile("app")

Ceiling(field) ==
    IF highest["snapshot"] = 0 THEN 0 ELSE published.snapshot[highest["snapshot"]][field]

Trust ==
    /\ highest["timestamp"] = db.timestamp.version
    /\ highest["snapshot"] <= db.timestamp.snapshot
    /\ db.snapshot.version # 0 =>
        db.snapshot.version = highest["snapshot"] /\ db.snapshot.version = db.timestamp.snapshot
    /\ db.targets.version \in {0, Ceiling("targets")}
    /\ db.targets.version <= highest["targets"]
    /\ highest["targets"] <= Ceiling("targets")
    /\ db.app.version = highest["app"]
    /\ highest["app"] <= Ceiling("app")

VerifierInv == TypeOK /\ Chain /\ FilesTrusted /\ Trust

LEMMA VerifierInvInit == Init => VerifierInv
<1> SUFFICES ASSUME Init PROVE VerifierInv
  OBVIOUS
<1>1. TypeOK
  <2>1. db \in Metadata /\ db = Nothing
    BY DEF Init, Nothing, Metadata
  <2>2. published \in [timestamp: Seq([version: Nat, expires: Nat, snapshot: Nat]),
                       snapshot: Seq([version: Nat, expires: Nat, targets: Nat, app: Nat]),
                       targets: Seq([version: Nat, expires: Nat]),
                       app: Seq([version: Nat, expires: Nat, release: {0} \cup Releases])]
    <3> DEFINE t == [version |-> 1, expires |-> Lifetime["timestamp"], snapshot |-> 1]
               s == [version |-> 1, expires |-> Lifetime["snapshot"], targets |-> 1, app |-> 0]
               g == [version |-> 1, expires |-> Lifetime["targets"]]
    <3>1. /\ t \in [version: Nat, expires: Nat, snapshot: Nat]
          /\ s \in [version: Nat, expires: Nat, targets: Nat, app: Nat]
          /\ g \in [version: Nat, expires: Nat]
      BY DEF Roles
    <3>2. published = [timestamp |-> <<t>>, snapshot |-> <<s>>, targets |-> <<g>>, app |-> <<>>]
      BY DEF Init
    <3> HIDE DEF t, s, g
    <3>3. /\ <<t>> \in Seq([version: Nat, expires: Nat, snapshot: Nat])
          /\ <<s>> \in Seq([version: Nat, expires: Nat, targets: Nat, app: Nat])
          /\ <<g>> \in Seq([version: Nat, expires: Nat])
          /\ <<>> \in Seq([version: Nat, expires: Nat, release: {0} \cup Releases])
      BY <3>1
    <3> QED
      BY <3>2, <3>3
  <2> QED
    BY <2>1, <2>2 DEF Init, TypeOK, Status, Roles
<1>2. Chain
  BY DEF Init, Chain, Numbered, Names, Within, Grows, Tip
<1>3. FilesTrusted
  BY DEF Init, FilesTrusted, PublishedFile, Nothing
<1>4. Trust
  BY DEF Init, Trust, Nothing, Ceiling, Roles
<1> QED
  BY <1>1, <1>2, <1>3, <1>4 DEF VerifierInv

(* The facts of the chain about the files a call may be made with. *)
LEMMA FileOf ==
    ASSUME NEW S, NEW s \in Seq(S), Numbered(s), NEW f \in ToSet(s)
    PROVE  f \in S /\ f.version \in 1..Len(s) /\ f = s[f.version]
<1>1. PICK i \in 1..Len(s) : f = s[i]
  BY MemberOf
<1>2. s[i] \in S /\ s[i].version = i
  BY DEF Numbered
<1> QED
  BY <1>1, <1>2

LEMMA TimestampFile ==
    ASSUME TypeOK, Chain, NEW f \in ToSet(published.timestamp)
    PROVE  /\ f \in [version: Nat, expires: Nat, snapshot: Nat]
           /\ f.version \in 1..Len(published.timestamp) /\ f.snapshot = f.version
           /\ f = published.timestamp[f.version]
<1> DEFINE File == [version: Nat, expires: Nat, snapshot: Nat]
<1>1. published.timestamp \in Seq(File)
  BY DEF TypeOK
<1>2. Numbered(published.timestamp)
  BY DEF Chain
<1> HIDE DEF File
<1>3. f \in File /\ f.version \in 1..Len(published.timestamp) /\ f = published.timestamp[f.version]
  BY <1>1, <1>2, FileOf
<1> QED
  BY <1>3 DEF File, Chain, Names

LEMMA SnapshotFile ==
    ASSUME TypeOK, Chain, NEW f \in ToSet(published.snapshot)
    PROVE  /\ f \in [version: Nat, expires: Nat, targets: Nat, app: Nat]
           /\ f.version \in 1..Len(published.snapshot)
           /\ f = published.snapshot[f.version]
<1> DEFINE File == [version: Nat, expires: Nat, targets: Nat, app: Nat]
<1>1. published.snapshot \in Seq(File)
  BY DEF TypeOK
<1>2. Numbered(published.snapshot)
  BY DEF Chain
<1> HIDE DEF File
<1>3. f \in File /\ f.version \in 1..Len(published.snapshot) /\ f = published.snapshot[f.version]
  BY <1>1, <1>2, FileOf
<1> QED
  BY <1>3 DEF File

LEMMA TargetsFile ==
    ASSUME TypeOK, Chain, NEW f \in ToSet(published.targets)
    PROVE  /\ f \in [version: Nat, expires: Nat]
           /\ f.version \in 1..Len(published.targets)
           /\ f = published.targets[f.version]
<1> DEFINE File == [version: Nat, expires: Nat]
<1>1. published.targets \in Seq(File)
  BY DEF TypeOK
<1>2. Numbered(published.targets)
  BY DEF Chain
<1> HIDE DEF File
<1>3. f \in File /\ f.version \in 1..Len(published.targets) /\ f = published.targets[f.version]
  BY <1>1, <1>2, FileOf
<1> QED
  BY <1>3 DEF File

LEMMA AppFile ==
    ASSUME TypeOK, Chain, NEW f \in ToSet(published.app)
    PROVE  /\ f \in [version: Nat, expires: Nat, release: {0} \cup Releases]
           /\ f.version \in 1..Len(published.app)
           /\ f = published.app[f.version]
<1> DEFINE File == [version: Nat, expires: Nat, release: {0} \cup Releases]
<1>1. published.app \in Seq(File)
  BY DEF TypeOK
<1>2. Numbered(published.app)
  BY DEF Chain
<1> HIDE DEF File
<1>3. f \in File /\ f.version \in 1..Len(published.app) /\ f = published.app[f.version]
  BY <1>1, <1>2, FileOf
<1> QED
  BY <1>3 DEF File

(* Every role is a sequence of files. *)
LEMMA FilesHaveLengths ==
    TypeOK => /\ Len(published.timestamp) \in Nat /\ Len(published.snapshot) \in Nat
              /\ Len(published.targets) \in Nat /\ Len(published.app) \in Nat
<1> SUFFICES ASSUME TypeOK
             PROVE  /\ Len(published.timestamp) \in Nat /\ Len(published.snapshot) \in Nat
                    /\ Len(published.targets) \in Nat /\ Len(published.app) \in Nat
  OBVIOUS
<1>1. published \in [timestamp: Seq([version: Nat, expires: Nat, snapshot: Nat]),
                    snapshot: Seq([version: Nat, expires: Nat, targets: Nat, app: Nat]),
                    targets: Seq([version: Nat, expires: Nat]),
                    app: Seq([version: Nat, expires: Nat, release: {0} \cup Releases])]
  BY DEF TypeOK
<1>2. /\ published.timestamp \in Seq([version: Nat, expires: Nat, snapshot: Nat])
      /\ published.snapshot \in Seq([version: Nat, expires: Nat, targets: Nat, app: Nat])
      /\ published.targets \in Seq([version: Nat, expires: Nat])
      /\ published.app \in Seq([version: Nat, expires: Nat, release: {0} \cup Releases])
  BY <1>1
<1> QED
  BY <1>2

(* Later snapshots name no older files. *)
LEMMA CeilingGrows ==
    ASSUME TypeOK, Chain, highest["snapshot"] \in Nat,
           NEW v \in 1..Len(published.snapshot), highest["snapshot"] <= v
    PROVE  /\ Ceiling("targets") <= published.snapshot[v].targets
           /\ Ceiling("app") <= published.snapshot[v].app
           /\ Ceiling("targets") \in Nat /\ Ceiling("app") \in Nat
           /\ published.snapshot[v].targets \in Nat \ {0} /\ published.snapshot[v].app \in Nat
<1>1. /\ Len(published.snapshot) \in Nat
      /\ Len(published.targets) \in Nat /\ Len(published.app) \in Nat
  BY FilesHaveLengths
<1>2. /\ published.snapshot[v].targets \in Nat \ {0}
      /\ published.snapshot[v].app \in Nat
  <2>1. /\ published.snapshot[v].targets \in 1..Len(published.targets)
        /\ published.snapshot[v].app \in 0..Len(published.app)
    BY DEF Chain, Within
  <2> QED
    BY <1>1, <2>1
<1>3. CASE highest["snapshot"] = 0
  BY <1>2, <1>3 DEF Ceiling
<1>4. CASE highest["snapshot"] # 0
  <2>1. highest["snapshot"] \in 1..Len(published.snapshot) /\ v \in highest["snapshot"]..Len(published.snapshot)
    BY <1>1, <1>4
  <2>2. /\ Ceiling("targets") = published.snapshot[highest["snapshot"]].targets
        /\ Ceiling("app") = published.snapshot[highest["snapshot"]].app
    BY <1>4 DEF Ceiling
  <2> QED
    BY <1>1, <1>2, <2>1, <2>2 DEF Chain, Grows, Within
<1> QED
  BY <1>3, <1>4

Newer(a, b) == IF a >= b THEN a ELSE b

LEMMA CallFacts ==
    ASSUME TypeOK, NEW accepted, NEW d \in Metadata, Call(accepted, d)
    PROVE  /\ TypeOK' /\ db' = d /\ UNCHANGED <<now, published, handle>>
           /\ \A role \in Roles : highest'[role] = Newer(highest[role], d[role].version)
<1>1. \A role \in Roles : highest[role] \in Nat /\ d[role].version \in Nat
  BY DEF TypeOK, Roles, Metadata
<1>2. /\ handle /\ db' = d /\ UNCHANGED <<now, published, handle>>
      /\ highest' = [role \in Roles |-> Max({highest[role], d[role].version})]
      /\ status' \in {"ok", "rejected"}
  BY DEF Call
<1>3. \A role \in Roles : highest'[role] = Newer(highest[role], d[role].version)
  BY <1>1, <1>2, MaxOfTwo DEF Newer
<1>4. highest' \in [Roles -> Nat]
  <2>1. \A role \in Roles : Max({highest[role], d[role].version}) \in Nat
    BY <1>1, MaxOfTwo
  <2> QED
    BY <1>2, <2>1
<1> QED
  BY <1>2, <1>3, <1>4 DEF TypeOK, Status

(* The numbers of an invariant state, for arithmetic. *)
LEMMA Numbers ==
    ASSUME TypeOK
    PROVE  /\ db.timestamp.version \in Nat /\ db.timestamp.snapshot \in Nat
           /\ db.snapshot.version \in Nat /\ db.snapshot.targets \in Nat /\ db.snapshot.app \in Nat
           /\ db.targets.version \in Nat /\ db.app.version \in Nat
           /\ highest["timestamp"] \in Nat /\ highest["snapshot"] \in Nat
           /\ highest["targets"] \in Nat /\ highest["app"] \in Nat
  BY DEF TypeOK, Metadata, Roles

(* A call that is refused, or made with what is trusted already, changes nothing. *)
LEMMA Unmoved ==
    ASSUME VerifierInv, NEW accepted, Call(accepted, db)
    PROVE  VerifierInv'
<1>1. TypeOK /\ db \in Metadata
  BY DEF VerifierInv, TypeOK
<1>2. /\ TypeOK' /\ db' = db /\ published' = published
      /\ \A role \in Roles : highest'[role] = Newer(highest[role], db[role].version)
  BY <1>1, CallFacts
<1>3. /\ db.timestamp.version <= highest["timestamp"]
      /\ db.snapshot.version <= highest["snapshot"]
      /\ db.targets.version <= highest["targets"]
      /\ db.app.version <= highest["app"]
  BY <1>1, Numbers DEF VerifierInv, Trust
<1>4. /\ highest'["timestamp"] = highest["timestamp"]
      /\ highest'["snapshot"] = highest["snapshot"]
      /\ highest'["targets"] = highest["targets"]
      /\ highest'["app"] = highest["app"]
  BY <1>1, <1>2, <1>3, Numbers DEF Newer, Roles
<1>5. FilesTrusted' /\ Chain'
  BY <1>2 DEF VerifierInv, FilesTrusted, PublishedFile, Chain
<1>6. Trust'
  BY <1>2, <1>4 DEF VerifierInv, Trust, Ceiling
<1> QED
  BY <1>2, <1>5, <1>6 DEF VerifierInv

LEMMA FeedTimestampKeeps == VerifierInv /\ FeedTimestamp => VerifierInv'
<1> SUFFICES ASSUME VerifierInv, NEW f \in ToSet(published.timestamp),
                    Call(AcceptsTimestamp(db, f), UpdateTimestamp(db, f))
             PROVE  VerifierInv'
  BY DEF FeedTimestamp
<1> DEFINE d == UpdateTimestamp(db, f)
<1>1. TypeOK /\ Chain /\ FilesTrusted /\ Trust /\ db \in Metadata
  BY DEF VerifierInv, TypeOK
<1>2. /\ f \in [version: Nat, expires: Nat, snapshot: Nat]
      /\ f.version \in 1..Len(published.timestamp) /\ f.snapshot = f.version
      /\ f = published.timestamp[f.version]
  BY <1>1, TimestampFile
<1>3. CASE d = db
  BY <1>3, Unmoved
<1>4. CASE d # db
  <2>1. ~(f.version <= db.timestamp.version)
    BY <1>4 DEF UpdateTimestamp
  <2>2. /\ d.timestamp \in {db.timestamp, f}
        /\ d.snapshot \in {db.snapshot, Nothing.snapshot}
        /\ d.targets = db.targets /\ d.app = db.app
        /\ d.timestamp = f => d.snapshot.version = 0 \/ d.snapshot.version = f.snapshot
        /\ d \in Metadata
    BY <1>1, <1>2, <2>1 DEF UpdateTimestamp, Metadata, Nothing
  <2> HIDE DEF d
  <2>3. /\ TypeOK' /\ db' = d /\ published' = published
        /\ \A role \in Roles : highest'[role] = Newer(highest[role], d[role].version)
    BY <1>1, <2>2, CallFacts DEF d
  <2>4. db.timestamp.version <= f.version /\ db.timestamp.snapshot <= f.snapshot
    <3>1. db.timestamp.snapshot <= db.timestamp.version
      <4>1. CASE db.timestamp = Nothing.timestamp
        BY <4>1 DEF Nothing
      <4>2. CASE /\ db.timestamp.version \in 1..Len(published.timestamp)
                 /\ db.timestamp = published.timestamp[db.timestamp.version]
        <5>1. published.timestamp[db.timestamp.version].snapshot = db.timestamp.version
          <6>1. Names(published.timestamp)
            BY <1>1 DEF Chain
          <6> QED
            BY <4>2, <6>1 DEF Names
        <5>2. db.timestamp.snapshot = db.timestamp.version /\ db.timestamp.version \in Nat
          BY <1>1, <4>2, <5>1, Numbers
        <5> QED
          BY <5>2
      <4> QED
        BY <1>1, <4>1, <4>2 DEF FilesTrusted, PublishedFile
    <3>2. /\ db.timestamp.version \in Nat /\ db.timestamp.snapshot \in Nat
          /\ f.version \in Nat /\ f.snapshot \in Nat
      BY <1>1, <1>2, Numbers
    <3>3. f.snapshot = f.version /\ db.timestamp.version <= f.version
      BY <1>2, <2>1, <3>2
    <3> QED
      BY <3>1, <3>2, <3>3
  <2>5. /\ highest'["timestamp"] = d.timestamp.version
        /\ highest'["snapshot"] = highest["snapshot"]
        /\ highest'["targets"] = highest["targets"]
        /\ highest'["app"] = highest["app"]
    <3>1. /\ highest["timestamp"] <= d.timestamp.version /\ d.snapshot.version <= highest["snapshot"]
          /\ d.targets.version <= highest["targets"] /\ d.app.version <= highest["app"]
          /\ d.timestamp.version \in Nat /\ d.snapshot.version \in Nat
      BY <1>1, <1>2, <2>2, <2>4, Numbers DEF Trust, Nothing
    <3>2. /\ highest'["timestamp"] = Newer(highest["timestamp"], d.timestamp.version)
          /\ highest'["snapshot"] = Newer(highest["snapshot"], d.snapshot.version)
          /\ highest'["targets"] = Newer(highest["targets"], d.targets.version)
          /\ highest'["app"] = Newer(highest["app"], d.app.version)
      BY <2>3 DEF Roles
    <3> QED
      BY <1>1, <2>2, <3>1, <3>2, Numbers DEF Newer
  <2>6. FilesTrusted'
    BY <1>1, <1>2, <2>2, <2>3 DEF FilesTrusted, PublishedFile, Nothing
  <2>7. Trust'
    <3>1. highest["snapshot"] <= d.timestamp.snapshot
      BY <1>1, <1>2, <2>2, <2>4, Numbers DEF Trust
    <3>2. d.snapshot.version # 0 =>
            d.snapshot.version = highest["snapshot"] /\ d.snapshot.version = d.timestamp.snapshot
      BY <1>1, <2>2 DEF Trust, Nothing
    <3> QED
      BY <1>1, <2>2, <2>3, <2>5, <3>1, <3>2 DEF Trust, Ceiling
  <2> QED
    BY <1>1, <2>3, <2>6, <2>7 DEF VerifierInv, Chain
<1> QED
  BY <1>3, <1>4

LEMMA FeedSnapshotKeeps == VerifierInv /\ FeedSnapshot => VerifierInv'
<1> SUFFICES ASSUME VerifierInv, NEW f \in ToSet(published.snapshot),
                    Call(AcceptsSnapshot(db, f), UpdateSnapshot(db, f))
             PROVE  VerifierInv'
  BY DEF FeedSnapshot
<1> DEFINE d == UpdateSnapshot(db, f)
<1>1. TypeOK /\ Chain /\ FilesTrusted /\ Trust /\ db \in Metadata
  BY DEF VerifierInv, TypeOK
<1>2. /\ f \in [version: Nat, expires: Nat, targets: Nat, app: Nat]
      /\ f.version \in 1..Len(published.snapshot)
      /\ f = published.snapshot[f.version]
  BY <1>1, SnapshotFile
<1>3. CASE d = db
  BY <1>3, Unmoved
<1>4. CASE d # db
  <2>1. /\ f.version = db.timestamp.snapshot /\ db.snapshot.version # db.timestamp.snapshot
        /\ d = [Purge(db, f) EXCEPT !.snapshot = f]
    BY <1>4 DEF UpdateSnapshot, AcceptsSnapshot
  <2>2. highest["snapshot"] <= f.version /\ db.snapshot.version = 0
    BY <1>1, <2>1 DEF Trust
  <2>3. /\ Ceiling("targets") <= f.targets /\ Ceiling("app") <= f.app
        /\ Ceiling("targets") \in Nat /\ Ceiling("app") \in Nat
        /\ f.targets \in Nat \ {0} /\ f.app \in Nat /\ f.version \in Nat \ {0}
    <3>1. highest["snapshot"] \in Nat /\ f.version \in Nat \ {0}
      <4>1. highest \in [Roles -> Nat]
        BY <1>1 DEF TypeOK
      <4> QED
        BY <1>2, <4>1 DEF Roles
    <3> QED
      BY <1>1, <1>2, <2>2, <3>1, CeilingGrows
  <2>4. db.app.version <= f.app
    BY <1>1, <2>3, Numbers DEF Trust
  <2>5. /\ d.timestamp = db.timestamp /\ d.snapshot = f /\ d.app = db.app
        /\ d.targets = IF db.targets.version = f.targets THEN db.targets ELSE Nothing.targets
        /\ d \in Metadata
    <3>1. /\ Purge(db, f) \in Metadata
          /\ Purge(db, f).timestamp = db.timestamp
          /\ Purge(db, f).targets =
               IF db.targets.version = f.targets THEN db.targets ELSE Nothing.targets
          /\ Purge(db, f).app = db.app
      <4> DEFINE g == IF db.targets.version = f.targets THEN db.targets ELSE Nothing.targets
      <4>1. Purge(db, f) = [db EXCEPT !.targets = g, !.app = db.app]
        <5>1. ~(db.app.version > f.app)
          BY <1>1, <2>3, <2>4, Numbers
        <5> QED
          BY <1>1, <5>1 DEF Purge, Metadata
      <4>2. g \in [version: Nat, expires: Nat]
        BY <1>1 DEF Metadata, Nothing
      <4> HIDE DEF g
      <4>3. /\ Purge(db, f) \in Metadata
            /\ Purge(db, f).timestamp = db.timestamp
            /\ Purge(db, f).targets = g
            /\ Purge(db, f).app = db.app
        BY <1>1, <4>1, <4>2 DEF Metadata
      <4> QED
        BY <4>3 DEF g
    <3> QED
      BY <1>2, <2>1, <3>1 DEF Metadata
  <2> HIDE DEF d
  <2>6. /\ TypeOK' /\ db' = d /\ published' = published
        /\ \A role \in Roles : highest'[role] = Newer(highest[role], d[role].version)
    BY <1>1, <2>5, CallFacts DEF d
  <2>7. d.targets.version \in {0, f.targets} /\ d.targets.version <= db.targets.version
    BY <1>1, <2>5, Numbers DEF Nothing
  <2>8. /\ highest'["timestamp"] = highest["timestamp"]
        /\ highest'["snapshot"] = f.version
        /\ highest'["targets"] = highest["targets"]
        /\ highest'["app"] = highest["app"]
    <3>1. /\ highest'["timestamp"] = Newer(highest["timestamp"], d.timestamp.version)
          /\ highest'["snapshot"] = Newer(highest["snapshot"], d.snapshot.version)
          /\ highest'["targets"] = Newer(highest["targets"], d.targets.version)
          /\ highest'["app"] = Newer(highest["app"], d.app.version)
      BY <2>6 DEF Roles
    <3>2. /\ d.timestamp.version = highest["timestamp"] /\ d.app.version = highest["app"]
          /\ d.snapshot.version = f.version /\ d.targets.version \in Nat
          /\ d.targets.version <= highest["targets"]
      BY <1>1, <2>3, <2>5, <2>7, Numbers DEF Trust
    <3> QED
      BY <1>1, <2>2, <2>3, <3>1, <3>2, Numbers DEF Newer
  <2>9. FilesTrusted'
    BY <1>1, <1>2, <2>5, <2>6 DEF FilesTrusted, PublishedFile
  <2>10. (Ceiling("targets"))' = f.targets /\ (Ceiling("app"))' = f.app
    BY <1>2, <2>3, <2>6, <2>8 DEF Ceiling
  <2>11. Trust'
    <3>1. d.targets.version <= highest["targets"] /\ highest["targets"] <= f.targets
      BY <1>1, <2>3, <2>5, <2>7, Numbers DEF Trust, Nothing
    <3>2. highest["app"] <= f.app /\ d.app.version = highest["app"]
      BY <1>1, <2>4, <2>5 DEF Trust
    <3>3. f.version <= d.timestamp.snapshot
      BY <2>1, <2>3, <2>5
    <3> QED
      BY <1>1, <2>1, <2>5, <2>6, <2>7, <2>8, <2>10, <3>1, <3>2, <3>3 DEF Trust
  <2> QED
    BY <1>1, <2>6, <2>9, <2>11 DEF VerifierInv, Chain
<1> QED
  BY <1>3, <1>4

(* What a trusted snapshot names is what the newest one named. *)
LEMMA SnapshotIsCeiling ==
    ASSUME TypeOK, FilesTrusted, Trust, db.snapshot.version # 0
    PROVE  Ceiling("targets") = db.snapshot.targets /\ Ceiling("app") = db.snapshot.app
<1>1. db.snapshot = published.snapshot[db.snapshot.version]
  BY DEF FilesTrusted, PublishedFile, Nothing
<1>2. highest["snapshot"] = db.snapshot.version
  BY DEF Trust
<1> QED
  BY <1>1, <1>2 DEF Ceiling

LEMMA FeedTargetsKeeps == VerifierInv /\ FeedTargets => VerifierInv'
<1> SUFFICES ASSUME VerifierInv, NEW f \in ToSet(published.targets),
                    Call(AcceptsTargets(db, f), UpdateTargets(db, f))
             PROVE  VerifierInv'
  BY DEF FeedTargets
<1> DEFINE d == UpdateTargets(db, f)
<1>1. TypeOK /\ Chain /\ FilesTrusted /\ Trust /\ db \in Metadata
  BY DEF VerifierInv, TypeOK
<1>2. /\ f \in [version: Nat, expires: Nat]
      /\ f.version \in 1..Len(published.targets)
      /\ f = published.targets[f.version]
  BY <1>1, TargetsFile
<1>3. CASE d = db
  BY <1>3, Unmoved
<1>4. CASE d # db
  <2>1. /\ f.version = db.snapshot.targets /\ db.snapshot.version # 0
        /\ d = [db EXCEPT !.targets = f]
    BY <1>4 DEF UpdateTargets, AcceptsTargets, Trusted
  <2>2. Ceiling("targets") = f.version /\ f.version \in Nat
    BY <1>1, <1>2, <2>1, SnapshotIsCeiling
  <2>3. /\ d.timestamp = db.timestamp /\ d.snapshot = db.snapshot /\ d.app = db.app
        /\ d.targets = f /\ d \in Metadata
    BY <1>1, <1>2, <2>1 DEF Metadata
  <2> HIDE DEF d
  <2>4. /\ TypeOK' /\ db' = d /\ published' = published
        /\ \A role \in Roles : highest'[role] = Newer(highest[role], d[role].version)
    BY <1>1, <2>3, CallFacts DEF d
  <2>5. /\ highest'["timestamp"] = highest["timestamp"]
        /\ highest'["snapshot"] = highest["snapshot"]
        /\ highest'["targets"] = f.version
        /\ highest'["app"] = highest["app"]
    <3>1. /\ highest'["timestamp"] = Newer(highest["timestamp"], d.timestamp.version)
          /\ highest'["snapshot"] = Newer(highest["snapshot"], d.snapshot.version)
          /\ highest'["targets"] = Newer(highest["targets"], d.targets.version)
          /\ highest'["app"] = Newer(highest["app"], d.app.version)
      BY <2>4 DEF Roles
    <3>2. /\ d.timestamp.version = highest["timestamp"] /\ d.app.version = highest["app"]
          /\ d.snapshot.version <= highest["snapshot"] /\ highest["targets"] <= f.version
      BY <1>1, <2>2, <2>3, Numbers DEF Trust
    <3> QED
      BY <1>1, <2>2, <2>3, <3>1, <3>2, Numbers DEF Newer
  <2>6. FilesTrusted'
    BY <1>1, <1>2, <2>3, <2>4 DEF FilesTrusted, PublishedFile
  <2>7. (Ceiling("targets"))' = f.version /\ (Ceiling("app"))' = Ceiling("app")
    BY <2>2, <2>4, <2>5 DEF Ceiling
  <2>8. Trust'
    BY <1>1, <2>2, <2>3, <2>4, <2>5, <2>7 DEF Trust
  <2> QED
    BY <1>1, <2>4, <2>6, <2>8 DEF VerifierInv, Chain
<1> QED
  BY <1>3, <1>4

LEMMA FeedDelegatedTargetsKeeps == VerifierInv /\ FeedDelegatedTargets => VerifierInv'
<1> SUFFICES ASSUME VerifierInv, NEW f \in ToSet(published.app),
                    Call(AcceptsDelegatedTargets(db, f), UpdateDelegatedTargets(db, f))
             PROVE  VerifierInv'
  BY DEF FeedDelegatedTargets
<1> DEFINE d == UpdateDelegatedTargets(db, f)
<1>1. TypeOK /\ Chain /\ FilesTrusted /\ Trust /\ db \in Metadata
  BY DEF VerifierInv, TypeOK
<1>2. /\ f \in [version: Nat, expires: Nat, release: {0} \cup Releases]
      /\ f.version \in 1..Len(published.app)
      /\ f = published.app[f.version]
  BY <1>1, AppFile
<1>3. CASE d = db
  BY <1>3, Unmoved
<1>4. CASE d # db
  <2>1. /\ f.version = db.snapshot.app /\ db.snapshot.version # 0
        /\ d = [db EXCEPT !.app = f]
    BY <1>4 DEF UpdateDelegatedTargets, AcceptsDelegatedTargets, Trusted
  <2>2. Ceiling("app") = f.version /\ f.version \in Nat
    BY <1>1, <1>2, <2>1, SnapshotIsCeiling
  <2>3. /\ d.timestamp = db.timestamp /\ d.snapshot = db.snapshot /\ d.targets = db.targets
        /\ d.app = f /\ d \in Metadata
    BY <1>1, <1>2, <2>1 DEF Metadata
  <2> HIDE DEF d
  <2>4. /\ TypeOK' /\ db' = d /\ published' = published
        /\ \A role \in Roles : highest'[role] = Newer(highest[role], d[role].version)
    BY <1>1, <2>3, CallFacts DEF d
  <2>5. /\ highest'["timestamp"] = highest["timestamp"]
        /\ highest'["snapshot"] = highest["snapshot"]
        /\ highest'["targets"] = highest["targets"]
        /\ highest'["app"] = f.version
    <3>1. /\ highest'["timestamp"] = Newer(highest["timestamp"], d.timestamp.version)
          /\ highest'["snapshot"] = Newer(highest["snapshot"], d.snapshot.version)
          /\ highest'["targets"] = Newer(highest["targets"], d.targets.version)
          /\ highest'["app"] = Newer(highest["app"], d.app.version)
      BY <2>4 DEF Roles
    <3>2. /\ d.timestamp.version = highest["timestamp"]
          /\ d.snapshot.version <= highest["snapshot"]
          /\ d.targets.version <= highest["targets"] /\ highest["app"] <= f.version
      BY <1>1, <2>2, <2>3, Numbers DEF Trust
    <3> QED
      BY <1>1, <2>2, <2>3, <3>1, <3>2, Numbers DEF Newer
  <2>6. FilesTrusted'
    BY <1>1, <1>2, <2>3, <2>4 DEF FilesTrusted, PublishedFile
  <2>7. (Ceiling("app"))' = f.version /\ (Ceiling("targets"))' = Ceiling("targets")
    BY <2>2, <2>4, <2>5 DEF Ceiling
  <2>8. Trust'
    BY <1>1, <2>2, <2>3, <2>4, <2>5, <2>7 DEF Trust
  <2> QED
    BY <1>1, <2>4, <2>6, <2>8 DEF VerifierInv, Chain
<1> QED
  BY <1>3, <1>4

LEMMA PublicationKeepsInv == VerifierInv /\ Publication => VerifierInv'
<1> SUFFICES ASSUME VerifierInv, Publication PROVE VerifierInv'
  OBVIOUS
<1>1. TypeOK /\ Chain /\ FilesTrusted /\ Trust
  BY DEF VerifierInv
<1>2. PublicationKeeps /\ UNCHANGED <<now, handle, db, status, highest>>
  BY <1>1, ReleaseKeeps, TargetsKeep DEF Publication, PublishRelease, SignTargets
<1>3. TypeOK'
  BY <1>1, <1>2 DEF TypeOK, PublicationKeeps, Timestamps, Snapshots, Targetses, Apps
<1>4. FilesTrusted'
  <2>1. ASSUME NEW role \in Roles, PublishedFile(role), Len(published[role]) \in Nat,
               Len(published'[role]) \in Nat, Extends(published[role], published'[role])
        PROVE  PublishedFile(role)'
    BY <1>2, <2>1 DEF PublishedFile, Extends
  <2>2. \A role \in Roles : Len(published[role]) \in Nat /\ Len(published'[role]) \in Nat
    <3>1. TypeOK => /\ Len(published.timestamp) \in Nat /\ Len(published.snapshot) \in Nat
                    /\ Len(published.targets) \in Nat /\ Len(published.app) \in Nat
      BY FilesHaveLengths
    <3>2. (TypeOK => /\ Len(published.timestamp) \in Nat /\ Len(published.snapshot) \in Nat
                     /\ Len(published.targets) \in Nat /\ Len(published.app) \in Nat)'
      BY FilesHaveLengths, PTL
    <3> QED
      BY <1>1, <1>3, <3>1, <3>2 DEF Roles
  <2>3. \A role \in Roles : Extends(published[role], published'[role]) /\ PublishedFile(role)
    BY <1>1, <1>2 DEF PublicationKeeps, FilesTrusted, Roles
  <2>4. \A role \in Roles : PublishedFile(role)'
    BY <2>1, <2>2, <2>3
  <2> QED
    BY <2>4 DEF FilesTrusted, Roles
<1>5. Trust'
  <2>1. highest["snapshot"] \in 0..Len(published.snapshot)
    <3>1. highest["snapshot"] <= db.timestamp.snapshot /\ highest["snapshot"] \in Nat
      BY <1>1, Numbers DEF Trust
    <3>2. db.timestamp.snapshot \in 0..Len(published.snapshot)
      <4>1. Len(published.snapshot) \in Nat /\ Len(published.timestamp) = Len(published.snapshot)
        BY <1>1 DEF Chain, TypeOK
      <4>2. CASE db.timestamp = Nothing.timestamp
        BY <4>1, <4>2 DEF Nothing
      <4>3. CASE /\ db.timestamp.version \in 1..Len(published.timestamp)
                 /\ db.timestamp = published.timestamp[db.timestamp.version]
        <5>1. published.timestamp[db.timestamp.version].snapshot = db.timestamp.version
          BY <1>1, <4>3 DEF Chain, Names
        <5>2. db.timestamp.snapshot = db.timestamp.version
          BY <4>3, <5>1
        <5> QED
          BY <4>1, <4>3, <5>2
      <4> QED
        BY <1>1, <4>2, <4>3 DEF FilesTrusted, PublishedFile
    <3>3. Len(published.snapshot) \in Nat
      BY <1>1 DEF TypeOK
    <3> QED
      BY <3>1, <3>2, <3>3
  <2>2. highest["snapshot"] # 0 =>
          published'.snapshot[highest["snapshot"]] = published.snapshot[highest["snapshot"]]
    <3>1. highest["snapshot"] # 0 => highest["snapshot"] \in 1..Len(published.snapshot)
      BY <2>1
    <3> QED
      BY <1>2, <3>1 DEF PublicationKeeps, Extends
  <2>3. \A field : (Ceiling(field))' = Ceiling(field)
    BY <1>2, <2>2 DEF Ceiling
  <2> QED
    BY <1>1, <1>2, <2>3 DEF Trust
<1> QED
  BY <1>2, <1>3, <1>4, <1>5 DEF VerifierInv, PublicationKeeps

LEMMA VerifierInvNext == VerifierInv /\ [Next]_vars => VerifierInv'
<1> SUFFICES ASSUME VerifierInv, [Next]_vars PROVE VerifierInv'
  OBVIOUS
<1>1. TypeOK /\ Chain /\ FilesTrusted /\ Trust
  BY DEF VerifierInv
<1>2. CASE New
  <2>1. TypeOK'
    BY <1>1, <1>2 DEF New, TypeOK, Status
  <2> QED
    BY <1>1, <1>2, <2>1 DEF New, VerifierInv, Chain, FilesTrusted, PublishedFile, Trust, Ceiling
<1>3. CASE Free
  <2>1. TypeOK'
    <3>1. db' \in Metadata /\ highest' \in [Roles -> Nat]
      BY <1>3 DEF Free, Nothing, Metadata
    <3> QED
      BY <1>1, <1>3, <3>1 DEF Free, TypeOK
  <2>2. FilesTrusted'
    BY <1>3 DEF Free, FilesTrusted, PublishedFile
  <2>3. Trust'
    BY <1>3 DEF Free, Trust, Ceiling, Nothing, Roles
  <2> QED
    BY <1>1, <1>3, <2>1, <2>2, <2>3 DEF Free, VerifierInv, Chain
<1>4. CASE SnapshotVersion \/ Target \/ Closed \/ \E role \in {"targets", "app"} : TargetsVersion(role)
  <2>1. UNCHANGED <<now, published, handle, db, highest>> /\ status' \in Status
    BY <1>4 DEF SnapshotVersion, TargetsVersion, Target, Ask, Closed, TargetStatus, Status
  <2>2. TypeOK'
    BY <1>1, <2>1 DEF TypeOK
  <2> QED
    BY <1>1, <2>1, <2>2 DEF VerifierInv, Chain, FilesTrusted, PublishedFile, Trust, Ceiling
<1>5. CASE Tick
  <2>1. TypeOK'
    BY <1>1, <1>5 DEF Tick, TypeOK
  <2> QED
    BY <1>1, <1>5, <2>1 DEF Tick, VerifierInv, Chain, FilesTrusted, PublishedFile, Trust, Ceiling
<1>6. CASE UNCHANGED vars
  BY <1>1, <1>6 DEF vars, VerifierInv, TypeOK, Chain, FilesTrusted, PublishedFile, Trust, Ceiling
<1> QED
  BY <1>2, <1>3, <1>4, <1>5, <1>6, PublicationKeepsInv, FeedTimestampKeeps, FeedSnapshotKeeps,
     FeedTargetsKeeps, FeedDelegatedTargetsKeeps DEF Next, VerifierNext

-----------------------------------------------------------------------------
LEMMA InvNeverRollsBack == VerifierInv => NeverRollsBack
<1> SUFFICES ASSUME VerifierInv
             PROVE  \A role \in Roles :
                        db[role].version = 0 \/ db[role].version >= highest[role]
  BY DEF NeverRollsBack
<1>1. TypeOK /\ Trust
  BY DEF VerifierInv
<1>2. /\ db.timestamp.version >= highest["timestamp"]
      /\ db.snapshot.version = 0 \/ db.snapshot.version >= highest["snapshot"]
      /\ db.app.version >= highest["app"]
  BY <1>1, Numbers DEF Trust
<1>3. db.targets.version = 0 \/ db.targets.version >= highest["targets"]
  BY <1>1, Numbers DEF Trust
<1> QED
  BY <1>2, <1>3 DEF Roles

LEMMA InvOneSnapshot == VerifierInv => OneSnapshot
<1> SUFFICES ASSUME VerifierInv, db.snapshot.version # 0
             PROVE  db.targets.version \in {0, db.snapshot.targets} /\ db.app.version <= db.snapshot.app
  BY DEF OneSnapshot
<1>1. TypeOK /\ FilesTrusted /\ Trust
  BY DEF VerifierInv
<1> QED
  BY <1>1, SnapshotIsCeiling, Numbers DEF Trust

(* A check with the newest files: after each file, what is trusted. *)
LEMMA InvRefreshRecovers == VerifierInv => RefreshRecovers
<1> SUFFICES ASSUME VerifierInv, Fresh
             PROVE  /\ AcceptsTimestamp(db, Newest("timestamp"))
                    /\ Resolves(Refreshed)
                    /\ Refreshed.app = Newest("app")
  BY DEF RefreshRecovers
<1> DEFINE t == Newest("timestamp")
           s == Newest("snapshot")
           g == Newest("targets")
           a == Newest("app")
           d1 == UpdateTimestamp(db, t)
           d2 == UpdateSnapshot(d1, s)
           d3 == UpdateTargets(d2, g)
           d4 == UpdateDelegatedTargets(d3, a)
           n == Len(published.timestamp)
<1>1. TypeOK /\ Chain /\ FilesTrusted /\ Trust /\ db \in Metadata
  BY DEF VerifierInv, TypeOK
<1>2. /\ RootUnexpired /\ published.app # <<>>
      /\ ~Expired(t) /\ ~Expired(s) /\ ~Expired(g) /\ ~Expired(a)
  BY DEF Fresh, Roles
<1>3. /\ n \in Nat /\ n > 0 /\ Len(published.snapshot) = n
      /\ Len(published.targets) \in Nat /\ Len(published.targets) > 0
      /\ Len(published.app) \in Nat /\ Len(published.app) > 0
  <2>1. n \in Nat /\ Len(published.targets) \in Nat /\ Len(published.app) \in Nat
    BY <1>1 DEF TypeOK
  <2>2. Len(published.app) > 0
    BY <1>1, <1>2 DEF TypeOK
  <2>3. Len(published.snapshot) = n /\ n > 0
    BY <1>1 DEF Chain, Tip
  <2>4. n \in 1..Len(published.snapshot)
    BY <2>1, <2>3
  <2>5. Len(published.targets) > 0
    BY <1>1, <2>1, <2>4 DEF Chain, Within
  <2> QED
    BY <2>1, <2>2, <2>3, <2>5
<1>4. /\ t = published.timestamp[n] /\ t.version = n /\ t.snapshot = n
      /\ t \in [version: Nat, expires: Nat, snapshot: Nat]
  <2>1. t = published.timestamp[n] /\ n \in 1..n
    BY <1>3 DEF Newest, Last
  <2>2. published.timestamp[n] \in [version: Nat, expires: Nat, snapshot: Nat]
    <3>1. published.timestamp[n] \in ToSet(published.timestamp)
      <4>1. n \in 1..Len(published.timestamp)
        BY <1>3 DEF n
      <4> QED
        BY <1>1, <4>1, IsMember DEF TypeOK
    <3> QED
      BY <1>1, <3>1, TimestampFile
  <2> QED
    BY <1>1, <2>1, <2>2 DEF Chain, Numbered, Names
<1>5. /\ s = published.snapshot[n] /\ s.version = n
      /\ s.targets = Len(published.targets) /\ s.app = Len(published.app)
      /\ s \in [version: Nat, expires: Nat, targets: Nat, app: Nat]
  <2>1. s = published.snapshot[n] /\ n \in 1..n
    BY <1>3 DEF Newest, Last
  <2>2. published.snapshot[n] \in [version: Nat, expires: Nat, targets: Nat, app: Nat]
    <3>1. published.snapshot[n] \in ToSet(published.snapshot)
      <4>1. n \in 1..Len(published.snapshot)
        BY <1>3 DEF n
      <4> QED
        BY <1>1, <4>1, IsMember DEF TypeOK
    <3> QED
      BY <1>1, <3>1, SnapshotFile
  <2> QED
    BY <1>1, <1>3, <2>1, <2>2 DEF Chain, Numbered, Tip
<1>6. /\ g = published.targets[Len(published.targets)] /\ g.version = Len(published.targets)
      /\ g \in [version: Nat, expires: Nat]
  <2>1. g = published.targets[Len(published.targets)]
    BY DEF Newest, Last
  <2>2. published.targets[Len(published.targets)] \in [version: Nat, expires: Nat]
    <3>1. published.targets[Len(published.targets)] \in ToSet(published.targets)
      BY <1>1, <1>3, IsMember DEF TypeOK
    <3> QED
      BY <1>1, <3>1, TargetsFile
  <2> QED
    BY <1>1, <1>3, <2>1, <2>2 DEF Chain, Numbered
<1>7. /\ a = published.app[Len(published.app)] /\ a.version = Len(published.app)
      /\ a \in [version: Nat, expires: Nat, release: {0} \cup Releases]
  <2>1. a = published.app[Len(published.app)]
    BY DEF Newest, Last
  <2>2. published.app[Len(published.app)]
          \in [version: Nat, expires: Nat, release: {0} \cup Releases]
    <3>1. published.app[Len(published.app)] \in ToSet(published.app)
      BY <1>1, <1>3, IsMember DEF TypeOK
    <3> QED
      BY <1>1, <3>1, AppFile
  <2> QED
    BY <1>1, <1>3, <2>1, <2>2 DEF Chain, Numbered
<1> HIDE DEF t, s, g, a, n
<1>8. db.timestamp.version \in 0..n /\ (db.timestamp.version = n => db.timestamp = t)
  <2>1. CASE db.timestamp = Nothing.timestamp
    BY <1>3, <2>1 DEF Nothing
  <2>2. CASE /\ db.timestamp.version \in 1..Len(published.timestamp)
             /\ db.timestamp = published.timestamp[db.timestamp.version]
    BY <1>3, <1>4, <2>2 DEF n
  <2> QED
    BY <1>1, <2>1, <2>2 DEF FilesTrusted, PublishedFile
<1>9. AcceptsTimestamp(db, t)
  BY <1>2, <1>3, <1>4, <1>8 DEF AcceptsTimestamp, Advances
<1>10. /\ d1 \in Metadata /\ d1.timestamp = t /\ d1.targets = db.targets /\ d1.app = db.app
       /\ d1.snapshot.version \in {0, n} /\ d1.snapshot \in {db.snapshot, Nothing.snapshot}
  <2>1. CASE db.timestamp.version = n
    <3>1. d1 = db
      BY <1>3, <1>4, <2>1 DEF UpdateTimestamp
    <3> QED
      BY <1>1, <1>4, <1>8, <2>1, <3>1, Numbers DEF Trust
  <2>2. CASE db.timestamp.version # n
    <3>1. ~(t.version <= db.timestamp.version)
      BY <1>3, <1>4, <1>8, <2>2
    <3>2. d1 = [db EXCEPT !.timestamp = t,
                  !.snapshot = IF db.snapshot.version # n THEN Nothing.snapshot ELSE db.snapshot]
      BY <1>1, <1>2, <1>4, <3>1 DEF UpdateTimestamp, Metadata
    <3> HIDE DEF d1
    <3> QED
      BY <1>1, <1>4, <3>2 DEF Metadata, Nothing
  <2> QED
    BY <2>1, <2>2
<1> HIDE DEF d1
<1>11. /\ db.targets.version \in {0, Ceiling("targets")} /\ Ceiling("targets") <= s.targets
       /\ db.app.version <= s.app
       /\ db.targets.version \in Nat /\ db.app.version \in Nat /\ Ceiling("targets") \in Nat
  <2>1. highest["snapshot"] \in Nat /\ highest["snapshot"] <= n
    <3>1. highest["snapshot"] <= db.timestamp.snapshot /\ highest["snapshot"] \in Nat
      BY <1>1, Numbers DEF Trust
    <3>2. db.timestamp.snapshot \in 0..n
      <4>1. CASE db.timestamp = Nothing.timestamp
        BY <1>3, <4>1 DEF Nothing
      <4>2. CASE /\ db.timestamp.version \in 1..Len(published.timestamp)
                 /\ db.timestamp = published.timestamp[db.timestamp.version]
        <5>1. published.timestamp[db.timestamp.version].snapshot = db.timestamp.version
          <6>1. Names(published.timestamp)
            BY <1>1 DEF Chain
          <6> QED
            BY <4>2, <6>1 DEF Names
        <5> QED
          BY <1>8, <4>2, <5>1
      <4> QED
        BY <1>1, <4>1, <4>2 DEF FilesTrusted, PublishedFile
    <3> QED
      BY <1>3, <3>1, <3>2
  <2>2. n \in 1..Len(published.snapshot)
    BY <1>3
  <2>3. /\ Ceiling("targets") <= s.targets /\ Ceiling("app") <= s.app
        /\ Ceiling("targets") \in Nat /\ Ceiling("app") \in Nat
    BY <1>1, <1>5, <2>1, <2>2, CeilingGrows
  <2> QED
    BY <1>1, <1>5, <2>3, Numbers DEF Trust
<1>12. /\ db.targets.version = s.targets => db.targets = g
       /\ db.app.version = s.app => db.app = a
       /\ d1.snapshot.version = n => d1.snapshot = s
       /\ d1.snapshot.version = n => db.targets.version \in {0, s.targets}
  <2>1. db.targets.version = s.targets => db.targets = g
    BY <1>1, <1>3, <1>5, <1>6 DEF FilesTrusted, PublishedFile, Nothing
  <2>2. db.app.version = s.app => db.app = a
    BY <1>1, <1>3, <1>5, <1>7 DEF FilesTrusted, PublishedFile, Nothing
  <2>3. ASSUME d1.snapshot.version = n
        PROVE  d1.snapshot = s /\ db.targets.version \in {0, s.targets}
    <3>1. d1.snapshot = db.snapshot /\ db.snapshot.version = n /\ n # 0
      BY <1>3, <1>10, <2>3 DEF Nothing
    <3>2. db.snapshot = s
      BY <1>1, <1>5, <3>1 DEF FilesTrusted, PublishedFile, Nothing
    <3> QED
      BY <1>1, <1>11, <3>1, <3>2, SnapshotIsCeiling
  <2> QED
    BY <2>1, <2>2, <2>3
<1>13. /\ d2 \in Metadata /\ d2.timestamp = t /\ d2.snapshot = s /\ d2.app = db.app
       /\ d2.targets.version \in {0, s.targets} /\ (d2.targets.version # 0 => d2.targets = g)
  <2>1. AcceptsSnapshot(d1, s)
    BY <1>2, <1>3, <1>4, <1>5, <1>10 DEF AcceptsSnapshot, Trusted
  <2>2. CASE d1.snapshot.version = n
    <3>1. d2 = d1
      BY <1>4, <1>10, <2>2 DEF UpdateSnapshot
    <3> QED
      BY <1>10, <1>12, <2>2, <3>1
  <2>3. CASE d1.snapshot.version # n
    <3> DEFINE kept == IF db.targets.version = s.targets THEN db.targets ELSE Nothing.targets
    <3>1. d2 = [Purge(d1, s) EXCEPT !.snapshot = s]
      BY <1>4, <1>10, <2>1, <2>3 DEF UpdateSnapshot
    <3>2. Purge(d1, s) = [d1 EXCEPT !.targets = kept, !.app = db.app]
      <4>1. ~(d1.app.version > s.app)
        BY <1>5, <1>10, <1>11
      <4> QED
        BY <1>10, <4>1 DEF Purge, Metadata
    <3>3. /\ kept \in [version: Nat, expires: Nat] /\ kept.version \in {0, s.targets}
          /\ kept.version # 0 => kept = g
      BY <1>1, <1>12 DEF Metadata, Nothing
    <3> HIDE DEF kept
    <3>4. /\ d2 \in Metadata /\ d2.timestamp = d1.timestamp /\ d2.snapshot = s
          /\ d2.app = db.app /\ d2.targets = kept
      <4>1. db.app \in [version: Nat, expires: Nat, release: {0} \cup Releases]
        BY <1>1 DEF Metadata
      <4> HIDE DEF d2
      <4> QED
        BY <1>5, <1>10, <3>1, <3>2, <3>3, <4>1 DEF Metadata
    <3> QED
      BY <1>10, <3>3, <3>4
  <2> QED
    BY <2>2, <2>3
<1> HIDE DEF d2
<1>14. d3 \in Metadata /\ d3.snapshot = s /\ d3.targets = g /\ d3.app = db.app
  <2>1. AcceptsTargets(d2, g)
    <3>1. Advances(g, d2.targets)
      BY <1>2, <1>3, <1>5, <1>6, <1>13 DEF Advances
    <3> QED
      BY <1>2, <1>3, <1>5, <1>6, <1>13, <3>1 DEF AcceptsTargets, Trusted
  <2>2. CASE d2.targets.version = g.version
    BY <1>3, <1>6, <1>13, <2>2 DEF UpdateTargets
  <2>3. CASE d2.targets.version # g.version
    <3>1. d3 = [d2 EXCEPT !.targets = g]
      BY <2>1, <2>3 DEF UpdateTargets
    <3> HIDE DEF d3
    <3> QED
      BY <1>6, <1>13, <3>1 DEF Metadata
  <2> QED
    BY <2>2, <2>3
<1> HIDE DEF d3
<1>15. d4.snapshot = s /\ d4.targets = g /\ d4.app = a
  <2>1. AcceptsDelegatedTargets(d3, a)
    <3>1. Advances(a, d3.app)
      BY <1>2, <1>3, <1>5, <1>7, <1>11, <1>14 DEF Advances
    <3> QED
      BY <1>2, <1>3, <1>5, <1>6, <1>7, <1>14, <3>1 DEF AcceptsDelegatedTargets, Trusted
  <2>2. CASE d3.app.version = a.version
    BY <1>5, <1>7, <1>12, <1>14, <2>2 DEF UpdateDelegatedTargets
  <2>3. CASE d3.app.version # a.version
    <3>1. d4 = [d3 EXCEPT !.app = a]
      BY <2>1, <2>3 DEF UpdateDelegatedTargets
    <3> HIDE DEF d4
    <3> QED
      BY <1>7, <1>14, <3>1 DEF Metadata
  <2> QED
    BY <2>2, <2>3
<1>16. Refreshed = d4
  BY DEF Refreshed, d1, d2, d3, t, s, g, a
<1> HIDE DEF d4
<1>17. Resolves(d4)
  <2>1. Trusted(s) /\ Trusted(g) /\ Trusted(a)
    BY <1>2, <1>3, <1>5, <1>6, <1>7 DEF Trusted
  <2> QED
    BY <1>2, <1>15, <2>1 DEF Resolves
<1>18. AcceptsTimestamp(db, Newest("timestamp"))
  BY <1>9 DEF t
<1>19. Refreshed.app = Newest("app")
  BY <1>15, <1>16 DEF a
<1>20. Resolves(Refreshed)
  BY <1>16, <1>17
<1> QED
  BY <1>18, <1>19, <1>20

(* The verifier of the C ABI by itself (Spec of Verifier): trust never goes back,
   is of one publication, and recovers with the newest files. *)
LEMMA VerifierCorrect == Spec => [](NeverRollsBack /\ OneSnapshot /\ RefreshRecovers)
<1>1. VerifierInv => NeverRollsBack /\ OneSnapshot /\ RefreshRecovers
  BY InvNeverRollsBack, InvOneSnapshot, InvRefreshRecovers
<1> QED
  BY <1>1, VerifierInvInit, VerifierInvNext, PTL DEF Spec
=============================================================================
