---------------------------- MODULE IngestProofs ----------------------------
(***************************************************************************)
(* Theorems about Ingest, for every project, policy and set of documents,  *)
(* every route of a download and any number of changes and faults.         *)
(***************************************************************************)
EXTENDS Ingest, WellFoundedInduction, TLAPS

-----------------------------------------------------------------------------
(* The latest release exists: a nonempty set of tags has a greatest one. *)

LEMMA Least ==
    ASSUME NEW T \in SUBSET Nat, T # {}
    PROVE  \E x \in T : \A y \in T : x <= y
<1> DEFINE R == OpToRel(<, Nat)
<1>1. IsWellFoundedOn(R, Nat)
  BY NatLessThanWellFounded
<1>2. ASSUME NEW x \in T, NEW y \in T, ~(<<y, x>> \in R)
      PROVE  x <= y
  <2>1. x \in Nat /\ y \in Nat
    OBVIOUS
  <2>2. ~(y < x)
    BY <1>2, <2>1 DEF OpToRel
  <2> HIDE DEF R
  <2> QED
    BY <2>1, <2>2
<1> HIDE DEF R
<1>3. PICK x \in T : \A y \in T : ~(<<y, x>> \in R)
  BY <1>1, WFMin
<1> QED
  BY <1>2, <1>3

LEMMA Greatest ==
    ASSUME NEW n \in Nat, NEW S \in SUBSET (1..n), S # {}
    PROVE  \E x \in S : \A y \in S : y <= x
<1> DEFINE T == {n - s : s \in S}
<1>1. \A s \in S : s \in Nat /\ n - s \in Nat
  OBVIOUS
<1>2. T \in SUBSET Nat /\ T # {}
  BY <1>1
<1>3. PICK x \in T : \A y \in T : x <= y
  <2> HIDE DEF T
  <2> QED
    BY <1>2, Least
<1>4. PICK s \in S : x = n - s
  OBVIOUS
<1>5. \A u \in S : n - u \in T
  OBVIOUS
<1>6. \A u \in S : n - s <= n - u
  BY <1>3, <1>4, <1>5
<1> QED
  BY <1>1, <1>6

USE IngestAssumption

LEMMA NewestType == \A stages : Newest(stages) \in Tags \cup {NoTag}
<1> TAKE stages
<1> DEFINE listed == {t \in Tags : releases[t].stage \in stages}
<1>1. CASE listed = {}
  BY <1>1 DEF Newest
<1>2. CASE listed # {}
  <2>1. \E t \in listed : \A u \in listed : u <= t
    BY <1>2, Greatest DEF Tags
  <2>2. Newest(stages) = CHOOSE t \in listed : \A u \in listed : u <= t
    BY <1>2 DEF Newest
  <2> HIDE DEF listed
  <2>3. Newest(stages) \in listed
    BY <2>1, <2>2
  <2> QED
    BY <2>3 DEF listed
<1> QED
  BY <1>1, <1>2

LEMMA LatestType == LatestRelease \in Tags \cup {NoTag}
  BY NewestType DEF LatestRelease

LEMMA AttestationType ==
    ASSUME TypeOK, NEW key \in Blobs \cup Tags
    PROVE  Attestation(key) \in Documents \cup {None}
<1>1. statements[key] \in Seq(Documents)
  BY DEF TypeOK
<1> QED
  BY <1>1 DEF Attestation

LEMMA DecideType ==
    ASSUME NEW blob \in Blobs, NEW d
    PROVE  Decide(d, blob) \in Decision
  BY DEF Decide, Decision

-----------------------------------------------------------------------------
(* Types.  TypeOK becomes inductive with what a job has when it is somewhere. *)

Placed ==
    /\ job.pc = "release" => job.identity \in Repositories
    /\ job.pc \in {"download", "attest", "envelope", "ingest"} => job.tag \in Tags
    /\ job.pc \in {"download", "envelope"} => job.host \in Hosts
    /\ job.pc \in {"attest", "envelope", "ingest"} => job.blob \in Blobs
    /\ job.pc = "envelope" /\ job.honest => job.from \in Tags

TypeInv == TypeOK /\ Placed

LEMMA TypeInit == Init => TypeInv
<1> SUFFICES ASSUME Init PROVE TypeInv
  OBVIOUS
<1>1. job \in Job /\ Placed
  BY DEF Init, Idle, Job, Pc, Placed
<1>2. source \in [forge: {"github", "gitlab"}, critical: BOOLEAN, repository: Repositories]
  BY DEF Init
<1>3. releases \in [Tags -> Release] /\ held \in [Tags -> SUBSET Blobs]
  BY DEF Init, Release, Unreleased
<1>4. statements \in [Blobs \cup Tags -> Seq(Documents)]
  <2>1. PICK key \in Blobs \cup Tags, d \in Documents :
          \/ statements = [k \in Blobs \cup Tags |-> IF k = key THEN <<d>> ELSE <<>>]
          \/ statements = [k \in Blobs \cup Tags |-> <<>>]
    BY DEF Init
  <2>2. <<d>> \in Seq(Documents) /\ <<>> \in Seq(Documents)
    OBVIOUS
  <2> QED
    BY <2>1, <2>2
<1>5. repository \in Repositories
  BY DEF Init
<1>6. /\ quarantine \subseteq Blobs /\ identified \subseteq Repositories
      /\ lastPoll \in [tag: Tags \cup {NoTag}, skips: 0..MaxSkips]
      /\ outcome = None
      /\ changes \in 0..MaxChanges
      /\ faults \in 0..MaxFaults
  BY DEF Init, NoPoll
<1> QED
  BY <1>1, <1>2, <1>3, <1>4, <1>5, <1>6 DEF TypeInv, TypeOK

(* What is neither the job nor the forge.  A step that moves the job alone keeps
   the types of the rest. *)
JobOK == job \in Job /\ Placed
Counters ==
    /\ lastPoll \in [tag: Tags \cup {NoTag}, skips: 0..MaxSkips]
    /\ changes \in 0..MaxChanges
    /\ faults \in 0..MaxFaults

LEMMA JobStep ==
    ASSUME TypeInv, UNCHANGED <<source, forgeVars, quarantine, outcome, identified>>,
           Counters', JobOK'
    PROVE  TypeInv'
  BY DEF TypeInv, TypeOK, JobOK, Counters, forgeVars

LEMMA IdleOK == job' = Idle => JobOK'
  BY DEF Idle, JobOK, Job, Pc, Placed

LEMMA JobTypes ==
    ASSUME TypeInv
    PROVE  JobOK /\ Counters
  BY DEF TypeInv, TypeOK, JobOK, Counters

LEMMA FaultOK == TypeInv /\ (Fault \/ UNCHANGED faults) => faults' \in 0..MaxFaults
  BY DEF TypeInv, TypeOK, Fault

LEMMA StreamOK ==
    ASSUME TypeInv, StreamStep, UNCHANGED <<lastPoll, outcome>>, JobOK',
           Fault \/ UNCHANGED faults
    PROVE  TypeInv'
<1>1. Counters'
  BY JobTypes, FaultOK DEF StreamStep, Counters
<1> QED
  BY <1>1, JobStep DEF StreamStep

LEMMA FailOK ==
    ASSUME TypeInv, Fail, quarantine' \subseteq Blobs,
           UNCHANGED <<source, forgeVars, identified, changes>>, faults' \in 0..MaxFaults
    PROVE  TypeInv'
<1>1. JobOK'
  BY IdleOK DEF Fail
<1> QED
  BY <1>1 DEF Fail, TypeInv, TypeOK, JobOK, forgeVars

LEMMA QuarantineTypes == TypeInv => quarantine \subseteq Blobs
  BY DEF TypeInv, TypeOK

(* The locals of _stream are new, the others stay. *)
LEMMA Streams ==
    ASSUME NEW state \in Job, NEW host \in Hosts \cup {None}, NEW honest \in BOOLEAN,
           job' = StreamFrom(host, honest, state)
    PROVE  /\ job' \in Job
           /\ job'.pc = state.pc /\ job'.tag = state.tag /\ job'.blob = state.blob
           /\ job'.from = state.from /\ job'.host = host /\ job'.honest = honest
<1>1. job' = [state EXCEPT !.host = host, !.hops = 0, !.honest = honest]
  BY DEF StreamFrom
<1>2. 0 \in 0..(MaxRedirects + 1)
  OBVIOUS
<1>3. job' \in Job
  BY <1>1, <1>2 DEF Job
<1>4. job'.pc = state.pc /\ job'.tag = state.tag /\ job'.blob = state.blob
  BY <1>1 DEF Job
<1>5. job'.from = state.from /\ job'.host = host /\ job'.honest = honest
  BY <1>1 DEF Job
<1> QED
  BY <1>3, <1>4, <1>5

(* An attestation, or none, takes the job to the policy. *)
LEMMA ReceivedTypes ==
    ASSUME TypeInv, NEW d \in Documents \cup {None}, Received(d), StreamStep,
           job.pc \in {"attest", "envelope"}, Fault \/ UNCHANGED faults
    PROVE  TypeInv'
<1>1. job \in Job /\ job.tag \in Tags /\ job.blob \in Blobs
  BY JobTypes DEF JobOK, Placed
<1> DEFINE state == [job EXCEPT !.pc = "ingest", !.from = NoTag, !.envelope = d]
<1>2. /\ state \in Job /\ state.pc = "ingest" /\ state.tag = job.tag
      /\ state.blob = job.blob
  BY <1>1 DEF Job, Pc
<1>3. job' = StreamFrom(None, TRUE, state)
  BY DEF Received, Streamed
<1> HIDE DEF state
<1>4. JobOK'
  <2>1. /\ job' \in Job /\ job'.pc = "ingest"
        /\ job'.tag = job.tag /\ job'.blob = job.blob
    BY <1>2, <1>3, Streams, Zenon
  <2> QED
    BY <1>1, <2>1 DEF JobOK, Placed
<1> QED
  BY <1>4, StreamOK DEF Received

LEMMA RequestTypes ==
    ASSUME TypeInv,
           \/ StartValidate \/ ProjectIdentity
           \/ \E hint \in Hints : Tick(hint)
           \/ AttestationOnGitHub \/ AttestationOnGitLab \/ WrongAttestation
    PROVE  TypeInv'
<1> USE JobTypes DEF JobOK, Counters, Placed, Job, Pc
<1>1. CASE StartValidate
  <2>1. UNCHANGED <<source, forgeVars, quarantine, outcome, identified>> /\ Counters'
    BY <1>1 DEF StartValidate
  <2>2. JobOK'
    BY <1>1 DEF StartValidate, Goto
  <2> QED
    BY <2>1, <2>2, JobStep
<1>2. CASE ProjectIdentity
  <2>1. UNCHANGED <<source, forgeVars, quarantine, outcome>> /\ Counters'
    BY <1>2 DEF ProjectIdentity
  <2>2. repository \in Repositories
    BY DEF TypeInv, TypeOK
  <2>3. JobOK'
    BY <1>2, <2>2 DEF ProjectIdentity
  <2>4. identified' \subseteq Repositories
    BY <1>2, <2>2 DEF ProjectIdentity, TypeInv, TypeOK
  <2> QED
    BY <2>1, <2>3, <2>4 DEF TypeInv, TypeOK, forgeVars
<1>3. CASE AttestationOnGitHub
  <2>1. job.blob \in Blobs /\ Attestation(job.blob) \in Documents \cup {None}
    BY <1>3, AttestationType DEF AttestationOnGitHub, TypeInv
  <2> QED
    BY <1>3, <2>1, ReceivedTypes DEF AttestationOnGitHub
<1>4. ASSUME NEW hint \in Hints, Tick(hint) PROVE TypeInv'
  <2>1. UNCHANGED <<source, forgeVars, quarantine, outcome, identified>>
    BY <1>4 DEF Tick
  <2>2. Counters'
    <3>1. UNCHANGED <<changes, faults>>
      BY <1>4 DEF Tick
    <3>2. lastPoll \in [tag: Tags \cup {NoTag}, skips: 0..MaxSkips] /\ MaxSkips \in Nat
      BY IngestAssumption
    <3>3. CASE lastPoll' = lastPoll
      BY <3>1, <3>3
    <3>4. CASE lastPoll' = [lastPoll EXCEPT !.skips = lastPoll.skips + 1] /\ lastPoll.skips < MaxSkips
      <4>1. lastPoll.skips + 1 \in 0..MaxSkips
        BY <3>2, <3>4
      <4> QED
        BY <3>1, <3>2, <3>4, <4>1
    <3> QED
      BY <1>4, <3>3, <3>4 DEF Tick, Unchanged, SkipsNow
  <2>3. JobOK'
    <3>1. job' = job \/ job' = [job EXCEPT !.pc = "latest"]
      BY <1>4 DEF Tick, Goto
    <3>2. CASE job' = [job EXCEPT !.pc = "latest"]
      BY <3>2
    <3> QED
      BY <3>1, <3>2
  <2> QED
    BY <2>1, <2>2, <2>3, JobStep
<1>5. CASE AttestationOnGitLab
  <2>1. CASE Received(None)
    BY <1>5, <2>1, ReceivedTypes DEF AttestationOnGitLab
  <2>2. CASE /\ LatestRelease # NoTag /\ UNCHANGED <<lastPoll, outcome>>
             /\ job' = StreamFrom(Route[1], TRUE,
                          [job EXCEPT !.pc = "envelope", !.from = LatestRelease])
    <3>1. LatestRelease \in Tags /\ Route[1] \in Hosts
      BY <2>2, LatestType
    <3>2. job \in Job /\ job.tag \in Tags /\ job.blob \in Blobs
      BY <1>5 DEF AttestationOnGitLab
    <3> DEFINE state == [job EXCEPT !.pc = "envelope", !.from = LatestRelease]
    <3>3. /\ state \in Job /\ state.pc = "envelope" /\ state.from = LatestRelease
          /\ state.tag = job.tag /\ state.blob = job.blob
      BY <3>1, <3>2
    <3> HIDE DEF state
    <3>4. JobOK'
      <4>1. /\ job' \in Job /\ job'.pc = "envelope" /\ job'.from = LatestRelease
            /\ job'.tag = job.tag /\ job'.blob = job.blob /\ job'.host = Route[1]
        BY <2>2, <3>1, <3>3, Streams, Zenon DEF state
      <4> QED
        BY <3>1, <3>2, <4>1
    <3> QED
      BY <1>5, <2>2, <3>4, StreamOK DEF AttestationOnGitLab
  <2> QED
    BY <1>5, <2>1, <2>2 DEF AttestationOnGitLab
<1>6. CASE WrongAttestation
  <2>1. ASSUME NEW d \in {None} \cup Documents, Received(d) PROVE TypeInv'
    BY <1>6, <2>1, ReceivedTypes DEF WrongAttestation
  <2>2. ASSUME NEW host \in Hosts, UNCHANGED <<lastPoll, outcome>>,
               job' = StreamFrom(host, FALSE, [job EXCEPT !.pc = "envelope"])
        PROVE  TypeInv'
    <3>1. job \in Job /\ job.tag \in Tags /\ job.blob \in Blobs
      BY <1>6 DEF WrongAttestation
    <3> DEFINE state == [job EXCEPT !.pc = "envelope"]
    <3>2. /\ state \in Job /\ state.pc = "envelope"
          /\ state.tag = job.tag /\ state.blob = job.blob
      BY <3>1
    <3> HIDE DEF state
    <3>3. JobOK'
      <4>1. /\ job' \in Job /\ job'.pc = "envelope" /\ ~job'.honest
            /\ job'.tag = job.tag /\ job'.blob = job.blob /\ job'.host = host
        BY <2>2, <3>2, Streams, Zenon DEF state
      <4> QED
        BY <3>1, <4>1
    <3> QED
      BY <1>6, <2>2, <3>3, StreamOK DEF WrongAttestation
  <2> QED
    BY <1>6, <2>1, <2>2 DEF WrongAttestation
<1> QED
  BY <1>1, <1>2, <1>3, <1>4, <1>5, <1>6

LEMMA ReadTypes == TypeInv /\ ReadLatestRelease => TypeInv'
<1> SUFFICES ASSUME TypeInv, ReadLatestRelease PROVE TypeInv'
  OBVIOUS
<1>1. UNCHANGED <<source, forgeVars, quarantine, identified, changes, faults>>
  BY DEF ReadLatestRelease
<1>2. CASE LatestRelease = NoTag
  <2>1. job' = Idle /\ lastPoll' = NoPoll /\ UNCHANGED outcome
    BY <1>2 DEF ReadLatestRelease
  <2>2. Counters'
    BY <1>1, <2>1, JobTypes DEF Counters, NoPoll
  <2> QED
    BY <1>1, <2>1, <2>2, IdleOK, JobStep
<1>3. CASE LatestRelease # NoTag /\ releases[LatestRelease].asset = None
  <2>1. Fail
    BY <1>3 DEF ReadLatestRelease
  <2> QED
    BY <1>1, <2>1, FailOK, FaultOK, QuarantineTypes
<1>4. CASE LatestRelease # NoTag /\ releases[LatestRelease].asset # None
  <2>1. /\ job' = StreamFrom(Route[1], TRUE,
                      [job EXCEPT !.pc = "download", !.tag = LatestRelease])
        /\ UNCHANGED <<lastPoll, outcome>>
    BY <1>4 DEF ReadLatestRelease
  <2>2. LatestRelease \in Tags /\ Route[1] \in Hosts
    BY <1>4, LatestType
  <2> DEFINE state == [job EXCEPT !.pc = "download", !.tag = LatestRelease]
  <2>3. state \in Job /\ state.pc = "download" /\ state.tag = LatestRelease
    BY <2>2, JobTypes DEF JobOK, Job, Pc
  <2> HIDE DEF state
  <2>4. JobOK'
    <3>1. /\ job' \in Job /\ job'.pc = "download"
          /\ job'.tag = LatestRelease /\ job'.host = Route[1]
      BY <2>1, <2>2, <2>3, Streams, Zenon DEF state
    <3> QED
      BY <2>2, <3>1 DEF JobOK, Placed
  <2> QED
    BY <1>1, <2>1, <2>4, JobTypes, JobStep DEF Counters
<1> QED
  BY <1>2, <1>3, <1>4

LEMMA RedirectTypes ==
    ASSUME TypeInv, NEW host \in Hosts, NEW honest \in BOOLEAN, Redirect(host, honest),
           honest => job.honest, Fault \/ UNCHANGED faults
    PROVE  TypeInv'
<1>1. /\ job' = [job EXCEPT !.host = host, !.hops = @ + 1, !.honest = honest]
      /\ job.pc \in {"download", "envelope"} /\ job.hops <= MaxRedirects
  BY DEF Redirect, Streaming, Followable
<1>2. job.hops + 1 \in 0..(MaxRedirects + 1) /\ job.tag \in Tags
  BY <1>1, JobTypes DEF JobOK, Job, Placed
<1>3. JobOK'
  <2>1. job \in Job
    BY JobTypes DEF JobOK
  <2>2. job' \in Job
    BY <1>1, <1>2, <2>1 DEF Job
  <2> QED
    BY <1>1, <1>2, <2>1, <2>2, JobTypes DEF JobOK, Job, Placed
<1> QED
  BY <1>3, StreamOK DEF Redirect

LEMMA ServeTypes ==
    ASSUME TypeInv, NEW blob \in Blobs \cup {None}, NEW honest \in BOOLEAN, Serve(blob, honest),
           Fault \/ UNCHANGED faults
    PROVE  TypeInv'
<1>1. CASE Fail
  <2>1. faults' \in 0..MaxFaults
    BY FaultOK
  <2> QED
    BY <1>1, <2>1, FailOK, QuarantineTypes DEF Serve, StreamStep
<1>2. CASE ~Fail
  <2>1. /\ blob \in Blobs
        /\ job' = Streamed([job EXCEPT !.pc = "attest", !.blob = blob, !.genuine = honest])
        /\ UNCHANGED <<lastPoll, outcome>>
    BY <1>2 DEF Serve
  <2>2. job.pc = "download" /\ job \in Job /\ job.tag \in Tags
    BY JobTypes DEF Serve, JobOK, Placed
  <2> DEFINE state == [job EXCEPT !.pc = "attest", !.blob = blob, !.genuine = honest]
  <2>3. /\ state \in Job /\ state.pc = "attest"
        /\ state.tag = job.tag /\ state.blob = blob
    BY <2>1, <2>2 DEF Job, Pc
  <2> HIDE DEF state
  <2>4. JobOK'
    <3>1. /\ job' \in Job /\ job'.pc = "attest"
          /\ job'.tag = job.tag /\ job'.blob = blob
      BY <2>1, <2>3, Streams, Zenon DEF state, Streamed
    <3> QED
      BY <2>1, <2>2, <3>1 DEF JobOK, Placed
  <2> QED
    BY <2>1, <2>4, StreamOK DEF Serve
<1> QED
  BY <1>1, <1>2

LEMMA StreamTypes ==
    ASSUME TypeInv,
           \/ HonestRedirect \/ RefuseHop \/ ServeHonestly \/ ServeOther
           \/ \E host \in Hosts : StrayRedirect(host)
    PROVE  TypeInv'
<1>1. CASE HonestRedirect
  <2>1. job.hops \in Nat
    BY JobTypes DEF JobOK, Job
  <2>2. Route[job.hops + 2] \in Hosts
    BY <1>1, <2>1 DEF HonestRedirect
  <2> QED
    BY <1>1, <2>2, RedirectTypes DEF HonestRedirect
<1>2. CASE RefuseHop
  <2>1. CASE job.pc = "download"
    BY <1>2, <2>1, FailOK, FaultOK, QuarantineTypes DEF RefuseHop, StreamStep
  <2>2. CASE job.pc = "envelope"
    BY <1>2, <2>2, ReceivedTypes DEF RefuseHop
  <2> QED
    BY <1>2, <2>1, <2>2 DEF RefuseHop, Streaming
<1>3. CASE ServeHonestly
  <2>1. CASE job.pc = "download" /\ Serve(releases[job.tag].asset, TRUE)
    <3>1. job.tag \in Tags
      BY <2>1, JobTypes DEF JobOK, Placed
    <3>2. releases[job.tag].asset \in Blobs \cup {None}
      BY <3>1 DEF TypeInv, TypeOK, Release
    <3> QED
      BY <1>3, <2>1, <3>2, ServeTypes DEF ServeHonestly
  <2>2. CASE job.pc = "envelope" /\ ServeEnvelope(Attestation(job.from))
    <3>1. job.from \in Tags
      BY <1>3, <2>2, JobTypes DEF ServeHonestly, JobOK, Placed
    <3>2. Attestation(job.from) \in Documents \cup {None}
      BY <3>1, AttestationType DEF TypeInv
    <3> QED
      BY <1>3, <2>2, <3>2, ReceivedTypes DEF ServeHonestly, ServeEnvelope
  <2> QED
    BY <1>3, <2>1, <2>2 DEF ServeHonestly
<1>4. ASSUME NEW host \in Hosts, StrayRedirect(host) PROVE TypeInv'
  BY <1>4, RedirectTypes DEF StrayRedirect
<1>5. CASE ServeOther
  <2>1. ASSUME NEW blob \in Blobs, Serve(blob, FALSE) PROVE TypeInv'
    BY <1>5, <2>1, ServeTypes DEF ServeOther
  <2>2. ASSUME NEW d \in {None} \cup Documents, ServeEnvelope(d) PROVE TypeInv'
    BY <1>5, <2>2, ReceivedTypes DEF ServeOther, ServeEnvelope
  <2> QED
    BY <1>5, <2>1, <2>2 DEF ServeOther
<1> QED
  BY <1>1, <1>2, <1>3, <1>4, <1>5

LEMMA IngestTypes == TypeInv /\ IngestBlob => TypeInv'
<1> SUFFICES ASSUME TypeInv, IngestBlob PROVE TypeInv'
  OBVIOUS
<1> DEFINE decision == Decide(job.envelope, job.blob)
<1>1. job.blob \in Blobs /\ job.tag \in Tags /\ job.genuine \in BOOLEAN
  BY JobTypes DEF IngestBlob, JobOK, Placed, Job
<1>2. decision \in Decision
  BY <1>1, DecideType
<1>3. source.repository \in Repositories /\ quarantine \subseteq Blobs
  BY DEF TypeInv, TypeOK
<1>4. /\ job' = Idle
      /\ quarantine' \subseteq Blobs
      /\ UNCHANGED <<source, forgeVars, identified, changes, faults>>
  BY <1>1, <1>3 DEF IngestBlob, Admitted
<1>5. IF decision = "error" THEN UNCHANGED <<lastPoll, outcome>> ELSE OutcomeRecord(decision)
  BY DEF IngestBlob
<1> HIDE DEF decision
<1>6. lastPoll' \in [tag: Tags \cup {NoTag}, skips: 0..MaxSkips]
  BY <1>1, <1>5, JobTypes DEF OutcomeRecord, Counters
<1>7. outcome' \in {None} \cup [tag: Tags, blob: Blobs, decision: Decision,
                               repository: Repositories, honest: BOOLEAN]
  BY <1>1, <1>2, <1>3, <1>5 DEF OutcomeRecord, TypeInv, TypeOK
<1> QED
  BY <1>4, <1>6, <1>7, IdleOK DEF TypeInv, TypeOK, JobOK, forgeVars

LEMMA ProjectTypes == TypeInv /\ Project => TypeInv'
<1> SUFFICES ASSUME TypeInv, Project PROVE TypeInv'
  OBVIOUS
<1>1. /\ UNCHANGED <<source, job, quarantine, lastPoll, outcome, identified, faults>>
      /\ changes' \in 0..MaxChanges
  <2>1. Change
    BY DEF Project, PublishRelease, Restage, ReplaceAsset, Attest, Reregister
  <2>2. changes \in 0..MaxChanges /\ MaxChanges \in Nat
    BY IngestAssumption DEF TypeInv, TypeOK
  <2> QED
    BY <2>1, <2>2 DEF Change
<1>2. /\ releases \in [Tags -> Release] /\ held \in [Tags -> SUBSET Blobs]
      /\ statements \in [Blobs \cup Tags -> Seq(Documents)] /\ repository \in Repositories
  BY DEF TypeInv, TypeOK
<1> DEFINE Typed ==
      /\ releases' \in [Tags -> Release] /\ held' \in [Tags -> SUBSET Blobs]
      /\ statements' \in [Blobs \cup Tags -> Seq(Documents)] /\ repository' \in Repositories
<1>3. ASSUME NEW t \in Tags, NEW stage \in {"prerelease", "published"},
             NEW blob \in Blobs \cup {None}, PublishRelease(t, stage, blob)
      PROVE  Typed
  <2>1. [stage |-> stage, asset |-> blob] \in Release
    BY DEF Release
  <2>2. releases' \in [Tags -> Release]
    BY <1>2, <1>3, <2>1 DEF PublishRelease
  <2> QED
    BY <1>2, <1>3, <2>2 DEF PublishRelease
<1>4. ASSUME NEW t \in Tags, NEW stage \in {"absent", "prerelease", "published"}, Restage(t, stage)
      PROVE  Typed
  <2>1. [releases[t] EXCEPT !.stage = stage] \in Release
    <3>1. releases[t] \in Release
      BY <1>2
    <3> QED
      BY <3>1, Zenon DEF Release
  <2>2. releases' \in [Tags -> Release]
    BY <1>2, <1>4, <2>1 DEF Restage
  <2> QED
    BY <1>2, <1>4, <2>2 DEF Restage
<1>5. ASSUME NEW t \in Tags, NEW blob \in Blobs \cup {None}, ReplaceAsset(t, blob)
      PROVE  Typed
  <2>1. [releases[t] EXCEPT !.asset = blob] \in Release
    <3>1. releases[t] \in Release
      BY <1>2
    <3> QED
      BY <3>1, Zenon DEF Release
  <2>2. releases' \in [Tags -> Release]
    BY <1>2, <1>5, <2>1 DEF ReplaceAsset
  <2> QED
    BY <1>2, <1>5, <2>2 DEF ReplaceAsset
<1>6. ASSUME NEW key \in Blobs \cup Tags, NEW d \in Documents, Attest(key, d)
      PROVE  Typed
  <2>1. <<d>> \in Seq(Documents)
    OBVIOUS
  <2> QED
    BY <1>2, <1>6, <2>1 DEF Attest
<1>7. ASSUME NEW r \in Repositories, Reregister(r)
      PROVE  Typed
  BY <1>2, <1>7 DEF Reregister
<1>8. Typed
  BY <1>3, <1>4, <1>5, <1>6, <1>7 DEF Project
<1> QED
  BY <1>1, <1>8 DEF TypeInv, TypeOK, Placed

LEMMA TypeNext == TypeInv /\ [Next]_vars => TypeInv'
<1> SUFFICES ASSUME TypeInv, [Next]_vars PROVE TypeInv'
  OBVIOUS
<1>1. CASE Validated
  <2>1. job.identity \in Repositories
    BY <1>1 DEF Validated, TypeInv, Placed
  <2>2. source' \in [forge: {"github", "gitlab"}, critical: BOOLEAN, repository: Repositories]
    BY <1>1, <2>1 DEF Validated, TypeInv, TypeOK
  <2> QED
    BY <1>1, <2>2, IdleOK DEF Validated, TypeInv, TypeOK, JobOK, forgeVars
<1>2. CASE Interrupted
  <2>1. job.pc = "ingest" => Admitted \subseteq Blobs
    BY JobTypes DEF JobOK, Placed, Admitted
  <2>2. quarantine' \subseteq Blobs
    BY <1>2, <2>1, QuarantineTypes DEF Interrupted
  <2> QED
    BY <1>2, <2>2, FailOK, FaultOK DEF Interrupted
<1>3. CASE UNCHANGED vars
  BY <1>3 DEF vars, forgeVars, TypeInv, TypeOK, Placed
<1> QED
  BY <1>1, <1>2, <1>3, RequestTypes, ReadTypes, StreamTypes, IngestTypes, ProjectTypes
     DEF Next, Poll, Validate

(* The registry's last poll, the quarantine and every local of the worker have their
   types in every state.  What that says beyond types: the count of skips that is
   carried from record to record never exceeds MAX_CONSECUTIVE_SKIPS, and no stream
   takes more than one hop over its limit. *)
THEOREM TypeCorrect == Spec => []TypeOK
<1>1. TypeInv => TypeOK
  BY DEF TypeInv
<1> QED
  BY TypeInit, TypeNext, <1>1, PTL DEF Spec

-----------------------------------------------------------------------------
(* Where a blob comes from.  A job that is past an honest download has what was the
   asset of its release. *)

Downloaded ==
    job.pc \in {"attest", "envelope", "ingest"} /\ job.genuine => job.blob \in held[job.tag]
Listed == \A t \in Tags : releases[t].asset \in held[t] \cup {None}
RecordInv == Downloaded /\ Listed /\ RecordIsOfOneRelease

LEMMA RecordInit == Init => RecordInv
  BY DEF Init, RecordInv, Downloaded, Listed, RecordIsOfOneRelease, Idle, Unreleased

(* The worker changes nothing on the forge, and the project nothing else. *)
Worker == StartValidate \/ Validate \/ Poll \/ Interrupted

LEMMA WorkerReads == Worker => UNCHANGED forgeVars
  BY DEF Worker, StartValidate, Validate, ProjectIdentity, Validated, Poll, Tick,
         ReadLatestRelease, HonestRedirect, StrayRedirect, Redirect, RefuseHop, ServeHonestly,
         ServeOther, Serve, ServeEnvelope, AttestationOnGitHub, AttestationOnGitLab,
         WrongAttestation, StreamStep, IngestBlob, Interrupted

LEMMA ProjectActs ==
    Project => UNCHANGED <<source, job, quarantine, lastPoll, outcome, identified, faults>>
  BY DEF Project, PublishRelease, Restage, ReplaceAsset, Attest, Reregister, Change

(* What a tag held it held for ever. *)
LEMMA HeldGrows == TypeInv /\ [Next]_vars => \A t \in Tags : held[t] \subseteq held'[t]
<1> SUFFICES ASSUME TypeInv, [Next]_vars, NEW t \in Tags PROVE held[t] \subseteq held'[t]
  OBVIOUS
<1>1. held \in [Tags -> SUBSET Blobs]
  BY DEF TypeInv, TypeOK
<1>2. ASSUME NEW u \in Tags, NEW stage, NEW blob, PublishRelease(u, stage, blob)
      PROVE  held[t] \subseteq held'[t]
  BY <1>1, <1>2 DEF PublishRelease
<1>3. ASSUME NEW u \in Tags, NEW blob, ReplaceAsset(u, blob)
      PROVE  held[t] \subseteq held'[t]
  BY <1>1, <1>3 DEF ReplaceAsset
<1>4. CASE UNCHANGED held
  BY <1>4
<1> QED
  BY <1>2, <1>3, <1>4, WorkerReads
     DEF Next, vars, forgeVars, Worker, Project, Restage, Attest, Reregister

(* Only the end of a poll decides anything. *)
LEMMA OnlyIngestDecides == TypeInv /\ [Next]_vars => IngestBlob \/ UNCHANGED outcome
<1> SUFFICES ASSUME TypeInv, [Next]_vars, ~IngestBlob PROVE UNCHANGED outcome
  OBVIOUS
<1>1. CASE Poll
  BY <1>1
     DEF Poll, Tick, ReadLatestRelease, HonestRedirect, StrayRedirect, Redirect, RefuseHop,
         ServeHonestly, ServeOther, Serve, ServeEnvelope, AttestationOnGitHub,
         AttestationOnGitLab, WrongAttestation, Received, Fail
<1> QED
  BY <1>1, ProjectActs
     DEF Next, vars, StartValidate, Validate, ProjectIdentity, Validated, Interrupted, Fail

(* The history of the pins and the quarantine grow; the pin is of the first. *)
LEMMA HistoryGrows ==
    TypeInv /\ [Next]_vars => identified \subseteq identified' /\ quarantine \subseteq quarantine'
  BY ProjectActs
     DEF Next, vars, StartValidate, Validate, ProjectIdentity, Validated, Poll, Tick,
         ReadLatestRelease, HonestRedirect, StrayRedirect, Redirect, RefuseHop, ServeHonestly,
         ServeOther, Serve, ServeEnvelope, AttestationOnGitHub, AttestationOnGitLab,
         WrongAttestation, StreamStep, IngestBlob, Interrupted

(* Only a validation changes the row. *)
LEMMA SourceMoves == TypeInv /\ [Next]_vars => Validated \/ UNCHANGED source
  BY ProjectActs
     DEF Next, vars, StartValidate, Validate, ProjectIdentity, Poll, Tick,
         ReadLatestRelease, HonestRedirect, StrayRedirect, Redirect, RefuseHop, ServeHonestly,
         ServeOther, Serve, ServeEnvelope, AttestationOnGitHub, AttestationOnGitLab,
         WrongAttestation, StreamStep, IngestBlob, Interrupted

LEMMA ForgeStays == TypeInv /\ [Next]_vars => source'.forge = source.forge
  BY SourceMoves DEF Validated, TypeInv, TypeOK

(* How a step moves the job, as far as the theorems tell jobs apart. *)
Early == {"project", "release", "latest", "download"}

(* A step within a poll that has its blob, which stays what it is. *)
Keeps ==
    /\ job'.tag = job.tag /\ job'.blob = job.blob /\ job'.genuine = job.genuine
    /\ job.pc \in {"attest", "envelope"} /\ job'.pc \in {"envelope", "ingest"}

LEMMA ReceivedMoves ==
    ASSUME TypeInv, NEW d, Received(d), job.pc \in {"attest", "envelope"}
    PROVE  Keeps
<1>1. job \in Job
  BY JobTypes DEF JobOK
<1>2. job' = [[job EXCEPT !.pc = "ingest", !.from = NoTag, !.envelope = d]
                EXCEPT !.host = None, !.hops = 0, !.honest = TRUE]
  BY DEF Received, Streamed, StreamFrom
<1> QED
  BY <1>1, <1>2 DEF Keeps, Job

LEMMA EnvelopeMoves ==
    ASSUME TypeInv, job.pc = "attest", NEW host, NEW honest, NEW from,
           job' = StreamFrom(host, honest, [job EXCEPT !.pc = "envelope", !.from = from])
    PROVE  Keeps
<1>1. job \in Job
  BY JobTypes DEF JobOK
<1>2. job' = [[job EXCEPT !.pc = "envelope", !.from = from]
                EXCEPT !.host = host, !.hops = 0, !.honest = honest]
  BY DEF StreamFrom
<1> QED
  BY <1>1, <1>2 DEF Keeps, Job

LEMMA StrayEnvelopeMoves ==
    ASSUME TypeInv, job.pc = "attest", NEW host,
           job' = StreamFrom(host, FALSE, [job EXCEPT !.pc = "envelope"])
    PROVE  Keeps
<1>1. job \in Job
  BY JobTypes DEF JobOK
<1>2. job' = [[job EXCEPT !.pc = "envelope"]
                EXCEPT !.host = host, !.hops = 0, !.honest = FALSE]
  BY DEF StreamFrom
<1> QED
  BY <1>1, <1>2 DEF Keeps, Job

LEMMA RedirectMoves ==
    ASSUME TypeInv, NEW host, NEW honest, Redirect(host, honest)
    PROVE  job'.pc \in Early \/ Keeps
<1>1. job \in Job
  BY JobTypes DEF JobOK
<1> QED
  BY <1>1 DEF Redirect, Streaming, Keeps, Early, Job

LEMMA JobMoves ==
    ASSUME TypeInv, [Next]_vars
    PROVE  \/ job' = job \/ job' = Idle
           \/ ProjectIdentity \/ job'.pc \in Early \ {"release"}
           \/ Keeps
           \/ Serve(releases[job.tag].asset, TRUE) \/ \E blob \in Blobs : Serve(blob, FALSE)
<1>1. job \in Job
  BY JobTypes DEF JobOK
<1>2. CASE StartValidate
  BY <1>1, <1>2 DEF StartValidate, Goto, Job, Early
<1>3. ASSUME NEW hint, Tick(hint)
      PROVE  job' = job \/ job'.pc \in Early \ {"release"}
  BY <1>1, <1>3 DEF Tick, Goto, Job, Early
<1>4. CASE ReadLatestRelease
  <2>1. CASE job' = StreamFrom(Route[1], TRUE,
                      [job EXCEPT !.pc = "download", !.tag = LatestRelease])
    <3> DEFINE state == [job EXCEPT !.pc = "download", !.tag = LatestRelease]
    <3>1. state \in [pc : {"download"}, tag : {LatestRelease}, blob : {job.blob},
                     genuine : {job.genuine}, from : {job.from}, envelope : {job.envelope},
                     host : {job.host}, hops : {job.hops}, honest : {job.honest},
                     identity : {job.identity}]
      BY <1>1 DEF Job
    <3>2. job' = [state EXCEPT !.host = Route[1], !.hops = 0, !.honest = TRUE]
      BY <2>1 DEF StreamFrom
    <3> HIDE DEF state
    <3>3. job'.pc = "download"
      BY <3>1, <3>2
    <3> QED
      BY <3>3 DEF Early
  <2> QED
    BY <1>4, <2>1 DEF ReadLatestRelease, Fail
<1>5. CASE HonestRedirect \/ \E host : StrayRedirect(host)
  <2>1. PICK host, honest : Redirect(host, honest)
    BY <1>5 DEF HonestRedirect, StrayRedirect
  <2> QED
    BY <1>1, <2>1, RedirectMoves DEF Early, Redirect, Streaming, Job
<1>6. CASE RefuseHop
  BY <1>6, ReceivedMoves DEF RefuseHop, Streaming, Fail
<1>7. CASE ServeHonestly \/ ServeOther
  BY <1>7, ReceivedMoves DEF ServeHonestly, ServeOther, ServeEnvelope
<1>8. CASE AttestationOnGitHub \/ AttestationOnGitLab
  BY <1>8, ReceivedMoves, EnvelopeMoves DEF AttestationOnGitHub, AttestationOnGitLab
<1>9. CASE WrongAttestation
  BY <1>9, ReceivedMoves, StrayEnvelopeMoves DEF WrongAttestation
<1>10. CASE ProjectIdentity \/ job' = job \/ job' = Idle
  BY <1>10
<1> QED
  BY <1>2, <1>3, <1>4, <1>5, <1>6, <1>7, <1>8, <1>9, <1>10, ProjectActs
     DEF Next, vars, Validate, Validated, Poll, IngestBlob, Fail, Interrupted

LEMMA AssetType ==
    ASSUME TypeInv, Serve(releases[job.tag].asset, TRUE)
    PROVE  releases[job.tag].asset \in Blobs \cup {None}
<1>1. job.tag \in Tags
  BY JobTypes DEF Serve, JobOK, Placed
<1> QED
  BY <1>1 DEF TypeInv, TypeOK, Release

LEMMA ServeMoves ==
    ASSUME TypeInv, NEW blob \in Blobs \cup {None}, NEW honest, Serve(blob, honest)
    PROVE  /\ UNCHANGED forgeVars
           /\ \/ job' = Idle
              \/ /\ blob # None /\ job'.pc = "attest"
                 /\ job'.tag = job.tag /\ job'.blob = blob /\ job'.genuine = honest
<1>1. job \in Job
  BY JobTypes DEF JobOK
<1>2. CASE job' = Streamed([job EXCEPT !.pc = "attest", !.blob = blob, !.genuine = honest])
  <2>1. job' = [[job EXCEPT !.pc = "attest", !.blob = blob, !.genuine = honest]
                  EXCEPT !.host = None, !.hops = 0, !.honest = TRUE]
    BY <1>2 DEF Streamed, StreamFrom
  <2>2. /\ job'.pc = "attest"
        /\ job'.tag = job.tag /\ job'.blob = blob /\ job'.genuine = honest
    BY <1>1, <2>1 DEF Job
  <2> QED
    BY <2>2 DEF Serve, Fail, StreamStep
<1> QED
  BY <1>2 DEF Serve, Fail, StreamStep

LEMMA Promoted ==
    ASSUME TypeInv, IngestBlob, outcome' # outcome
    PROVE  /\ job.pc = "ingest" /\ job.blob \in Blobs /\ job.tag \in Tags
           /\ outcome'.tag = job.tag /\ outcome'.blob = job.blob
           /\ outcome'.repository = source.repository /\ outcome'.honest = job.genuine
           /\ job.blob \in quarantine'
           /\ job.envelope \in Documents /\ Verify(job.envelope, job.blob)
           /\ Archive[job.blob] \in {"none", "safe"}
<1> DEFINE decision == Decide(job.envelope, job.blob)
<1>1. job.pc = "ingest" /\ job.blob \in Blobs /\ job.tag \in Tags
  BY JobTypes DEF IngestBlob, JobOK, Placed
<1>2. job.envelope \in Documents \cup {None}
  BY JobTypes DEF JobOK, Job
<1>3. /\ quarantine' = quarantine \cup Admitted
      /\ IF decision = "error" THEN UNCHANGED <<lastPoll, outcome>> ELSE OutcomeRecord(decision)
  BY DEF IngestBlob
<1>4. decision # "error" /\ decision # "reject"
  <2> HIDE DEF decision
  <2> QED
    BY <1>3 DEF OutcomeRecord
<1>5. /\ ~(Size[job.blob] > MaxArtifactBytes)
      /\ job.envelope # None /\ Verify(job.envelope, job.blob)
      /\ Archive[job.blob] # "broken" /\ InspectArchive(job.blob)
  BY <1>4 DEF Decide
<1>6. Archive[job.blob] \in {"none", "safe"}
  BY <1>1, <1>5 DEF InspectArchive
<1>7. outcome' = [tag |-> job.tag, blob |-> job.blob, decision |-> decision,
                  repository |-> source.repository, honest |-> job.genuine]
  <2> HIDE DEF decision
  <2> QED
    BY <1>3, <1>4 DEF OutcomeRecord
<1>8. job.blob \in quarantine'
  BY <1>3, <1>5 DEF Admitted
<1> QED
  BY <1>1, <1>2, <1>5, <1>6, <1>7, <1>8

(* A statement that verifies under the pins of this moment was made by whom they
   name, and its builder built what it says it built. *)
LEMMA VerifiedWasBuilt ==
    ASSUME NEW d \in Documents, NEW b \in Blobs, Verify(d, b), source.forge \in {"github", "gitlab"}
    PROVE  [blob |-> b, by |-> IF source.forge = "github" THEN source.repository ELSE "key"]
             \in Truth
<1>1. d.builder = "pinned" /\ SourceOk(d) /\ b \in d.subjects /\ Authentic(d)
  BY DEF Verify, CheckStatement
<1>2. CASE source.forge = "github"
  <2>1. d.certificate.repository = source.repository /\ d.certificate.runner = "hosted"
    BY <1>1, <1>2 DEF Authentic, Certified
  <2> QED
    BY <1>1, <1>2, <2>1, TruthAssumption
<1>3. CASE source.forge # "github"
  BY <1>1, <1>3, TruthAssumption DEF Authentic
<1> QED
  BY <1>2, <1>3

(* Whoever the source is, or is about to be, pinned to held the name when some
   validation asked. *)
Pinned ==
    /\ source.repository \in identified
    /\ job.pc = "release" => job.identity \in identified

LEMMA PinnedInit == Init => Pinned
<1> SUFFICES ASSUME Init PROVE Pinned
  OBVIOUS
<1>1. source.repository = FirstOwner /\ identified = {FirstOwner} /\ job.pc # "release"
  BY DEF Init, Idle
<1> QED
  BY <1>1 DEF Pinned

LEMMA PinnedNext == TypeInv /\ Pinned /\ [Next]_vars => Pinned'
<1> SUFFICES ASSUME TypeInv, Pinned, [Next]_vars PROVE Pinned'
  OBVIOUS
<1> USE DEF Pinned
<1>1. job \in Job /\ identified \subseteq identified'
  BY JobTypes, HistoryGrows DEF JobOK
<1>2. CASE ProjectIdentity
  BY <1>1, <1>2 DEF ProjectIdentity, Job
<1>3. CASE Validated
  <2>1. job' = Idle /\ source'.repository \in {source.repository, job.identity}
    BY <1>3 DEF Validated, TypeInv, TypeOK
  <2> QED
    BY <1>1, <1>3, <2>1 DEF Validated, Idle
<1>4. CASE UNCHANGED source /\ (job' = job \/ job'.pc # "release")
  BY <1>1, <1>4
<1>5. job' = job \/ job'.pc # "release" \/ ProjectIdentity
  <2>1. job' = Idle => job'.pc # "release"
    BY DEF Idle
  <2>2. ASSUME NEW blob \in Blobs \cup {None}, NEW honest, Serve(blob, honest)
        PROVE  job'.pc # "release"
    <3>1. job' = Idle \/ job'.pc = "attest"
      BY <2>2, ServeMoves, Zenon
    <3> QED
      BY <2>1, <3>1
  <2>3. Serve(releases[job.tag].asset, TRUE) => job'.pc # "release"
    BY <2>2, AssetType, Zenon
  <2>4. \A blob \in Blobs : Serve(blob, FALSE) => job'.pc # "release"
    BY <2>2, Zenon
  <2>5. Keeps \/ job'.pc \in Early \ {"release"} => job'.pc # "release"
    BY DEF Keeps, Early
  <2> QED
    BY <2>1, <2>3, <2>4, <2>5, JobMoves, Zenon
<1> QED
  BY <1>2, <1>3, <1>4, <1>5, SourceMoves

(* What leaves ingestion was built from a tag by whom the source was pinned to when
   the poll ran, and nobody is ever pinned to whom no validation found in possession
   of the name (worker.do_poll, policy.ingest, store.record_identity): for every set
   of documents that tell the truth when our builder signed them (TruthAssumption).
   Who may be pinned is not limited: a later validation rewrites the pin. *)
THEOREM PromotedBuilt == Spec => []PromotedWasBuilt
<1>1. Init => PromotedWasBuilt
  BY DEF Init, PromotedWasBuilt
<1>2. TypeInv /\ TypeInv' /\ Pinned /\ PromotedWasBuilt /\ [Next]_vars => PromotedWasBuilt'
  <2> SUFFICES ASSUME TypeInv, Pinned, PromotedWasBuilt, [Next]_vars PROVE PromotedWasBuilt'
    OBVIOUS
  <2>1. /\ source'.forge = source.forge /\ source.forge \in {"github", "gitlab"}
        /\ identified \subseteq identified'
    BY ForgeStays, HistoryGrows DEF TypeInv, TypeOK
  <2>2. CASE outcome' = outcome
    BY <2>1, <2>2 DEF PromotedWasBuilt
  <2>3. CASE outcome' # outcome
    BY <2>1, <2>3, OnlyIngestDecides, Promoted, VerifiedWasBuilt DEF PromotedWasBuilt, Pinned
  <2> QED
    BY <2>2, <2>3
<1> QED
  BY <1>1, <1>2, TypeInit, TypeNext, PinnedInit, PinnedNext, PTL DEF Spec

(* What a record hands to the signer is in quarantine and was looked into, whatever
   failed between admission and the record (quarantine.admit, gates.inspect_archive). *)
THEOREM PromotedKept == Spec => []PromotedIsQuarantined
<1>1. Init => PromotedIsQuarantined
  BY DEF Init, PromotedIsQuarantined
<1>2. TypeInv /\ PromotedIsQuarantined /\ [Next]_vars => PromotedIsQuarantined'
  <2> SUFFICES ASSUME TypeInv, PromotedIsQuarantined, [Next]_vars PROVE PromotedIsQuarantined'
    OBVIOUS
  <2>1. quarantine \subseteq quarantine'
    BY HistoryGrows
  <2>2. CASE outcome' = outcome
    BY <2>1, <2>2 DEF PromotedIsQuarantined
  <2>3. CASE outcome' # outcome
    BY <2>3, OnlyIngestDecides, Promoted DEF PromotedIsQuarantined
  <2> QED
    BY <2>2, <2>3
<1> QED
  BY <1>1, <1>2, TypeInit, TypeNext, PTL DEF Spec

LEMMA DownloadedNext == TypeInv /\ RecordInv /\ [Next]_vars => Downloaded'
<1> SUFFICES ASSUME TypeInv, Downloaded, Listed, [Next]_vars PROVE Downloaded'
  BY DEF RecordInv
<1> USE DEF Downloaded
<1>1. job \in Job
  BY JobTypes DEF JobOK
<1>2. CASE job' = Idle
  BY <1>2 DEF Idle
<1>3. CASE job' = job
  <2>1. job.pc \in {"attest", "envelope", "ingest"} => job.tag \in Tags
    BY JobTypes DEF JobOK, Placed
  <2> QED
    BY <1>3, <2>1, HeldGrows
<1>4. CASE job'.pc \in Early \/ ProjectIdentity
  <2>1. job'.pc \in Early
    BY <1>1, <1>4 DEF Early, ProjectIdentity, Job
  <2> QED
    BY <2>1 DEF Early
<1>5. CASE Keeps
  <2>1. job.tag \in Tags /\ job.pc \in {"attest", "envelope"}
    BY <1>5, JobTypes DEF Keeps, JobOK, Placed
  <2> QED
    BY <1>5, <2>1, HeldGrows DEF Keeps
<1>6. CASE Serve(releases[job.tag].asset, TRUE)
  <2> DEFINE blob == releases[job.tag].asset
  <2>1. job.tag \in Tags
    BY <1>6, JobTypes DEF Serve, JobOK, Placed
  <2>2. blob \in held[job.tag] \cup {None} /\ blob \in Blobs \cup {None}
    BY <2>1 DEF Listed, TypeInv, TypeOK, Release
  <2>3. Serve(blob, TRUE)
    BY <1>6
  <2> HIDE DEF blob
  <2>4. CASE job' # Idle
    BY <2>2, <2>3, <2>4, ServeMoves DEF forgeVars
  <2> QED
    BY <1>2, <2>4
<1>7. ASSUME NEW blob \in Blobs, Serve(blob, FALSE) PROVE Downloaded'
  BY <1>2, <1>7, ServeMoves
<1> QED
  BY <1>2, <1>3, <1>4, <1>5, <1>6, <1>7, JobMoves

LEMMA ListedNext == TypeInv /\ Listed /\ [Next]_vars => Listed'
<1> SUFFICES ASSUME TypeInv, Listed, [Next]_vars, NEW t \in Tags
             PROVE  releases'[t].asset \in held'[t] \cup {None}
  BY DEF Listed
<1>1. /\ releases \in [Tags -> Release] /\ held \in [Tags -> SUBSET Blobs]
      /\ releases[t].asset \in held[t] \cup {None}
  BY DEF TypeInv, TypeOK, Listed
<1>2. ASSUME NEW u \in Tags, NEW stage, NEW blob, PublishRelease(u, stage, blob)
      PROVE  releases'[t].asset \in held'[t] \cup {None}
  BY <1>1, <1>2 DEF PublishRelease
<1>3. ASSUME NEW u \in Tags, NEW stage, Restage(u, stage)
      PROVE  releases'[t].asset \in held'[t] \cup {None}
  BY <1>1, <1>3 DEF Restage, Release
<1>4. ASSUME NEW u \in Tags, NEW blob, ReplaceAsset(u, blob)
      PROVE  releases'[t].asset \in held'[t] \cup {None}
  BY <1>1, <1>4 DEF ReplaceAsset, Release
<1>5. CASE UNCHANGED <<releases, held>>
  BY <1>1, <1>5
<1> QED
  BY <1>2, <1>3, <1>4, <1>5, WorkerReads
     DEF Next, vars, forgeVars, Worker, Project, Attest, Reregister

(* With an honest download, the blob of a record was at some time the asset of the
   release the record names (worker._outcome_record), for any number of releases
   and of changes between the requests of a poll. *)
THEOREM RecordTrue == Spec => []RecordIsOfOneRelease
<1>1. TypeInv /\ TypeInv' /\ RecordInv /\ [Next]_vars => RecordIsOfOneRelease'
  <2> SUFFICES ASSUME TypeInv, Downloaded, RecordIsOfOneRelease, [Next]_vars
               PROVE  RecordIsOfOneRelease'
    BY DEF RecordInv
  <2>1. CASE outcome' = outcome
    <3>1. outcome # None => outcome.tag \in Tags
      BY DEF TypeInv, TypeOK
    <3> QED
      BY <2>1, <3>1, HeldGrows DEF RecordIsOfOneRelease
  <2>2. CASE outcome' # outcome
    <3>1. IngestBlob
      BY <2>2, OnlyIngestDecides
    <3>2. held' = held
      BY <3>1 DEF IngestBlob, forgeVars
    <3> QED
      BY <2>2, <3>1, <3>2, Promoted DEF RecordIsOfOneRelease, Downloaded
  <2> QED
    BY <2>1, <2>2
<1>2. TypeInv /\ TypeInv' /\ RecordInv /\ [Next]_vars => RecordInv'
  BY <1>1, DownloadedNext, ListedNext DEF RecordInv
<1>3. RecordInv => RecordIsOfOneRelease
  BY DEF RecordInv
<1> QED
  BY <1>2, <1>3, RecordInit, TypeInit, TypeNext, PTL DEF Spec
=============================================================================
