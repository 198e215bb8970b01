---------------------------- MODULE BrokerProofs ----------------------------
(***************************************************************************)
(* Theorems about Broker and the verifier that it asks, for any releases,  *)
(* any number of publications and of changes of the staging directory.     *)
(***************************************************************************)
EXTENDS Broker, VerifierProofs

USE BrokerAssumption

(* The broker's steps leave the verifier alone: what VerifierProofs has of Next
   holds of BrokerNext. *)
LEMMA BrokerStepIsVerifierStep == [BrokerNext]_allVars => [Next]_vars
<1> SUFFICES ASSUME [BrokerNext]_allVars PROVE [Next]_vars
  OBVIOUS
<1>1. CASE Request
  BY <1>1 DEF Request, RequestStatus, CheckNow, CheckFails, UserConsented, Refuse, Deny, Proceed
<1>2. CASE Installation
  BY <1>2 DEF Installation, Fetch, Verify, CheckPublisher, VerifyAgain, Record, Recorded, Deny,
              Proceed
<1>3. CASE Permit \/ Replace \/ SetInstalled \/ UNCHANGED allVars
  BY <1>3 DEF Permit, Replace, SetInstalled, allVars
<1>4. CASE Host
  BY <1>4 DEF Host, Next
<1> QED
  BY <1>1, <1>2, <1>3, <1>4 DEF BrokerNext

LEMMA VerifierInvBroker == BrokerSpec => []VerifierInv
<1>1. BrokerInit => VerifierInv
  BY VerifierInvInit DEF BrokerInit
<1>2. VerifierInv /\ [BrokerNext]_allVars => VerifierInv'
  BY VerifierInvNext, BrokerStepIsVerifierStep
<1> QED
  BY <1>1, <1>2, PTL DEF BrokerSpec

(* The verifier never trusts an older file of a role than it trusted before
   (TufVerifier), whatever files of whatever age it is fed in whatever order. *)
THEOREM TrustNeverGoesBack == BrokerSpec => []NeverRollsBack
  BY VerifierInvBroker, InvNeverRollsBack, PTL

(* Targets are trusted beside the snapshot that names them, and no role is newer
   than the snapshot (Database::purge_metadata), after any sequence of calls. *)
THEOREM TrustIsOfOnePublication == BrokerSpec => []OneSnapshot
  BY VerifierInvBroker, InvOneSnapshot, PTL

(* No sequence of calls, accepted or refused, wedges a verifier: the newest files
   bring it to the newest release from every state that it can be in. *)
THEOREM EveryVerifierRecovers == BrokerSpec => []RefreshRecovers
  BY VerifierInvBroker, InvRefreshRecovers, PTL

-----------------------------------------------------------------------------
(* The broker.  What it offers is what it last reported. *)

BrokerTypes ==
    /\ managed \in BOOLEAN
    /\ step \in {"idle", "fetch", "verify", "publisher", "again", "record"}
    /\ installed \in Offer
    /\ offered \in Offer
    /\ lastError \in BOOLEAN
    /\ response \in {"Accepted", "Status"} \cup DenyReason
    /\ reported \in Offer
    /\ step # "idle" => offered # 0
StagingTypes ==
    /\ staged \in Offer /\ writable \in BOOLEAN /\ replaced \in BOOLEAN
    /\ lapses \in 0..MaxLapses
(* What was verified last is still there, or was replaced since. *)
Verified == step = "record" => staged = offered \/ replaced
Reported == offered # 0 => offered = reported
BrokerInv == BrokerTypes /\ StagingTypes /\ Reported /\ Verified

LEMMA BrokerInvInit == BrokerInit => BrokerInv
<1> SUFFICES ASSUME BrokerInit PROVE BrokerInv
  OBVIOUS
<1>1. BrokerTypes
  BY DEF BrokerInit, BrokerTypes, Offer
<1>2. StagingTypes
  <2>1. staged = 0 /\ writable = FALSE /\ replaced = FALSE /\ lapses = 0
    BY DEF BrokerInit
  <2>2. 0 \in 0..MaxLapses
    BY BrokerAssumption
  <2> QED
    BY <2>1, <2>2 DEF StagingTypes, Offer
<1>3. Reported /\ Verified
  BY DEF BrokerInit, Reported, Verified
<1> QED
  BY <1>1, <1>2, <1>3 DEF BrokerInv

LEMMA DenyKeeps ==
    ASSUME BrokerTypes, Reported, NEW reason \in DenyReason, Deny(reason)
    PROVE  BrokerTypes' /\ Reported'
  BY DEF Deny, BrokerTypes, Reported

LEMMA ProceedKeeps ==
    ASSUME BrokerTypes, Reported, offered # 0,
           NEW next \in {"fetch", "verify", "publisher", "again", "record"}, Proceed(next)
    PROVE  BrokerTypes' /\ Reported'
  BY DEF Proceed, BrokerTypes, Reported

LEMMA RefuseKeeps ==
    ASSUME BrokerTypes, Reported, NEW reason \in DenyReason, Refuse(reason)
    PROVE  BrokerTypes' /\ Reported'
  BY DEF Refuse, BrokerTypes, Reported

LEMMA RequestKeeps ==
    ASSUME BrokerInv, VerifierInv, Request
    PROVE  BrokerTypes' /\ Reported'
<1> USE DEF BrokerInv
<1>1. CASE RequestStatus
  BY <1>1 DEF RequestStatus, BrokerTypes, Reported
<1>2. CASE CheckNow
  <2>1. Available \subseteq Offer
    <3>1. db.app.release \in Offer
      BY DEF VerifierInv, TypeOK, Metadata, Offer
    <3> QED
      BY <3>1 DEF Available, Offer
  <2>2. PICK release \in Available :
          offered' = release /\ reported' = release /\ lastError' = FALSE /\ response' = "Status"
    BY <1>2 DEF CheckNow
  <2>3. UNCHANGED <<step, installed, managed>> /\ step = "idle" /\ release \in Offer
    BY <1>2, <2>1 DEF CheckNow
  <2> QED
    BY <2>2, <2>3 DEF BrokerTypes, Reported
<1>3. CASE CheckFails
  BY <1>3 DEF CheckFails, BrokerTypes, Reported, DenyReason
<1>4. CASE UserConsented
  BY <1>4, RefuseKeeps, DenyKeeps, ProceedKeeps DEF UserConsented, DenyReason
<1> QED
  BY <1>1, <1>2, <1>3, <1>4 DEF Request

LEMMA InstallationKeeps ==
    ASSUME BrokerInv, Installation
    PROVE  BrokerTypes' /\ Reported'
<1> USE DEF BrokerInv, DenyReason
<1>1. CASE Fetch
  <2>1. offered # 0
    BY <1>1 DEF Fetch, BrokerTypes
  <2> QED
    BY <1>1, <2>1, DenyKeeps, ProceedKeeps DEF Fetch
<1>2. CASE Verify
  <2>1. offered # 0
    BY <1>2 DEF Verify, BrokerTypes
  <2> QED
    BY <1>2, <2>1, DenyKeeps, ProceedKeeps DEF Verify
<1>3. CASE CheckPublisher
  <2>1. offered # 0
    BY <1>3 DEF CheckPublisher, BrokerTypes
  <2> QED
    BY <1>3, <2>1, DenyKeeps, ProceedKeeps DEF CheckPublisher
<1>4. CASE VerifyAgain
  <2>1. offered # 0
    BY <1>4 DEF VerifyAgain, BrokerTypes
  <2> QED
    BY <1>4, <2>1, DenyKeeps, ProceedKeeps DEF VerifyAgain
<1>5. CASE Record
  BY <1>5 DEF Record, Recorded, BrokerTypes, Reported, Offer
<1> QED
  BY <1>1, <1>2, <1>3, <1>4, <1>5 DEF Installation

LEMMA StagingKeeps ==
    ASSUME BrokerInv, [BrokerNext]_allVars
    PROVE  StagingTypes'
<1> USE DEF BrokerInv, StagingTypes
<1>1. CASE Fetch
  BY <1>1 DEF Fetch, BrokerTypes, Offer
<1>2. CASE Permit
  BY <1>2 DEF Permit
<1>3. CASE Replace
  BY <1>3 DEF Replace
<1>4. CASE UNCHANGED stagingVars
  BY <1>4 DEF stagingVars
<1>5. CASE Record
  BY <1>5 DEF Record, Recorded
<1> QED
  BY <1>1, <1>2, <1>3, <1>4, <1>5
     DEF BrokerNext, Request, RequestStatus, CheckNow, CheckFails, UserConsented, Refuse,
         SetInstalled, Installation, Verify, CheckPublisher, VerifyAgain, Host, allVars

LEMMA VerifiedKeeps ==
    ASSUME BrokerInv, [BrokerNext]_allVars
    PROVE  Verified'
<1> USE DEF BrokerInv, Verified
<1>1. CASE Request \/ SetInstalled
  BY <1>1 DEF Request, SetInstalled, RequestStatus, CheckNow, CheckFails, UserConsented, Refuse,
              Deny, Proceed
<1>2. CASE Fetch \/ Verify \/ CheckPublisher \/ Record
  BY <1>2 DEF Fetch, Verify, CheckPublisher, Record, Recorded, Deny, Proceed
<1>3. CASE VerifyAgain
  BY <1>3 DEF VerifyAgain, VerifyPayload, Deny, Proceed, stagingVars
<1>4. CASE Permit
  BY <1>4 DEF Permit, brokerVars
<1>5. CASE Replace
  BY <1>5 DEF Replace, brokerVars
<1>6. CASE UNCHANGED <<brokerVars, stagingVars>>
  BY <1>6 DEF brokerVars, stagingVars
<1> QED
  BY <1>1, <1>2, <1>3, <1>4, <1>5, <1>6 DEF BrokerNext, Installation, Host, allVars

LEMMA BrokerInvNext == BrokerInv /\ VerifierInv /\ [BrokerNext]_allVars => BrokerInv'
<1> SUFFICES ASSUME BrokerInv, VerifierInv, [BrokerNext]_allVars PROVE BrokerInv'
  OBVIOUS
<1>1. CASE UNCHANGED brokerVars
  <2>1. BrokerTypes' /\ Reported'
    BY <1>1 DEF brokerVars, BrokerInv, BrokerTypes, Reported
  <2> QED
    BY <2>1, StagingKeeps, VerifiedKeeps DEF BrokerInv
<1>2. CASE Request \/ Installation
  BY <1>2, RequestKeeps, InstallationKeeps, StagingKeeps, VerifiedKeeps DEF BrokerInv
<1>3. CASE SetInstalled
  <2>1. BrokerTypes' /\ Reported'
    BY <1>3 DEF SetInstalled, BrokerInv, BrokerTypes, Reported, Offer
  <2> QED
    BY <2>1, StagingKeeps, VerifiedKeeps DEF BrokerInv
<1> QED
  BY <1>1, <1>2, <1>3 DEF BrokerNext, Permit, Replace, Host, allVars

LEMMA BrokerInvAlways == BrokerSpec => []BrokerInv
  BY VerifierInvBroker, BrokerInvInit, BrokerInvNext, PTL DEF BrokerSpec

(* The states of the verifier and of the broker have their types, and an
   installation is under way only of a release (Broker::install). *)
THEOREM BrokerTypeCorrect == BrokerSpec => []BrokerTypeOK
<1>1. VerifierInv /\ BrokerInv => BrokerTypeOK
  BY DEF VerifierInv, BrokerInv, BrokerTypes, StagingTypes, BrokerTypeOK
<1> QED
  BY <1>1, VerifierInvBroker, BrokerInvAlways, PTL

(* Only Record records. *)
LEMMA OnlyRecordInstalls ==
    ASSUME [BrokerNext]_allVars, Installs
    PROVE  Record
<1> USE DEF Installs
<1>1. ~Request /\ ~SetInstalled
  BY DEF Request, SetInstalled, RequestStatus, CheckNow, CheckFails, UserConsented, Refuse, Deny,
         Proceed
<1>2. ~Permit /\ ~Replace /\ ~Host /\ ~UNCHANGED allVars
  BY DEF Permit, Replace, Host, brokerVars, allVars
<1>3. ~Fetch /\ ~Verify /\ ~CheckPublisher /\ ~VerifyAgain
  BY DEF Fetch, Verify, CheckPublisher, VerifyAgain
<1> QED
  BY <1>1, <1>2, <1>3 DEF BrokerNext, Installation

(* When a release is recorded as installed its own bytes are staged, for any number of
   changes of the directory between the ports, unless they were replaced after the
   last verification (Broker::install, rule 4). *)
THEOREM InstalledIsSigned == BrokerSpec => InstallsWhatWasSigned
<1>1. BrokerInv /\ [BrokerNext]_allVars
        => [Installs => staged = installed' \/ replaced]_allVars
  <2> SUFFICES ASSUME BrokerInv, [BrokerNext]_allVars, Installs
               PROVE  staged = installed' \/ replaced
    OBVIOUS
  <2>1. step = "record" /\ installed' = offered
    BY OnlyRecordInstalls DEF Record, Recorded
  <2> QED
    BY <2>1 DEF BrokerInv, Verified
<1> QED
  BY <1>1, BrokerInvAlways, PTL DEF BrokerSpec, InstallsWhatWasSigned

(* What is installed is what the last status told the caller (Request), whatever
   is published and whichever checks fail in between. *)
THEOREM InstalledWasReported == BrokerSpec => ConsentIsToWhatWasReported
<1>1. BrokerInv /\ [BrokerNext]_allVars => [Installs => installed' = reported]_allVars
  <2> SUFFICES ASSUME BrokerInv, [BrokerNext]_allVars, Installs
               PROVE  installed' = reported
    OBVIOUS
  <2>1. step = "record" /\ installed' = offered
    BY OnlyRecordInstalls DEF Record, Recorded
  <2> QED
    BY <2>1 DEF BrokerInv, BrokerTypes, Reported
<1> QED
  BY <1>1, BrokerInvAlways, PTL DEF BrokerSpec, ConsentIsToWhatWasReported
====
