------------------------------- MODULE Broker -------------------------------
(***************************************************************************)
(* The privileged broker (broker.rs) that installs for callers without     *)
(* privileges.  A request carries no data; what the broker acts on comes   *)
(* from its configuration and its ports.  It handles one request at a time *)
(* (handle takes &mut self), while publications, the clock and the staging *)
(* directory move on: an installation is an action per port that it calls. *)
(*                                                                         *)
(* How the ports are modelled:                                             *)
(*   - ReleaseSource asks a verifier that the service keeps (Verifier).    *)
(*   - PayloadFetcher may fail; PayloadVerifier is verify_payload, and     *)
(*     bytes are named by the release whose bytes they are, 0 for others.  *)
(*   - Another process may write to the staging directory while its        *)
(*     permissions let it, and these may change at any time.               *)
(***************************************************************************)
EXTENDS Verifier

CONSTANTS
    SamePublisher,  \* releases with the publisher of the application
    MaxLapses       \* bound: changes of the staging permissions, and writes

ASSUME BrokerAssumption ==
    /\ SamePublisher \subseteq Releases
    /\ MaxLapses \in Nat

VARIABLES
    managed,    \* the configuration: updates are left to management tooling
    step,       \* what the broker does next
    installed,  \* the release it believes installed, 0 for none
    offered,    \* the release of its last check, 0 for none
    lastError,  \* whether it remembers an error
    response,   \* what it answered last
    reported,   \* history: the release in the last status that a caller got
    staged,     \* the release whose bytes are in the staging directory
    writable,   \* whether any process may write there
    replaced,   \* history: whether any did after the verification acted on
    lapses      \* the bound's counter

brokerVars == <<managed, step, installed, offered, lastError, response, reported>>
stagingVars == <<staged, writable, replaced, lapses>>
allVars == <<vars, brokerVars, stagingVars>>

Offer == {0} \cup Releases
DenyReason == {"ManagedByPolicy", "NothingToInstall", "StagingNotPrivileged",
               "PublisherMismatch", "VerificationFailed", "OperationFailed"}

BrokerTypeOK ==
    /\ TypeOK
    /\ managed \in BOOLEAN
    /\ step \in {"idle", "fetch", "verify", "publisher", "again", "record"}
    /\ installed \in Offer
    /\ offered \in Offer
    /\ lastError \in BOOLEAN
    /\ response \in {"Accepted", "Status"} \cup DenyReason
    /\ reported \in Offer
    /\ staged \in Offer
    /\ writable \in BOOLEAN
    /\ replaced \in BOOLEAN
    /\ lapses \in 0..MaxLapses
    /\ step # "idle" => offered # 0

BrokerInit ==
    /\ Init
    /\ managed \in BOOLEAN
    /\ step = "idle"
    /\ installed = 0
    /\ offered = 0
    /\ lastError = FALSE
    /\ response = "Status"
    /\ reported = 0
    /\ staged = 0
    /\ writable = FALSE
    /\ replaced = FALSE
    /\ lapses = 0

-----------------------------------------------------------------------------
(* Requests, and what the host tells the broker between them *)

(* set_installed: some release of the application's publisher is installed already.
   Nothing that the broker decides depends on which. *)
SetInstalled ==
    /\ step = "idle"
    /\ installed' \in SamePublisher
    /\ UNCHANGED <<step, offered, lastError, response, reported, managed, vars, stagingVars>>

RequestStatus ==
    /\ step = "idle"
    /\ response' = "Status"
    /\ reported' = offered
    /\ UNCHANGED <<step, installed, offered, lastError, managed, vars, stagingVars>>

(* The source resolves a release, none, or fails. *)
Available ==
    CASE TargetStatus(db) = "ok" -> {db.app.release}
      [] TargetStatus(db) = "unknown" -> {0}
      [] OTHER -> {}

CheckNow ==
    /\ step = "idle"
    /\ handle
    /\ \E release \in Available :
        /\ offered' = release
        /\ reported' = release
        /\ lastError' = FALSE
        /\ response' = "Status"
    /\ UNCHANGED <<step, installed, managed, vars, stagingVars>>

(* A check that fails keeps the offer of the one before. *)
CheckFails ==
    /\ step = "idle"
    /\ lastError' = TRUE
    /\ response' = "OperationFailed"
    /\ UNCHANGED <<step, installed, offered, reported, managed, vars, stagingVars>>

(* Refused before anything is tried: no error is remembered. *)
Refuse(reason) ==
    /\ step = "idle"
    /\ response' = reason
    /\ UNCHANGED <<step, installed, offered, lastError, reported, managed, vars, stagingVars>>

Deny(reason) ==
    /\ step' = "idle"
    /\ lastError' = TRUE
    /\ response' = reason
    /\ UNCHANGED <<installed, offered, reported, managed, vars>>

Proceed(next) ==
    /\ step' = next
    /\ UNCHANGED <<installed, offered, lastError, response, reported, managed, vars>>

(* Mutant: the consent is not asked what it is to. *)
ConsentedToNothing ==
    /\ step = "idle"
    /\ ~managed
    /\ IF writable THEN Deny("StagingNotPrivileged") ELSE Proceed("fetch")
    /\ UNCHANGED stagingVars

UserConsented ==
    \/ managed /\ Refuse("ManagedByPolicy")
    \/ ~managed /\ offered = 0 /\ Refuse("NothingToInstall")
    \/ /\ step = "idle"
       /\ ~managed
       /\ offered # 0
       /\ IF writable THEN Deny("StagingNotPrivileged") ELSE Proceed("fetch")
       /\ UNCHANGED stagingVars

-----------------------------------------------------------------------------
(* The installation *)

Fetch ==
    /\ step = "fetch"
    /\ \/ \E bytes \in {0, offered} :
            /\ staged' = bytes
            /\ Proceed("verify")
       \/ /\ staged' = staged
          /\ Deny("OperationFailed")
    /\ UNCHANGED <<writable, replaced, lapses>>

VerifyPayload(release) == staged = release

Verify ==
    /\ step = "verify"
    /\ IF VerifyPayload(offered) THEN Proceed("publisher") ELSE Deny("VerificationFailed")
    /\ UNCHANGED stagingVars

CheckPublisher ==
    /\ step = "publisher"
    /\ IF staged \in SamePublisher THEN Proceed("again") ELSE Deny("PublisherMismatch")
    /\ UNCHANGED stagingVars

(* Mutant: the payload is not verified again. *)
VerifyAgainNever ==
    /\ step = "again"
    /\ Proceed("record")
    /\ UNCHANGED stagingVars

(* Rule 4: once more, immediately before use. *)
VerifyAgain ==
    /\ step = "again"
    /\ IF VerifyPayload(offered) THEN Proceed("record") ELSE Deny("VerificationFailed")
    /\ UNCHANGED stagingVars

Recorded(release) ==
    /\ step = "record"
    /\ step' = "idle"
    /\ installed' = release
    /\ offered' = 0
    /\ lastError' = FALSE
    /\ response' = "Accepted"
    /\ replaced' = FALSE
    /\ UNCHANGED <<reported, managed, vars, staged, writable, lapses>>

(* Mutant: the release is resolved again. *)
RecordNewest ==
    \E release \in Releases :
        /\ release = IF published.app # <<>> THEN Newest("app").release ELSE offered
        /\ Recorded(release)

Record == Recorded(offered)

-----------------------------------------------------------------------------
(* The staging directory *)

Permit ==
    /\ lapses < MaxLapses
    /\ writable' = ~writable
    /\ lapses' = lapses + 1
    /\ UNCHANGED <<staged, replaced, vars, brokerVars>>

Replace ==
    /\ writable
    /\ lapses < MaxLapses
    /\ \E bytes \in Offer : staged' = bytes
    /\ replaced' = (step = "record")
    /\ lapses' = lapses + 1
    /\ UNCHANGED <<writable, vars, brokerVars>>

Request == RequestStatus \/ CheckNow \/ CheckFails \/ UserConsented
Installation == Fetch \/ Verify \/ CheckPublisher \/ VerifyAgain \/ Record

(* The verifier is the port's, so that it is not used during an installation. *)
Host ==
    /\ Publication \/ Tick \/ (step = "idle" /\ VerifierNext)
    /\ UNCHANGED <<brokerVars, stagingVars>>

BrokerNext == Request \/ SetInstalled \/ Installation \/ Permit \/ Replace \/ Host

BrokerSpec == BrokerInit /\ [][BrokerNext]_allVars

-----------------------------------------------------------------------------
(* Properties *)

(* When the broker records that it installed a release, the bytes of that release, and
   no others, are what is staged, though the directory may be opened and closed and
   the file replaced between any two ports that install calls.  What is left is the
   window that closes with the record: a file that is replaced after the last
   verification, which only rule 3 defends, and that looks once
   (Broker::install, rules 3 and 4). *)
Installs == step = "record" /\ step' = "idle"
InstallsWhatWasSigned ==
    [][Installs => staged = installed' \/ replaced]_allVars

(* "The user accepted the update the broker last reported" (Request): what is
   installed is what the last status said, though releases are published and
   checks fail between the status, the consent and the installation. *)
ConsentIsToWhatWasReported ==
    [][Installs => installed' = reported]_allVars
=============================================================================
