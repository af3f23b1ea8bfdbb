------------------------------ MODULE Preview ------------------------------
(***************************************************************************)
(* The human-action preview (src/src/action_preview): the ordered evidence *)
(* of its seal, and the checks and encoding that make a preview of a       *)
(* request.                                                                *)
(*                                                                         *)
(* Temperatures are integers.  A Real keeps the multiples of RealGrid and  *)
(* the preview's text the multiples of TextGrid, so distinct Reals share a *)
(* text, as binary32 values do that agree in four decimals.                *)
(***************************************************************************)
EXTENDS Naturals, FiniteSets

CONSTANTS
    Profiles,           \* sealed profiles
    Drafts,             \* the requests previews are asked for
    RANGE_MIN, RANGE_MAX, TOLERANCE,
    RealGrid, TextGrid,
    PRECONDITION_MAX_AGE,
    REQUIRED_PUBLISH_CEILING,
    NoProfile

ASSUME PreviewAssumption ==
    /\ {RANGE_MIN, RANGE_MAX, TOLERANCE, PRECONDITION_MAX_AGE} \subseteq Nat
    /\ {RealGrid, TextGrid} \subseteq Nat \ {0}
    \* both ends of the range are Reals, as 20.0 and 24.0 are
    /\ RANGE_MIN % RealGrid = 0 /\ RANGE_MAX % RealGrid = 0

VARIABLES
    seal,       \* the SealOrder the author holds
    attested,   \* the profile whose report and plan were last verified (history)
    shown       \* the last preview that was made, and the attestation then (history)

previewVars == <<seal, attested, shown>>

\* SealOrder::new
Unsealed == [custody |-> FALSE, decoded |-> FALSE, reconstructed |-> FALSE,
             verified |-> FALSE, profile |-> NoProfile, ledger |-> NoProfile]

PreviewInit ==
    /\ seal = Unsealed
    /\ attested = NoProfile
    /\ shown = {}

-----------------------------------------------------------------------------
\* The marker path: flags in order, no owner asked.
check_custody ==
    /\ seal' = [seal EXCEPT !.custody = TRUE]
    /\ UNCHANGED <<attested, shown>>

decode ==
    /\ seal.custody
    /\ seal' = [seal EXCEPT !.decoded = TRUE]
    /\ UNCHANGED <<attested, shown>>

reconstruct ==
    /\ seal.custody /\ seal.decoded
    /\ seal' = [seal EXCEPT !.reconstructed = TRUE]
    /\ UNCHANGED <<attested, shown>>

\* Mutant: proofs about the profile held before survive the new one.
rebind_custody_Keeps(p, ledger) ==
    [seal EXCEPT !.custody = TRUE, !.profile = p, !.ledger = ledger]

\* rebind_custody: another profile takes none of the proofs with it.
rebind_custody(p, ledger) ==
    LET kept == seal.profile = p
    IN  [custody |-> TRUE, profile |-> p, ledger |-> ledger,
         decoded |-> kept /\ seal.decoded,
         reconstructed |-> kept /\ seal.reconstructed,
         verified |-> kept /\ seal.verified]

\* The owners' path.  ledger_status: the bytes presented are the profile's.
check_custody_with(p, ledger) ==
    /\ ledger = p
    /\ seal' = rebind_custody(p, ledger)
    /\ UNCHANGED <<attested, shown>>

\* The payloads decode to the profile that is held.
decode_with(payload) ==
    /\ seal.custody /\ seal.profile # NoProfile
    /\ payload = seal.profile
    /\ seal' = [seal EXCEPT !.decoded = TRUE]
    /\ UNCHANGED <<attested, shown>>

\* verify_report: the report and plan are those of the profile that is held.
reconstruct_with(report) ==
    /\ seal.custody /\ seal.decoded
    /\ seal.profile # NoProfile
    /\ report = seal.profile
    /\ seal' = [seal EXCEPT !.reconstructed = TRUE, !.verified = TRUE]
    /\ attested' = report
    /\ UNCHANGED shown

is_verified ==
    /\ seal.verified /\ seal.custody /\ seal.decoded /\ seal.reconstructed
    /\ seal.ledger # NoProfile

availability == seal.custody /\ seal.decoded /\ seal.reconstructed

-----------------------------------------------------------------------------
\* Nearest on a grid.
Rounded(x, grid) == ((x + grid \div 2) \div grid) * grid
Real32(x) == Rounded(x, RealGrid)
Apart(x, y) == IF x > y THEN x - y ELSE y - x

check_access(ceiling, role) == role = "publisher" /\ ceiling >= REQUIRED_PUBLISH_CEILING

\* AcceptedTarget::new
Synthetic(target) == target.scope = "scope-a" /\ target.equipment \in {"ahu-1", "vav-101"}

\* Priority::from_option, new, check_commissioned: only an explicit 8.
Commissioned(priority) == priority \in 1 .. 16 /\ priority > 3 /\ priority = 8

\* check_commandable and check_scalar.
Commandable(object) == object = [type |-> "analog-value", property |-> "present-value", index |-> 0]

\* Mutant: the value that goes on the wire is not compared with the range.
Encodable_Requested(requested, wire) ==
    requested \in RANGE_MIN .. RANGE_MAX /\ Apart(wire, requested) <= TOLERANCE

\* EncodedSetpoint::build
Encodable(requested, wire) ==
    /\ requested \in RANGE_MIN .. RANGE_MAX
    /\ wire \in RANGE_MIN .. RANGE_MAX
    /\ Apart(wire, requested) <= TOLERANCE

\* EncodedSetpoint::new and from_decoded: the wire value follows from the
\* request, or is given.
wire_of(d) == IF d.override = 0 THEN Real32(d.requested) ELSE d.override

\* Precondition::new, age_secs, check_fresh.
Recent(d) == d.now >= d.observed /\ d.now - d.observed <= PRECONDITION_MAX_AGE

\* canonical_bytes: presentation only.
canonical_bytes(d) ==
    [target |-> d.target, value |-> Rounded(wire_of(d), TextGrid), age |-> d.now - d.observed]

action_kind(release) == IF release.admitted THEN "release" ELSE "set"

\* Preview::preview of a draft under a seal that is verified or not.
Made(d, verified, digest) ==
    [target |-> d.target, text |-> canonical_bytes(d), requested |-> d.requested,
     wire |-> wire_of(d), bits |-> Real32(wire_of(d)), release |-> d.release,
     seal_verified |-> verified, digest |-> digest]

Previewable(d) ==
    /\ check_access(d.ceiling, d.role)
    /\ Synthetic(d.target)
    /\ d.status \in {"imported", "valid"}
    /\ Commissioned(d.priority)
    /\ Commandable(d.object)
    /\ d.unit = "degC"
    /\ Encodable(d.requested, wire_of(d))
    /\ \A i, j \in DOMAIN d.aliases : d.aliases[i] = d.aliases[j] => i = j
    /\ Recent(d)

preview(d) ==
    /\ Previewable(d)
    /\ availability
    /\ shown' = {[made |-> Made(d, is_verified, seal.profile), proof |-> attested]}
    /\ UNCHANGED <<seal, attested>>

PreviewNext ==
    \/ check_custody \/ decode \/ reconstruct
    \/ \E p, q \in Profiles : check_custody_with(p, q)
    \/ \E p \in Profiles : decode_with(p) \/ reconstruct_with(p)
    \/ \E d \in Drafts : preview(d)

PreviewSpec == PreviewInit /\ [][PreviewNext]_previewVars

-----------------------------------------------------------------------------
\* However the marker and the owners' calls are mixed, repeated and given
\* other profiles: a seal, and a preview made under one, counts as verified
\* only for the profile whose report and plan the owners last verified, and
\* what a preview encodes is a Real within the commissioned range
\* (check_custody_with, rebind_custody, reconstruct_with, EncodedSetpoint::build).
SealMatchesProof ==
    /\ is_verified => attested = seal.profile /\ seal.ledger = seal.profile
    /\ \A p \in shown :
          /\ p.made.seal_verified => p.made.digest = p.proof
          /\ p.made.bits \in RANGE_MIN .. RANGE_MAX /\ Real32(p.made.bits) = p.made.bits
=============================================================================
