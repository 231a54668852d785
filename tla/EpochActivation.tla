-------------------------- MODULE EpochActivation --------------------------
(***************************************************************************)
(* How a vault's key epochs, membership and commitment log move together:  *)
(* commitments.py and enrollments.py as app.py calls them, one operation   *)
(* at a time under its lock.                                               *)
(*                                                                         *)
(* Devices sign views, rotation plans and enrollments on what the service  *)
(* shows them then, and send them at any time later, or never: whatever a  *)
(* message was signed on may be gone when it arrives.  A root, the digest  *)
(* of all that a message says, is the serial number of the message.  A     *)
(* membership is a function saying what each device is in it.  A refused   *)
(* call, or one repeated after it succeeded, changes nothing.              *)
(***************************************************************************)
EXTENDS Integers, Sequences, FiniteSets

CONSTANTS
    Devices,
    Founders,        \* devices in the account's registry at first
    FirstEpoch,      \* key_epoch of the account's descriptors
    MaxStaged,       \* MAX_VAULT_ROTATION_ROWS, for prepared deliveries
    MaxCommitments,  \* LIMIT, views of a vault
    MaxRows,         \* MAX_VAULT_ROTATION_ROWS, for what is accepted
    MaxSigned        \* bound: messages signed

ASSUME DevicesAssumption == Founders \subseteq Devices /\ Founders # {}
ASSUME LimitsAssumption ==
    /\ FirstEpoch \in Nat \ {0} /\ MaxStaged \in Nat \ {0}
    /\ MaxCommitments \in Nat /\ MaxRows \in Nat /\ MaxSigned \in Nat

States == {"absent", "ACTIVE", "REVOKED"}
Registries == [Devices -> States]

\* StateViewModel, the plan of an EpochRotationProof, DeviceEnrollmentProof.
Views == [root : Nat, sequence : Nat, previous : Nat, registry : Registries,
          previousRegistry : Registries, epoch : Nat, author : Devices]
Plans == [root : Nat, epoch : Nat, state : Nat, prior : Registries, target : Devices,
          signer : Devices]
Proofs == [root : Nat, activation : Nat, generation : Nat, epoch : Nat, state : Nat,
           prior : Registries, target : Devices, issuer : Devices]

VARIABLES
    registered,      \* devices of the account (app.py)
    commitments,     \* table commitments, by sequence
    activations,     \* table activations, by epoch
    deliveries,      \* table device_deliveries: epoch and recipient
    staged,          \* table prepared_device_deliveries, by rowid
    enrollments,     \* table enrollments: activation and generation
    views, plans, proofs,  \* messages signed so far
    signed           \* how many

log == <<commitments, activations, deliveries, staged, enrollments>>
messages == <<views, plans, proofs, signed>>
vars == <<registered, log, messages>>
-----------------------------------------------------------------------------
Zero == 0
EmptyRegistry == [d \in Devices |-> "absent"]
ActiveIn(registry) == {d \in Devices : registry[d] = "ACTIVE"}
AccountRegistry == [d \in Devices |-> IF d \in registered THEN "ACTIVE" ELSE "absent"]

Activated == activations # <<>>
Current == activations[Len(activations)]
LastView == commitments[Len(commitments)]

\* Fault: a removed device's entry is dropped, not kept as REVOKED.
Forgotten(plan) == [plan.prior EXCEPT ![plan.target] = "absent"]

\* The removal a plan is about.
Removed(plan) == [plan.prior EXCEPT ![plan.target] = "REVOKED"]
Recipients(plan) == ActiveIn(Removed(plan))

\* The enrollments under a plan, each at a generation of its registry, and the
\* membership they make before a generation.
Under(plan) == {e \in enrollments : e.activation = plan.root}
NextGeneration(plan) == plan.epoch + Cardinality(Under(plan))
Roster(plan, generation) ==
    [d \in Devices |->
        IF \E e \in Under(plan) : e.generation < generation /\ e.target = d
        THEN "ACTIVE" ELSE Removed(plan)[d]]

Membership ==
    IF Activated THEN Roster(Current, NextGeneration(Current)) ELSE AccountRegistry

KeyEpoch == IF Activated THEN Current.epoch
            ELSE IF commitments = <<>> THEN FirstEpoch ELSE LastView.epoch

\* Fault: the log stays with its first author.
FirstAuthority(d) == IF commitments = <<>> THEN d ELSE commitments[1].author

\* The device whose key a view must be signed with.
Authority(d) == IF Activated THEN Current.signer
                ELSE IF commitments = <<>> THEN d ELSE commitments[1].author

\* A session on the vault: a device of the account and, once the vault has an
\* activation, of the vault.
VaultSession(d) == d \in registered /\ (Activated => d \in ActiveIn(Membership))
AtEpoch(epoch) == Activated => epoch = Current.epoch
-----------------------------------------------------------------------------
Sign == signed < MaxSigned /\ signed' = signed + 1

\* The device the log is to be continued by signs the next view.
SignView(d) ==
    /\ Sign /\ VaultSession(d) /\ d = Authority(d)
    /\ Len(commitments) < MaxCommitments
    /\ views' = views \cup
           {[root |-> signed', sequence |-> Len(commitments) + 1,
             previous |-> IF commitments = <<>> THEN Zero ELSE LastView.root,
             registry |-> Membership,
             previousRegistry |-> IF commitments = <<>> THEN EmptyRegistry
                                  ELSE LastView.registry,
             epoch |-> KeyEpoch, author |-> d]}
    /\ UNCHANGED <<registered, log, plans, proofs>>

\* create_epoch_rotation: the removal is one the registry allows.
MayRemove(registry, target, initiator) ==
    target # initiator /\ {target, initiator} \subseteq ActiveIn(registry)

SignPlan(d, target) ==
    /\ Sign /\ VaultSession(d) /\ commitments # <<>>
    /\ MayRemove(Membership, target, d)
    /\ plans' = plans \cup
           {[root |-> signed', epoch |-> KeyEpoch + 1, state |-> LastView.root,
             prior |-> Membership, target |-> target, signer |-> d]}
    /\ UNCHANGED <<registered, log, views, proofs>>

SignEnrollment(d, target) ==
    /\ Sign /\ VaultSession(d) /\ Activated
    /\ Membership[target] = "absent"
    /\ proofs' = proofs \cup
           {[root |-> signed', activation |-> Current.root, generation |-> NextGeneration(Current),
             epoch |-> Current.epoch, state |-> LastView.root, prior |-> Membership,
             target |-> target, issuer |-> d]}
    /\ UNCHANGED <<registered, log, views, plans>>
-----------------------------------------------------------------------------
\* add_device.
AddDevice(d) ==
    /\ d \notin registered
    /\ registered' = registered \cup {d}
    /\ UNCHANGED <<log, messages>>

Continues(v) ==
    /\ v.sequence = Len(commitments) + 1
    /\ v.previous = IF commitments = <<>> THEN Zero ELSE LastView.root
    /\ v.previousRegistry = IF commitments = <<>> THEN EmptyRegistry ELSE LastView.registry
    /\ v.registry = Membership
    /\ v.epoch = KeyEpoch

AppendCommitment(d, v) ==
    /\ VaultSession(d) /\ AtEpoch(v.epoch)
    /\ v.author = Authority(d)
    /\ Continues(v)
    /\ Len(commitments) < MaxCommitments
    /\ commitments' = Append(commitments, v)
    /\ UNCHANGED <<registered, activations, deliveries, staged, enrollments, messages>>

StagedFor(plan) == {i \in DOMAIN staged : staged[i].plan = plan.root}

\* Fault: nothing is dropped.
RowsKept(plan) == staged

\* The rows of staged at some positions, in order.
RowsAt(I) ==
    [n \in 1 .. Cardinality(I) |->
        staged[CHOOSE i \in I : Cardinality({j \in I : j <= i}) = n]]

\* Where the rows of the oldest other transition are dropped when there is no
\* room.
Rows(plan) ==
    LET others == DOMAIN staged \ StagedFor(plan)
        oldest == CHOOSE i \in others : \A j \in others : i <= j
    IN  IF Len(staged) < MaxStaged THEN staged
        ELSE RowsAt({i \in DOMAIN staged : staged[i].plan # staged[oldest].plan})

\* Fault: a delivery for an epoch already activated is staged like any other.
StillToCome(plan) == TRUE

NotYetActivated(plan) == \A i \in DOMAIN activations : activations[i].epoch # plan.epoch

\* put_delivery by the signer of the plan.
StageDelivery(plan, recipient) ==
    /\ VaultSession(plan.signer)
    /\ NotYetActivated(plan)
    /\ recipient \in Recipients(plan)
    /\ Activated => recipient \in ActiveIn(Membership)
    /\ \A i \in StagedFor(plan) : staged[i].recipient # recipient
    /\ Len(staged) < MaxStaged \/ StagedFor(plan) # DOMAIN staged
    /\ staged' = Append(Rows(plan),
                        [plan |-> plan.root, epoch |-> plan.epoch, recipient |-> recipient])
    /\ UNCHANGED <<registered, commitments, activations, deliveries, enrollments, messages>>

\* Fault: some of the recipients will do.
SomePrepared(plan) == StagedFor(plan) # {}

AllPrepared(plan) == {staged[i].recipient : i \in StagedFor(plan)} = Recipients(plan)

\* Fault: the state the plan was signed on is not compared with the latest.
FollowsAnyState(plan) ==
    /\ plan.epoch = KeyEpoch + 1 /\ plan.prior = Membership
    /\ MayRemove(plan.prior, plan.target, plan.signer)

\* verify_epoch_rotation on the registry, epoch and root in force.
Follows(plan) ==
    /\ plan.prior = Membership
    /\ plan.epoch = KeyEpoch + 1
    /\ plan.state = LastView.root
    /\ MayRemove(plan.prior, plan.target, plan.signer)

StagedLater(plan) == RowsAt({i \in DOMAIN staged : staged[i].epoch > plan.epoch})

\* accept_activation by the signer of the plan.
AcceptActivation(plan) ==
    /\ VaultSession(plan.signer)
    /\ commitments # <<>>
    /\ Follows(plan)
    /\ AllPrepared(plan)
    /\ Len(activations) < MaxRows
    /\ Cardinality(deliveries) + Cardinality(Recipients(plan)) <= MaxRows
    /\ activations' = Append(activations, plan)
    /\ deliveries' = deliveries \cup {[epoch |-> plan.epoch, recipient |-> staged[i].recipient] :
                                          i \in StagedFor(plan)}
    /\ staged' = StagedLater(plan)
    /\ UNCHANGED <<registered, commitments, enrollments, messages>>

\* verify_enrollment_attestation of a proof at a generation under a plan.
Attested(proof, plan, generation) ==
    /\ proof.activation = plan.root /\ proof.epoch = plan.epoch
    /\ proof.generation = generation
    /\ proof.prior = Roster(plan, generation)
    /\ Roster(plan, generation)[proof.target] = "absent"
    /\ Roster(plan, generation)[proof.issuer] = "ACTIVE"

\* Fault: the membership the proof was signed on is not compared.
FitsAnyMembership(proof) ==
    proof.activation = Current.root /\ proof.state = LastView.root

Fits(proof) ==
    Attested(proof, Current, NextGeneration(Current)) /\ proof.state = LastView.root

AcceptEnrollment(proof) ==
    /\ VaultSession(proof.issuer) /\ Activated /\ AtEpoch(proof.epoch)
    /\ Fits(proof)
    /\ Cardinality(enrollments) < MaxRows
    /\ enrollments' = enrollments \cup {proof}
    /\ UNCHANGED <<registered, commitments, activations, deliveries, staged, messages>>
-----------------------------------------------------------------------------
Init ==
    /\ registered = Founders
    /\ commitments = <<>> /\ activations = <<>> /\ deliveries = {} /\ staged = <<>>
    /\ enrollments = {}
    /\ views = {} /\ plans = {} /\ proofs = {} /\ signed = 0

Next ==
    \/ \E d \in Devices : AddDevice(d) \/ SignView(d)
    \/ \E d, target \in Devices : SignPlan(d, target) \/ SignEnrollment(d, target)
    \/ \E d \in Devices, v \in views : AppendCommitment(d, v)
    \/ \E plan \in plans : AcceptActivation(plan)
    \/ \E plan \in plans, recipient \in Devices : StageDelivery(plan, recipient)
    \/ \E proof \in proofs : AcceptEnrollment(proof)

Spec == Init /\ [][Next]_vars
-----------------------------------------------------------------------------
TypeOK ==
    /\ registered \in SUBSET Devices
    /\ commitments \in Seq(Views) /\ Len(commitments) <= MaxCommitments
    /\ activations \in Seq(Plans) /\ enrollments \in SUBSET Proofs
    /\ IsFiniteSet(deliveries) /\ IsFiniteSet(enrollments)
    /\ deliveries \in SUBSET [epoch : Nat, recipient : Devices]
    /\ staged \in Seq([plan : Nat, epoch : Nat, recipient : Devices])
    /\ Len(staged) <= MaxStaged /\ Cardinality(deliveries) <= MaxRows
    /\ views \in SUBSET Views /\ plans \in SUBSET Plans /\ proofs \in SUBSET Proofs
    /\ signed \in 0 .. MaxSigned

\* The position of a root in the log, 0 when it is not there.
Position(root) ==
    IF \E i \in DOMAIN commitments : commitments[i].root = root
    THEN CHOOSE i \in DOMAIN commitments : commitments[i].root = root
    ELSE 0

\* What is stored always passes the checks membership is rebuilt with, so no
\* accepted operation makes every later one of the vault a conflict
\* (_rebuild_membership).
MembershipRebuilds ==
    Activated =>
        LET rows == Under(Current)
        IN  /\ MayRemove(Current.prior, Current.target, Current.signer)
            /\ Position(Current.state) > 0
            /\ \A e \in rows :
                   /\ e.generation \in Current.epoch .. (NextGeneration(Current) - 1)
                   /\ Attested(e, Current, e.generation)
                   /\ Position(e.state) >= Position(Current.state)
                   /\ \A f \in rows : f # e =>
                         /\ f.generation # e.generation
                         /\ f.generation < e.generation =>
                               Position(f.state) <= Position(e.state)

\* A device that catches up can verify the vault from its first activation on.
\* Each activation continues, an epoch later, exactly the membership the one
\* before and its enrollments left, and together they cut the log: views up to
\* the state an activation was signed on are of earlier epochs, later ones are
\* not, and those of its epoch are by its signer (accept_activation, append).
HistoryVerifies ==
    /\ \A i \in 2 .. Len(activations) :
          LET before == activations[i - 1]
          IN  /\ activations[i].epoch = before.epoch + 1
              /\ activations[i].prior = Roster(before, NextGeneration(before))
              /\ Position(activations[i].state) >= Position(before.state)
    /\ \A k \in DOMAIN activations, i \in DOMAIN commitments :
          /\ i <= Position(activations[k].state) <=> commitments[i].epoch < activations[k].epoch
          /\ commitments[i].epoch = activations[k].epoch =>
                 commitments[i].author = activations[k].signer

\* No enrollment, however late or under whatever later membership, brings a
\* device back that an accepted activation removed (verify_enrollment_attestation).
RemovedStaysOut ==
    \A i \in DOMAIN activations : Membership[activations[i].target] # "ACTIVE"

\* An activation and its deliveries are visible together: a member either has
\* its delivery of the epoch or was enrolled under it, and what is still staged
\* is for the next activation, not for one in force or past
\* (accept_activation, put_delivery).
MembersHoldKeys ==
    Activated =>
        /\ \A d \in ActiveIn(Membership) :
              \/ [epoch |-> Current.epoch, recipient |-> d] \in deliveries
              \/ \E e \in Under(Current) : e.target = d
        /\ \A i \in DOMAIN staged : staged[i].epoch = Current.epoch + 1

\* The device whose signature the log demands next is a member of the vault
\* with a session to be had: the log can always be continued (append).
WriterIsMember ==
    commitments # <<>> => \A d \in Devices : VaultSession(Authority(d))
=============================================================================
