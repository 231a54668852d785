--------------------------- MODULE AccountAccess ---------------------------
(***************************************************************************)
(* Accounts, devices, challenges and sessions of the sync service,         *)
(* AtlasVaultBackend in atlasvault_api/app.py.                             *)
(*                                                                         *)
(* The three operations that check a signature (bootstrap_account,         *)
(* create_session, add_device) look at the state under the lock, release   *)
(* the lock to charge a rate limiter and verify the signature, and take    *)
(* the lock again to commit: a call is two critical sections around a      *)
(* verification, and any other call may run in between.  The remaining     *)
(* operations are one critical section.  A call refused without touching   *)
(* the state is a stuttering step and is left out.                         *)
(*                                                                         *)
(* Challenge ids, tokens and admissions are fresh random bytes; each is    *)
(* named by the serial number of its issue.  One clock serves every        *)
(* reading, as time.monotonic does.  Lifetimes are constant, so the expiry *)
(* heaps are queues.                                                       *)
(***************************************************************************)
EXTENDS Integers, Sequences, FiniteSets

CONSTANTS
    Accounts, Devices, Revisions,
    Callers,                     \* threads serving requests
    None,
    Transitions,                 \* the signed registry transitions presented
    ChallengeLifetime, SessionLifetime,   \* 120 s and 900 s
    MaxAccounts, MaxDevices, MaxChallenges, MaxChallengesPerDevice,
    MaxSessions, MaxSessionsPerDevice,
    VerificationLimit, Window,   \* per verification class, and window_seconds
    MaxTime, MaxIssued           \* bounds: the clock, and serials of each kind

DeviceKeys == Accounts \X Devices
TransitionRecords == [account : Accounts, parent : Revisions \cup {None},
                      revision : Revisions, device : Devices,
                      signer : Devices, signedBy : Devices]
Serials == 1 .. MaxIssued
Instants == 0 .. MaxTime
Challenges == [serial : Serials, account : Accounts, device : Devices, expires : Nat]
Sessions == [token : Serials, account : Accounts, device : Devices, expires : Nat]
Registries == [revision : Revisions, devices : SUBSET Devices, used : SUBSET Revisions]

BootstrapCalls == [op : {"bootstrap"}, verified : BOOLEAN,
                   transition : TransitionRecords, admission : Serials]
SessionCalls == [op : {"session"}, verified : BOOLEAN, challenge : Challenges,
                 signedBy : Devices]
DeviceCalls == [op : {"device"}, verified : BOOLEAN,
                transition : TransitionRecords, token : Serials]
Calls == BootstrapCalls \cup SessionCalls \cup DeviceCalls

ASSUME NoneAssumption ==
    None \notin Revisions \cup Serials \cup Registries \cup Calls
ASSUME TransitionsAssumption == Transitions \subseteq TransitionRecords
ASSUME LimitsAssumption ==
    /\ {ChallengeLifetime, SessionLifetime, MaxAccounts, MaxDevices, MaxChallenges,
        MaxChallengesPerDevice, MaxSessions, MaxSessionsPerDevice, Window}
          \subseteq Nat \ {0}
    /\ VerificationLimit \in [{"bootstrap", "account"} -> Nat \ {0}]
    /\ MaxTime \in Nat /\ MaxIssued \in Nat

VARIABLES
    clock,
    accounts,        \* _accounts: an account's registry, or None
    admissions,      \* _bootstrap_admissions: the serial admitted, or None
    minted,          \* serials of admissions issued
    challenges,      \* _challenges
    challengeQueue,  \* _challenge_expiries
    challengeSlots,  \* _challenges_per_device
    issued,          \* _next_challenge_expiry_sequence
    sessions,        \* _sessions
    sessionQueue,    \* _session_expiries
    sessionSlots,    \* _sessions_per_device
    granted,         \* _next_session_expiry_sequence
    limiters,        \* the two verification windows
    calls,           \* what each thread is in the middle of
    grants,          \* history: the challenge and instant of every session
    lineage          \* history: the transitions an account's registry accepted

challengeVars == <<challenges, challengeQueue, challengeSlots, issued>>
sessionVars == <<sessions, sessionQueue, sessionSlots, granted, grants>>
accountVars == <<accounts, admissions, minted, lineage>>
vars == <<clock, accountVars, challengeVars, sessionVars, limiters, calls>>

Idle(p) == calls[p] = None
Begin(p, call) == calls' = [calls EXCEPT ![p] = call]
Return(p) == calls' = [calls EXCEPT ![p] = None]
InCommit(p, op) == calls[p] # None /\ calls[p].op = op /\ calls[p].verified
-----------------------------------------------------------------------------
(***************************************************************************)
(* Verification: charge the class's fixed window, then check the signature *)
(* with the key of the device that must have signed.                       *)
(***************************************************************************)
ClassOf(call) == IF call.op = "bootstrap" THEN "bootstrap" ELSE "account"

CurrentWindow(class) ==
    LET w == limiters[class]
    IN  IF w.started = None \/ clock - w.started >= Window
        THEN [started |-> clock, count |-> 0] ELSE w

Genuine(call) ==
    CASE call.op = "session"   -> call.signedBy = call.challenge.device
      [] call.op = "bootstrap" -> /\ call.transition.signer = call.transition.device
                                  /\ call.transition.signedBy = call.transition.signer
      [] call.op = "device"    -> call.transition.signedBy = call.transition.signer

Verify(p) ==
    /\ calls[p] # None /\ ~calls[p].verified
    /\ LET class == ClassOf(calls[p])
           w     == CurrentWindow(class)
       IN  \/ /\ w.count >= VerificationLimit[class]
              /\ limiters' = [limiters EXCEPT ![class] = w]
              /\ Return(p)
           \/ /\ w.count < VerificationLimit[class]
              /\ limiters' = [limiters EXCEPT ![class] =
                                  [started |-> w.started, count |-> w.count + 1]]
              /\ IF Genuine(calls[p])
                 THEN Begin(p, [calls[p] EXCEPT !.verified = TRUE])
                 ELSE Return(p)
    /\ UNCHANGED <<clock, accountVars, challengeVars, sessionVars>>
-----------------------------------------------------------------------------
(***************************************************************************)
(* Bootstrapping an account.                                               *)
(***************************************************************************)
RoomForAccount(a) ==
    /\ accounts[a] = None
    /\ Cardinality({b \in Accounts : accounts[b] # None}) < MaxAccounts

\* A later admission for the same account replaces the earlier one.
IssueBootstrapAdmission(a) ==
    /\ minted < MaxIssued
    /\ accounts[a] = None
    /\ \/ admissions[a] # None
       \/ Cardinality({b \in Accounts : admissions[b] # None}) < MaxAccounts
    /\ minted' = minted + 1
    /\ admissions' = [admissions EXCEPT ![a] = minted + 1]
    /\ UNCHANGED <<clock, accounts, lineage, challengeVars, sessionVars, limiters, calls>>

BeginBootstrap(p, t, admission) ==
    /\ Idle(p) /\ t.parent = None
    /\ RoomForAccount(t.account) /\ admissions[t.account] = admission
    /\ Begin(p, [op |-> "bootstrap", verified |-> FALSE, transition |-> t,
                 admission |-> admission])
    /\ UNCHANGED <<clock, accountVars, challengeVars, sessionVars, limiters>>

\* Fault: nothing is looked at again after the verification.
StillAdmittedUnchecked(call) == TRUE

\* The admission was not replaced and the account not created meanwhile.
StillAdmitted(call) ==
    /\ RoomForAccount(call.transition.account)
    /\ admissions[call.transition.account] = call.admission

Accepted(t) == [parent |-> t.parent, revision |-> t.revision,
                device |-> t.device, signer |-> t.signer]

CommitBootstrap(p) ==
    /\ InCommit(p, "bootstrap")
    /\ LET t == calls[p].transition
       IN  \/ /\ StillAdmitted(calls[p])
              /\ accounts' = [accounts EXCEPT ![t.account] =
                     [revision |-> t.revision, devices |-> {t.device},
                      used |-> {t.revision}]]
              /\ admissions' = [admissions EXCEPT ![t.account] = None]
              /\ lineage' = [lineage EXCEPT ![t.account] = <<Accepted(t)>>]
           \/ /\ ~StillAdmitted(calls[p])
              /\ UNCHANGED <<accounts, admissions, lineage>>
    /\ Return(p)
    /\ UNCHANGED <<clock, minted, challengeVars, sessionVars, limiters>>
-----------------------------------------------------------------------------
(***************************************************************************)
(* Challenges.  A challenge holds a slot of its device until it expires,   *)
(* even when a session has consumed it.                                    *)
(***************************************************************************)
Due(queue) == Cardinality({i \in DOMAIN queue : queue[i].expires <= clock})

Undue(queue) == SubSeq(queue, Due(queue) + 1, Len(queue))

\* What a prune drops: the entries popped that have expired themselves.
ExpiredChallenges ==
    {c \in challenges : /\ c.expires <= clock
                        /\ \E i \in 1 .. Due(challengeQueue) :
                              challengeQueue[i].serial = c.serial}
ExpiredSessions ==
    {s \in sessions : /\ s.expires <= clock
                      /\ \E i \in 1 .. Due(sessionQueue) :
                            sessionQueue[i].token = s.token}

\* Fault: an expired entry gives its slot back only if it was never consumed.
SlotsUnlessConsumed ==
    [k \in DeviceKeys |-> challengeSlots[k]
        - Cardinality({c \in ExpiredChallenges : <<c.account, c.device>> = k})]

SlotsAfterPrune ==
    [k \in DeviceKeys |-> challengeSlots[k]
        - Cardinality({i \in 1 .. Due(challengeQueue) : challengeQueue[i].device = k})]

\* The prune happens even when no challenge is then issued.
IssueChallenge(a, d) ==
    /\ accounts[a] # None /\ d \in accounts[a].devices
    /\ LET live  == challenges \ ExpiredChallenges
           queue == Undue(challengeQueue)
           slots == SlotsAfterPrune
           full  == \/ Len(queue) >= MaxChallenges
                    \/ slots[<<a, d>>] >= MaxChallengesPerDevice
       IN  \/ /\ ~full /\ issued < MaxIssued
              /\ issued' = issued + 1
              /\ challenges' = live \cup
                     {[serial |-> issued + 1, account |-> a, device |-> d,
                       expires |-> clock + ChallengeLifetime]}
              /\ challengeQueue' = Append(queue,
                     [expires |-> clock + ChallengeLifetime, serial |-> issued + 1,
                      device |-> <<a, d>>])
              /\ challengeSlots' = [slots EXCEPT ![<<a, d>>] = @ + 1]
           \/ /\ full
              /\ challenges' = live /\ challengeQueue' = queue
              /\ challengeSlots' = slots
              /\ UNCHANGED issued
    /\ UNCHANGED <<clock, accountVars, sessionVars, limiters, calls>>
-----------------------------------------------------------------------------
(***************************************************************************)
(* Sessions.                                                               *)
(***************************************************************************)
\* Fault: the challenge is read and left in place.
Kept(c) == challenges

Dropped(c) == challenges \ {c}

\* The challenge is consumed by the attempt, whether or not it succeeds.
BeginSession(p, c, d, signedBy) ==
    /\ Idle(p)
    /\ challenges' = Dropped(c)
    /\ \/ /\ c.device = d /\ c.expires > clock
          /\ Begin(p, [op |-> "session", verified |-> FALSE, challenge |-> c,
                       signedBy |-> signedBy])
       \/ /\ ~(c.device = d /\ c.expires > clock)
          /\ UNCHANGED calls
    /\ UNCHANGED <<clock, accountVars, challengeQueue, challengeSlots, issued,
                   sessionVars, limiters>>

DeviceKey(s) == <<s.account, s.device>>
CountFor(S, k) == Cardinality({s \in S : DeviceKey(s) = k})

\* Fault: the slot is given back with the session and with its queue entry.
SlotsDroppedTwice(S) ==
    [k \in DeviceKeys |-> sessionSlots[k] - 2 * CountFor(S, k)]

\* Every _drop_session gives its slot back.
DropSessions(S) ==
    [k \in DeviceKeys |-> sessionSlots[k] - CountFor(S, k)]

Unexpired(c) == c.expires > clock

CommitSession(p) ==
    /\ InCommit(p, "session")
    /\ LET c       == calls[p].challenge
           k       == DeviceKey(c)
           live    == sessions \ ExpiredSessions
           slots   == DropSessions(ExpiredSessions)
           grant   == /\ Cardinality(live) < MaxSessions
                      /\ slots[k] < MaxSessionsPerDevice
                      /\ Unexpired(c)
       IN  \/ /\ grant /\ granted < MaxIssued
              /\ granted' = granted + 1
              /\ sessions' = live \cup
                     {[token |-> granted + 1, account |-> c.account,
                       device |-> c.device, expires |-> clock + SessionLifetime]}
              /\ sessionQueue' = Append(Undue(sessionQueue),
                     [expires |-> clock + SessionLifetime, token |-> granted + 1])
              /\ sessionSlots' = [slots EXCEPT ![k] = @ + 1]
              /\ grants' = grants \cup {[token |-> granted + 1, challenge |-> c, at |-> clock]}
           \/ /\ ~grant
              /\ sessions' = live /\ sessionQueue' = Undue(sessionQueue)
              /\ sessionSlots' = slots
              /\ UNCHANGED <<granted, grants>>
    /\ Return(p)
    /\ UNCHANGED <<clock, accountVars, challengeVars, limiters>>


\* _authorize_token drops a session found expired; its queue entry stays.
DropExpired(s) ==
    /\ s.expires <= clock
    /\ sessions' = sessions \ {s}
    /\ sessionSlots' = DropSessions({s})
    /\ UNCHANGED <<sessionQueue, granted, grants>>

\* authorize_account, authorize_storage, list_devices with an expired token.
UseExpiredToken(s) ==
    /\ DropExpired(s)
    /\ UNCHANGED <<clock, accountVars, challengeVars, limiters, calls>>
-----------------------------------------------------------------------------
(***************************************************************************)
(* Adding a device to a registry.                                          *)
(***************************************************************************)
\* Fault: only the session is looked at.
ExtendsAnything(t) == TRUE

Extends(t) ==
    LET registry == accounts[t.account]
    IN  /\ registry.revision = t.parent
        /\ t.revision \notin registry.used
        /\ Cardinality(registry.devices) < MaxDevices
        /\ t.signer \in registry.devices

Holds(s, t) == s.account = t.account /\ s.device = t.signer

BeginAddDevice(p, s, t) ==
    /\ Idle(p) /\ t.parent # None
    /\ s.expires > clock /\ Holds(s, t)
    /\ accounts[t.account].revision = t.parent
    /\ t.revision \notin accounts[t.account].used
    /\ Cardinality(accounts[t.account].devices) < MaxDevices
    /\ t.signer \in accounts[t.account].devices
    /\ Begin(p, [op |-> "device", verified |-> FALSE, transition |-> t, token |-> s.token])
    /\ UNCHANGED <<clock, accountVars, challengeVars, sessionVars, limiters>>

\* The session, the parent revision and the limit are checked again.
CommitAddDevice(p) ==
    /\ InCommit(p, "device")
    /\ LET t    == calls[p].transition
           held == {s \in sessions : s.token = calls[p].token}
           add  == /\ \E s \in held : s.expires > clock
                   /\ Extends(t)
                   /\ t.device \notin accounts[t.account].devices
       IN  \/ /\ add
              /\ accounts' = [accounts EXCEPT ![t.account] =
                     [revision |-> t.revision,
                      devices |-> @.devices \cup {t.device},
                      used |-> @.used \cup {t.revision}]]
              /\ lineage' = [lineage EXCEPT ![t.account] = Append(@, Accepted(t))]
              /\ UNCHANGED sessionVars
           \/ /\ ~add
              /\ \/ \E s \in held : DropExpired(s)
                 \/ /\ \A s \in held : s.expires > clock
                    /\ UNCHANGED sessionVars
              /\ UNCHANGED <<accounts, lineage>>
    /\ Return(p)
    /\ UNCHANGED <<clock, admissions, minted, challengeVars, limiters>>
-----------------------------------------------------------------------------
Init ==
    /\ clock = 0
    /\ accounts = [a \in Accounts |-> None]
    /\ admissions = [a \in Accounts |-> None]
    /\ minted = 0
    /\ challenges = {} /\ challengeQueue = <<>>
    /\ challengeSlots = [k \in DeviceKeys |-> 0] /\ issued = 0
    /\ sessions = {} /\ sessionQueue = <<>>
    /\ sessionSlots = [k \in DeviceKeys |-> 0] /\ granted = 0
    /\ limiters = [c \in {"bootstrap", "account"} |-> [started |-> None, count |-> 0]]
    /\ calls = [p \in Callers |-> None]
    /\ grants = {}
    /\ lineage = [a \in Accounts |-> <<>>]

Tick ==
    /\ clock < MaxTime
    /\ clock' = clock + 1
    /\ UNCHANGED <<accountVars, challengeVars, sessionVars, limiters, calls>>

Next ==
    \/ Tick
    \/ \E a \in Accounts : IssueBootstrapAdmission(a)
    \/ \E a \in Accounts, d \in Devices : IssueChallenge(a, d)
    \/ \E s \in sessions : UseExpiredToken(s)
    \/ \E p \in Callers :
         \/ Verify(p) \/ CommitBootstrap(p) \/ CommitSession(p) \/ CommitAddDevice(p)
         \/ \E t \in Transitions :
              \/ \E n \in Serials : BeginBootstrap(p, t, n)
              \/ \E s \in sessions : BeginAddDevice(p, s, t)
         \/ \E c \in challenges, d, e \in Devices : BeginSession(p, c, d, e)

Spec == Init /\ [][Next]_vars
-----------------------------------------------------------------------------
TypeOK ==
    /\ clock \in Instants
    /\ accounts \in [Accounts -> Registries \cup {None}]
    /\ admissions \in [Accounts -> Serials \cup {None}]
    /\ minted \in 0 .. MaxIssued /\ issued \in 0 .. MaxIssued
    /\ granted \in 0 .. MaxIssued
    /\ challenges \subseteq Challenges /\ sessions \subseteq Sessions
    /\ challengeQueue \in Seq([expires : Nat, serial : Serials, device : DeviceKeys])
    /\ sessionQueue \in Seq([expires : Nat, token : Serials])
    /\ challengeSlots \in [DeviceKeys -> Nat] /\ sessionSlots \in [DeviceKeys -> Nat]
    /\ limiters \in [{"bootstrap", "account"} ->
                        [started : Instants \cup {None}, count : Nat]]
    /\ calls \in [Callers -> Calls \cup {None}]
    /\ grants \subseteq [token : Serials, challenge : Challenges, at : Instants]
    /\ lineage \in [Accounts -> Seq([parent : Revisions \cup {None}, revision : Revisions,
                                     device : Devices, signer : Devices])]

\* One challenge answers for at most one session, granted while the challenge
\* is alive, though create_session reads it in one critical section, verifies
\* the proof for however long, and grants the session in another.
SessionsAreEarned ==
    /\ \A g, h \in grants : g.challenge.serial = h.challenge.serial => g = h
    /\ \A g \in grants : g.at < g.challenge.expires

\* A device registry is one chain: every accepted transition names the
\* revision before it as its parent, is signed by a device that was already
\* there, brings a device and a revision that were not, and the account holds
\* exactly what the chain adds up to (bootstrap_account and add_device, with
\* two additions racing through their unlocked verification).
RegistryLineage ==
    \A a \in Accounts :
        LET chain == lineage[a]
            DevicesBefore(i) == {chain[j].device : j \in 1 .. (i - 1)}
        IN  /\ accounts[a] = None <=> chain = <<>>
            /\ accounts[a] # None =>
                 /\ accounts[a].revision = chain[Len(chain)].revision
                 /\ accounts[a].devices = DevicesBefore(Len(chain) + 1)
                 /\ chain[1].parent = None /\ chain[1].signer = chain[1].device
                 /\ Len(chain) <= MaxDevices
                 /\ \A i \in 2 .. Len(chain) :
                      /\ chain[i].parent = chain[i - 1].revision
                      /\ chain[i].signer \in DevicesBefore(i)
                      /\ chain[i].device \notin DevicesBefore(i)
                      /\ \A j \in 1 .. (i - 1) : chain[j].revision # chain[i].revision

\* The counters the limits are enforced on count what they stand for: a device
\* has a slot taken for each unexpired or unpruned challenge issued to it and
\* for each session in the table, and whatever is in a table has a queue entry
\* that will prune it, so no limit leaks or is exceeded
\* (_release_challenge_slot, _drop_session, the expiry heaps).
SlotsAreExact ==
    /\ \A k \in DeviceKeys :
         /\ challengeSlots[k] =
              Cardinality({i \in DOMAIN challengeQueue : challengeQueue[i].device = k})
         /\ challengeSlots[k] <= MaxChallengesPerDevice
         /\ sessionSlots[k] = CountFor(sessions, k)
         /\ sessionSlots[k] <= MaxSessionsPerDevice
    /\ Len(challengeQueue) <= MaxChallenges /\ Cardinality(sessions) <= MaxSessions
    /\ \A c \in challenges : \E i \in DOMAIN challengeQueue :
          challengeQueue[i] = [expires |-> c.expires, serial |-> c.serial,
                                device |-> DeviceKey(c)]
    /\ \A s \in sessions : \E i \in DOMAIN sessionQueue :
          sessionQueue[i] = [expires |-> s.expires, token |-> s.token]

\* An account is created only with the admission issued last for it, which is
\* then spent, and never beyond max_accounts, although the admission may be
\* replaced, and another account created, while the signature is verified.
AdmissionGoverned ==
    [][\A a \in Accounts :
         accounts[a] = None /\ accounts'[a] # None =>
             /\ admissions[a] # None /\ admissions'[a] = None
             /\ \E p \in Callers : /\ calls[p] # None /\ calls[p].op = "bootstrap"
                                   /\ calls[p].transition.account = a
                                   /\ calls[p].admission = admissions[a]
             /\ Cardinality({b \in Accounts : accounts'[b] # None}) <= MaxAccounts]_vars
=============================================================================
