-------------------------- MODULE GenesisCeremony --------------------------
(***************************************************************************)
(* The genesis ceremony (wizard.rs, genesis_registration.rs,               *)
(* genesis_builder.rs): every validator puts its two configuration files   *)
(* on its fork of a repository and asks for them to be pulled, then        *)
(* everyone builds the genesis block from the repository and the recovery  *)
(* file. Each call to the repository may fail, each tool may be killed and *)
(* run again, and pulls are merged whenever the coordinator gets to them.  *)
(***************************************************************************)
EXTENDS GenesisMigration

CONSTANTS
    Users,          \* users of the layout file
    Account,        \* the account, with its key, of each version of a user's
                    \* configuration; accounts have records or not
    Inputs,         \* recovery files, as [record : ..., drops : ...]
    MaxVersion,     \* bound on changes of a validator's configuration
    MaxFaults       \* bound on failures and on builds before the call

ASSUME CeremonyAssumption ==
    /\ Users \in Seq(Range(Users))
    /\ IsInjective(Users)
    /\ \A u \in Range(Users) : DOMAIN Account[u] = 0 .. MaxVersion
    /\ \A u, v \in Range(Users) : u # v => Range(Account[u]) \cap Range(Account[v]) = {}
    /\ \A i \in Inputs : /\ i.record \in [Addresses -> Records]
                         /\ i.drops \subseteq Addresses
    /\ MaxVersion \in Nat
    /\ MaxFaults \in Nat

\* The export has a key for every account resource (legacy_recovery_v6.rs): a
\* record without one has no coins to lose.
ASSUME ExportAssumption ==
    \A i \in Inputs : \A a \in Addresses :
        ~i.record[a].auth_key => i.record[a].balance = None /\ i.record[a].pledge = None

Layout == Range(Users)

VARIABLES
    input,      \* the recovery file
    version,    \* the configuration in each validator's home
    wizard,     \* where each validator's wizard is
    done,       \* validators whose last wizard came to its end
    fork,       \* the fork: "none", "creating" or "ready"
    onFork,     \* the version of the two files on it
    pulls,      \* validators with an open pull request
    main,       \* the version of the two files in the repository
    called,     \* the coordinator has called for genesis
    builder,    \* where each validator's build is
    got,        \* the files it has read
    blob,       \* genesis.blob of each validator
    waypoint,   \* and waypoint.txt: the blob it is the waypoint of
    faults

regVars == <<version, wizard, done, fork, onFork, pulls>>

buildVars == <<builder, got, blob, waypoint>>

vars == <<input, regVars, main, called, buildVars, faults>>

NoFiles == [owner |-> None, operator |-> None]

NoReads == [u \in Layout |-> NoFiles]

Init ==
    /\ input \in Inputs
    /\ version = [v \in Layout |-> 0]
    /\ wizard = [v \in Layout |-> "off"]
    /\ done = {}
    /\ fork = [v \in Layout |-> "none"]
    /\ onFork = [v \in Layout |-> NoFiles]
    /\ pulls = {}
    /\ main = [v \in Layout |-> NoFiles]
    /\ called = FALSE
    /\ builder = [v \in Layout |-> "off"]
    /\ got = [v \in Layout |-> NoReads]
    /\ blob = [v \in Layout |-> None]
    /\ waypoint = [v \in Layout |-> None]
    /\ faults = 0

Fault == faults < MaxFaults /\ faults' = faults + 1

-----------------------------------------------------------------------------
\* Registration.

\* start_wizard asks for the configuration again before it registers: a host,
\* which is in the operator's file only, or the mnemonic of another account.
StartWizard(v) ==
    /\ ~called
    /\ wizard[v] = "off"
    /\ \E new \in {version[v], version[v] + 1} :
        /\ new <= MaxVersion
        /\ version' = [version EXCEPT ![v] = new]
        /\ new = version[v] => v \notin done
    /\ wizard' = [wizard EXCEPT ![v] = "fork"]
    /\ done' = done \ {v}
    /\ UNCHANGED <<input, fork, onFork, pulls, main, called, buildVars, faults>>

\* git_setup uses the fork there is, or asks for one and sleeps.
GitSetup(v) ==
    /\ wizard[v] = "fork"
    /\ fork' = [fork EXCEPT ![v] = IF @ = "ready" THEN "ready" ELSE "creating"]
    /\ wizard' = [wizard EXCEPT ![v] = "operator"]
    /\ UNCHANGED <<input, version, done, onFork, pulls, main, called, buildVars, faults>>

\* The repository's host finishes the fork.
ForkReady(v) ==
    /\ fork[v] = "creating"
    /\ fork' = [fork EXCEPT ![v] = "ready"]
    /\ UNCHANGED <<input, version, wizard, done, onFork, pulls, main, called, buildVars, faults>>

\* register puts the operator's file, then the owner's.
PutFile(v, name, next) ==
    /\ wizard[v] = name
    /\ fork[v] = "ready"
    /\ onFork' = [onFork EXCEPT ![v][name] = version[v]]
    /\ wizard' = [wizard EXCEPT ![v] = next]
    /\ UNCHANGED <<input, version, done, fork, pulls, main, called, buildVars, faults>>

\* The sleep was too short: the wizard ends with the error.
ForkTooSlow(v) ==
    /\ wizard[v] = "operator"
    /\ fork[v] = "creating"
    /\ wizard' = [wizard EXCEPT ![v] = "off"]
    /\ UNCHANGED <<input, version, done, fork, onFork, pulls, main, called, buildVars, faults>>

\* Mutant of MakePullRequest: a user with files in the repository is done.
PullOnce(v) ==
    /\ wizard[v] = "pull"
    /\ pulls' = IF main[v] = NoFiles THEN pulls \cup {v} ELSE pulls
    /\ wizard' = [wizard EXCEPT ![v] = "off"]
    /\ done' = done \cup {v}
    /\ UNCHANGED <<input, version, fork, onFork, main, called, buildVars, faults>>

\* make_pull_request takes "already exists" and "No commits" for success.
MakePullRequest(v) ==
    /\ wizard[v] = "pull"
    /\ pulls' = IF onFork[v] = main[v] THEN pulls ELSE pulls \cup {v}
    /\ wizard' = [wizard EXCEPT ![v] = "off"]
    /\ done' = done \cup {v}
    /\ UNCHANGED <<input, version, fork, onFork, main, called, buildVars, faults>>

\* A call fails or the wizard is killed.
WizardFails(v) ==
    /\ Fault
    /\ wizard[v] # "off"
    /\ wizard' = [wizard EXCEPT ![v] = "off"]
    /\ UNCHANGED <<input, version, done, fork, onFork, pulls, main, called, buildVars>>

\* The coordinator merges what the fork holds now, half written or not.
Merge(v) ==
    /\ v \in pulls
    /\ main' = [main EXCEPT ![v] = onFork[v]]
    /\ pulls' = pulls \ {v}
    /\ UNCHANGED <<input, version, wizard, done, fork, onFork, called, buildVars, faults>>

\* "NOW WAIT for everyone to do genesis. Is everyone ready?"
Call ==
    /\ ~called
    /\ done = Layout
    /\ pulls = {}
    /\ called' = TRUE
    /\ UNCHANGED <<input, regVars, main, buildVars, faults>>

-----------------------------------------------------------------------------
\* The build. One that starts before the call is hasty.

\* Mutant of StartBuild: the call is not waited for.
StartAtOnce(b) ==
    /\ builder[b] = "off"
    /\ IF called THEN faults' = faults ELSE Fault
    /\ builder' = [builder EXCEPT ![b] = "reading"]
    /\ got' = [got EXCEPT ![b] = NoReads]
    /\ UNCHANGED <<input, regVars, main, called, blob, waypoint>>

StartBuild(b) ==
    /\ builder[b] = "off"
    /\ IF called THEN faults' = faults ELSE Fault
    /\ builder' = [builder EXCEPT ![b] = IF called THEN "reading" ELSE "hasty"]
    /\ got' = [got EXCEPT ![b] = NoReads]
    /\ UNCHANGED <<input, regVars, main, called, blob, waypoint>>

Reading(b) == builder[b] \in {"reading", "hasty"}

\* get_config reads the owner's file of a user, then the operator's; the
\* users come one after the other, in any order here.
ReadFile(b, u, name) ==
    /\ Reading(b)
    /\ name = "operator" <=> got[b][u].owner # None
    /\ got[b][u][name] = None
    /\ \A w \in Layout \ {u} : (got[b][w].owner = None) <=> (got[b][w].operator = None)
    /\ main[u][name] # None
    /\ got' = [got EXCEPT ![b][u][name] = main[u][name]]
    /\ UNCHANGED <<input, regVars, main, called, builder, blob, waypoint, faults>>

HasBoth(b, u) == got[b][u].owner # None /\ got[b][u].operator # None

\* Mutant of HasConfig: the two files are not compared.
HasAnyConfig(b, u) == HasBoth(b, u)

\* "Verify owner & operator agree on operator"
HasConfig(b, u) ==
    /\ HasBoth(b, u)
    /\ Account[u][got[b][u].owner] = Account[u][got[b][u].operator]

\* get_validator_configs bails if a single user has an error.
AllRead(b) == \A u \in Layout : HasConfig(b, u)

BuildBails(b) ==
    /\ Reading(b)
    /\ \E u \in Layout :
        \/ got[b][u].owner = None /\ main[u].owner = None
        \/ got[b][u].owner # None /\ got[b][u].operator = None /\ main[u].operator = None
        \/ HasBoth(b, u) /\ ~HasConfig(b, u)
    /\ builder' = [builder EXCEPT ![b] = "off"]
    /\ UNCHANGED <<input, regVars, main, called, got, blob, waypoint, faults>>

\* The validators' accounts, from the owners' files.
Owners(configs) == [i \in DOMAIN Users |-> Account[Users[i]][configs[Users[i]].owner]]

\* recovery_file_parse, then the drops
Recovery == drop_accounts(fix_slow_wallet(input.record), input.drops)

BuildPanics(b) ==
    /\ Reading(b)
    /\ AllRead(b)
    /\ EncodePanics(Recovery, Owners(got[b]))
    /\ builder' = [builder EXCEPT ![b] = "off"]
    /\ UNCHANGED <<input, regVars, main, called, got, blob, waypoint, faults>>

\* The transaction is made and genesis.blob written.
SaveBlob(b) ==
    /\ Reading(b)
    /\ AllRead(b)
    /\ ~EncodePanics(Recovery, Owners(got[b]))
    /\ blob' = [blob EXCEPT ![b] = [configs |-> got[b],
                                    chain |-> encode_genesis(Recovery, Owners(got[b]))]]
    /\ builder' = [builder EXCEPT ![b] = IF @ = "hasty" THEN "hasty saved" ELSE "saved"]
    /\ got' = [got EXCEPT ![b] = NoReads]
    /\ UNCHANGED <<input, regVars, main, called, waypoint, faults>>

\* Then the waypoint, and then the audit, which leaves the files as they are.
SaveWaypoint(b) ==
    /\ builder[b] \in {"saved", "hasty saved"}
    /\ waypoint' = [waypoint EXCEPT ![b] = blob[b]]
    /\ builder' = [builder EXCEPT ![b] =
          IF AuditPanics(Recovery, blob[b].chain) \/ @ = "hasty saved" THEN "off" ELSE "done"]
    /\ UNCHANGED <<input, regVars, main, called, got, blob, faults>>

BuildFails(b) ==
    /\ Fault
    /\ builder[b] \notin {"off", "done"}
    /\ builder' = [builder EXCEPT ![b] = "off"]
    /\ got' = [got EXCEPT ![b] = NoReads]
    /\ UNCHANGED <<input, regVars, main, called, blob, waypoint>>

-----------------------------------------------------------------------------
Register(v) ==
    \/ GitSetup(v)
    \/ PutFile(v, "operator", "owner")
    \/ PutFile(v, "owner", "pull")
    \/ ForkTooSlow(v)
    \/ MakePullRequest(v)

Build(b) ==
    \/ \E u \in Layout, name \in {"owner", "operator"} : ReadFile(b, u, name)
    \/ BuildBails(b)
    \/ BuildPanics(b)
    \/ SaveBlob(b)
    \/ SaveWaypoint(b)

\* After everything: the ceremony is over.
Over ==
    /\ called
    /\ \A b \in Layout : builder[b] = "done"
    /\ UNCHANGED vars

Next ==
    \/ \E v \in Layout : \/ StartWizard(v) \/ Register(v) \/ WizardFails(v)
                         \/ ForkReady(v) \/ Merge(v)
                         \/ StartBuild(v) \/ Build(v) \/ BuildFails(v)
    \/ Call
    \/ Over

\* An operator whose wizard did not end runs it again; forks are finished and
\* pulls merged, the coordinator calls, and tools keep going.
Fairness ==
    /\ \A v \in Layout : /\ WF_vars(StartWizard(v) /\ version' = version)
                         /\ WF_vars(Register(v))
                         /\ WF_vars(ForkReady(v))
                         /\ WF_vars(Merge(v))
    /\ WF_vars(Call)

Spec == Init /\ [][Next]_vars /\ Fairness

-----------------------------------------------------------------------------
\* Whatever fails and is retried on the way, the repository ends up with the
\* configuration in every validator's home, and genesis can be called.
RegistrationCompletes ==
    <>[](/\ called
         /\ \A v \in Layout : main[v] = [owner |-> version[v], operator |-> version[v]])

\* A blob on disk, hasty or not, has for every user of the layout two files
\* of configurations that the user had, of the same account: a registration
\* merged between its two commits, or read while a pull is merged, does not
\* put a validator's account together with the node of another. All that may
\* be newer is the operator's file of the same account (a change of host).
BlobsAreComplete ==
    \A b \in Layout : blob[b] # None =>
        \A u \in Layout :
            LET files == blob[b].configs[u]
            IN  /\ files.owner \in 0 .. version[u]
                /\ files.operator \in 0 .. version[u]
                /\ Account[u][files.owner] = Account[u][files.operator]

\* Validators who built after the call start from the same block, and from
\* the waypoint of that block.
BlobsAgree ==
    \A b, c \in Layout :
        builder[b] = "done" /\ builder[c] = "done" =>
            blob[b] = blob[c] /\ waypoint[b] = blob[b]

\* The block holds the coins of the recovery file and no others, none of
\* them and no vote with the dropped accounts, and no slow wallet has more
\* unlocked than it holds: what the ledger starts from. If the audit comes to
\* its end, what it finds is about validators only (the coins from the escrow).
GenesisIsFaithful ==
    \A b \in Layout : blob[b] # None =>
        LET chain == blob[b].chain
            file  == drop_accounts(input.record, input.drops)
        IN  /\ CoinsIn(chain) = CoinsOf(file)
            /\ \A a \in DOMAIN chain.unlocked : chain.unlocked[a] <= chain.balance[a]
            /\ chain.tombstone \cap (DOMAIN chain.balance \cup DOMAIN chain.pledge) = {}
            /\ \A w \in DOMAIN chain.donors : chain.donors[w] \cap input.drops = {}
            /\ \/ AuditPanics(Recovery, chain)
               \/ AuditErrors(Recovery, chain) \subseteq Range(Owners(blob[b].configs))
=============================================================================
