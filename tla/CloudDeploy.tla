---------------------------- MODULE CloudDeploy ----------------------------
(***************************************************************************)
(* scripts/cloud_deploy.py and teardown_cloud.sh: one operator deploys the *)
(* four services to three clouds, with what he did so far in               *)
(* dist/live/*.json.  A command is the list of the cloud calls it still    *)
(* has to make, each one a step; it may stop between any two of them (a    *)
(* call fails, a wait times out, Ctrl-C), and nothing is undone.           *)
(*                                                                         *)
(* Every created service gets an address of its own.  Names, sizes, image  *)
(* tags and credentials are left out, as are the package-* and status      *)
(* commands, which change none of this.                                    *)
(***************************************************************************)
EXTENDS Integers, Sequences, FiniteSets

CONSTANTS
    MaxStops,       \* bounds: commands that stop for no reason of the model,
    MaxCommands,    \* commands other than go-live without --replace,
    MaxTeardowns    \* runs of teardown_cloud.sh

ASSUME BoundsAssumption == {MaxStops, MaxCommands, MaxTeardowns} \subseteq Nat

AwsService == {"registry", "ingestion"}
Service    == AwsService \cup {"risk", "anomaly"}
Cloud      == {"aws", "gcp", "azure"}

\* The calls a command makes, for a cloud or a service.
Verb == {"role", "policy", "images", "keep", "replace", "group", "resources",
         "apply", "rebase", "save", "link", "finish",
         "delete", "delete, keep storage"}
Step == Verb \X (Cloud \cup Service)

CloudOf(s)    == CASE s \in AwsService -> "aws"
                   [] s = "risk"       -> "gcp"
                   [] s = "anomaly"    -> "azure"
ServicesOf(c) == {s \in Service : CloudOf(s) = c}

NoUrl     == <<"none", 0>>
Bootstrap == <<"bootstrap.invalid", 0>>
Url       == (Service \cup {"none", "bootstrap.invalid"}) \X Nat

VARIABLES
    app,        \* the services that exist: "absent", "running", "create_failed"
    url,        \* their addresses
    env,        \* their settings: env[s][s] is BASE_URL, env[s][r] the URL of r
    portfolio,  \* whether the running risk service has one (it keeps it in memory)
    role,       \* the IAM role of App Runner: "absent", "bare", "attached"
    images,     \* which of AWS and GCP have their image repositories
    group,      \* the Azure group: "absent", "bare", "ready", "deleting"
    manifest,   \* dist/live: "missing", "empty", "broken" or "saved"
    recorded,   \* base_url of each service in the manifests; for AWS also its ARN
    plan,       \* the calls the running command still has to make
    known,      \* the endpoints it has collected
    live,       \* the last command was a bootstrap that completed: "no", or
                \* what its status says of the portfolio: "seeded", "unseeded"
    created, stops, commands, teardowns     \* counters

cloud  == <<app, url, env, portfolio, role, images, group>>
files  == <<manifest, recorded>>
bounds == <<stops, commands, teardowns>>
vars   == <<cloud, files, plan, known, live, created, bounds>>

TypeOK ==
    /\ app \in [Service -> {"absent", "running", "create_failed"}]
    /\ url \in [Service -> Url] /\ env \in [Service -> [Service -> Url]]
    /\ portfolio \in BOOLEAN
    /\ role \in {"absent", "bare", "attached"}
    /\ images \subseteq {"aws", "gcp"}
    /\ group \in {"absent", "bare", "ready", "deleting"}
    /\ manifest \in [Cloud -> {"missing", "empty", "broken", "saved"}]
    /\ recorded \in [Service -> Url] /\ known \in [Service -> Url]
    /\ plan \in Seq(Step)
    /\ live \in {"no", "seeded", "unseeded"}
    /\ created \in [Service -> Nat]
    /\ {stops, commands, teardowns} \subseteq Nat

Unknown == [s \in Service |-> NoUrl]

Init ==
    /\ app = [s \in Service |-> "absent"]
    /\ url = Unknown /\ env = [s \in Service |-> Unknown]
    /\ portfolio = FALSE /\ role = "absent" /\ images = {} /\ group = "absent"
    /\ manifest = [c \in Cloud |-> "missing"] /\ recorded = Unknown
    /\ plan = <<>> /\ known = Unknown /\ live = "no"
    /\ created = [s \in Service |-> 0]
    /\ stops = 0 /\ commands = 0 /\ teardowns = 0

-----------------------------------------------------------------------------
(* Commands, as lists of calls.                                            *)

Provision(c, replace) ==
    LET save == <<IF replace THEN "replace" ELSE "keep", c>>
    IN  CASE c = "aws"   -> << <<"role", c>>, <<"policy", c>>, <<"images", c>>, save >>
          [] c = "gcp"   -> << <<"images", c>>, save >>
          [] c = "azure" -> << <<"group", c>>, <<"resources", c>>, save >>

\* Mutant: the manifest is saved before the address is corrected.
DeploySaveFirst(s) == << <<"apply", s>>, <<"save", s>>, <<"rebase", s>> >>

Deploy(s) == << <<"apply", s>>, <<"rebase", s>>, <<"save", s>> >>

\* Mutant: the risk service learns the address of the anomaly service last.
BootstrapHostsLinkLast ==
    Deploy("registry") \o Deploy("ingestion") \o Deploy("risk") \o Deploy("anomaly")
        \o Deploy("ingestion") \o << <<"finish", "risk">>, <<"link", "risk">> >>

BootstrapHosts ==
    Deploy("registry") \o Deploy("ingestion") \o Deploy("risk") \o Deploy("anomaly")
        \o << <<"link", "risk">> >> \o Deploy("ingestion") \o << <<"finish", "risk">> >>

GoLive(replace) ==
    Provision("aws", replace) \o Provision("azure", replace)
        \o Provision("gcp", replace) \o BootstrapHosts

Teardown(keep) ==
    [i \in 1..3 |-> <<IF keep THEN "delete, keep storage" ELSE "delete",
                      <<"aws", "gcp", "azure">>[i]>>]

\* The addresses that are in the settings of each service, and those without
\* which its own deploy command refuses to start.
Refs(s) == CASE s = "registry"  -> {}
             [] s = "ingestion" -> {"registry", "risk", "anomaly"}
             [] s = "risk"      -> {"registry", "ingestion", "anomaly"}
             [] s = "anomaly"   -> {"registry", "ingestion", "risk"}

Needs(s) == CASE s = "registry"  -> {}
              [] s = "ingestion" -> {"registry"}
              [] s = "risk"      -> {"registry", "ingestion"}
              [] s = "anomaly"   -> {"registry", "ingestion", "risk"}

CanDeploy(s) ==
    /\ manifest[CloudOf(s)] = "saved"
    /\ \A r \in Needs(s) : /\ manifest[CloudOf(r)] = "saved"
                           /\ recorded[r] # NoUrl
    /\ \A r \in Refs(s) : manifest[CloudOf(r)] # "broken"

Begin(calls, endpoints) ==
    /\ plan = <<>>
    /\ plan' = calls /\ known' = endpoints /\ live' = "no"
    /\ UNCHANGED <<cloud, files, created>>

BeginGoLive ==
    /\ live = "no"
    /\ Begin(GoLive(FALSE), Unknown)
    /\ UNCHANGED bounds

BeginCommand ==
    /\ commands < MaxCommands
    /\ commands' = commands + 1
    /\ \/ Begin(GoLive(TRUE), Unknown)
       \/ \E c \in Cloud, replace \in BOOLEAN : Begin(Provision(c, replace), Unknown)
       \/ \E s \in Service : CanDeploy(s) /\ Begin(Deploy(s), recorded)
       \/ /\ \A c \in Cloud : manifest[c] = "saved"
          /\ Begin(BootstrapHosts, Unknown)
    /\ UNCHANGED <<stops, teardowns>>

BeginTeardown ==
    /\ teardowns < MaxTeardowns
    /\ teardowns' = teardowns + 1
    /\ \E keep \in BOOLEAN : Begin(Teardown(keep), Unknown)
    /\ UNCHANGED <<stops, commands>>

\* The next call of the running command.
At(op, x) == plan # <<>> /\ Head(plan) = <<op, x>>

Call(op, x) == At(op, x) /\ plan' = Tail(plan) /\ UNCHANGED bounds

-----------------------------------------------------------------------------
(* Provisioning.  Each call asks first whether there is something to do.   *)

\* A role that exists is taken to be complete, the second call is then skipped.
EnsureRole ==
    /\ At("role", "aws")
    /\ manifest["aws"] # "broken"
    /\ IF role = "absent"
       THEN role' = "bare" /\ plan' = Tail(plan)
       ELSE role' = role   /\ plan' = Tail(Tail(plan))
    /\ UNCHANGED <<app, url, env, portfolio, images, group, files, known, live,
                   created, bounds>>

AttachPolicy ==
    /\ Call("policy", "aws")
    /\ role' = "attached"
    /\ UNCHANGED <<app, url, env, portfolio, images, group, files, known, live, created>>

EnsureImages ==
    /\ \E c \in {"aws", "gcp"} :
           /\ Call("images", c)
           /\ manifest[c] # "broken"
           /\ images' = images \cup {c}
    /\ UNCHANGED <<app, url, env, portfolio, role, group, files, known, live, created>>

EnsureGroup ==
    /\ Call("group", "azure")
    /\ manifest["azure"] # "broken"
    /\ group' = IF group = "absent" THEN "bare" ELSE group
    /\ UNCHANGED <<app, url, env, portfolio, role, images, files, known, live, created>>

\* Environment, registry, storage: a group that is being deleted takes nothing.
EnsureResources ==
    /\ Call("resources", "azure")
    /\ group \in {"bare", "ready"}
    /\ group' = "ready"
    /\ UNCHANGED <<app, url, env, portfolio, role, images, files, known, live, created>>

SaveManifest(c, urls) ==
    /\ manifest' = [manifest EXCEPT ![c] = "saved"]
    /\ recorded' = [s \in Service |-> IF s \in ServicesOf(c) THEN urls[s] ELSE recorded[s]]

\* The AWS manifest keeps the ARNs and addresses it has, unless --replace; the
\* two others ask the cloud for the addresses.
SaveProvisioned(c) ==
    /\ \E op \in {"keep", "replace"} :
           /\ Call(op, c)
           /\ SaveManifest(c, IF c # "aws" THEN url
                              ELSE IF op = "keep" THEN recorded ELSE Unknown)
    /\ UNCHANGED <<cloud, known, live, created>>

-----------------------------------------------------------------------------
(* Deploying one service.                                                  *)

Settings(s, base) ==
    [r \in Service |-> IF r = s THEN base
                       ELSE IF r \in Refs(s) THEN known[r] ELSE NoUrl]

Provisional(s) == IF recorded[s] = NoUrl THEN Bootstrap ELSE recorded[s]

\* Building an image needs what provisioning created.
CanBuild(s) == IF s = "anomaly" THEN group = "ready" ELSE CloudOf(s) \in images

\* A new revision of the risk service starts with an empty memory.
Restarts(s) == portfolio' = (portfolio /\ s # "risk")

\* App Runner without the right to pull the image ends in CREATE_FAILED, as it
\* may for other reasons.
Create(s) ==
    /\ Call("apply", s)
    /\ app[s] = "absent" /\ CanBuild(s)
    /\ created' = [created EXCEPT ![s] = @ + 1]
    /\ url' = [url EXCEPT ![s] = <<s, created[s] + 1>>]
    /\ env' = [env EXCEPT ![s] = Settings(s, Provisional(s))]
    /\ \/ /\ s \in AwsService => role = "attached"
          /\ app' = [app EXCEPT ![s] = "running"]
       \/ /\ s \in AwsService
          /\ app' = [app EXCEPT ![s] = "create_failed"]
    /\ Restarts(s)
    /\ UNCHANGED <<role, images, group, files, known, live>>

\* Mutant: finds a service by the ARN in the manifest instead of by its name.
UpdateRecorded(s) ==
    /\ Call("apply", s)
    /\ app[s] = "running" /\ CanBuild(s) /\ recorded[s] = url[s]
    /\ env' = [env EXCEPT ![s] = Settings(s, Provisional(s))]
    /\ Restarts(s)
    /\ UNCHANGED <<app, url, role, images, group, files, known, live, created>>

Update(s) ==
    /\ Call("apply", s)
    /\ app[s] = "running" /\ CanBuild(s)
    /\ env' = [env EXCEPT ![s] = Settings(s, Provisional(s))]
    /\ Restarts(s)
    /\ UNCHANGED <<app, url, role, images, group, files, known, live, created>>

\* Mutant: corrects the address only of a service deployed for the first time.
RebaseFirstTime(s) ==
    /\ Call("rebase", s)
    /\ app[s] = "running"
    /\ IF recorded[s] = NoUrl
       THEN env' = [env EXCEPT ![s][s] = url[s]] /\ Restarts(s)
       ELSE UNCHANGED <<env, portfolio>>
    /\ UNCHANGED <<app, url, role, images, group, files, known, live, created>>

\* Once the service runs, its address is known: if it was deployed with another
\* one it is updated.  The endpoints are still the same.
Rebase(s) ==
    /\ Call("rebase", s)
    /\ app[s] = "running"
    /\ IF url[s] # Provisional(s)
       THEN env' = [env EXCEPT ![s][s] = url[s]] /\ Restarts(s)
       ELSE UNCHANGED <<env, portfolio>>
    /\ UNCHANGED <<app, url, role, images, group, files, known, live, created>>

\* Mutant: keeps the address that is recorded, if there is one.
SaveDeployedOnce(s) ==
    /\ Call("save", s)
    /\ SaveManifest(CloudOf(s), [recorded EXCEPT ![s] = Provisional(s)])
    /\ known' = [known EXCEPT ![s] = url[s]]
    /\ UNCHANGED <<cloud, live, created>>

SaveDeployed(s) ==
    /\ Call("save", s)
    /\ SaveManifest(CloudOf(s), [recorded EXCEPT ![s] = url[s]])
    /\ known' = [known EXCEPT ![s] = url[s]]
    /\ UNCHANGED <<cloud, live, created>>

-----------------------------------------------------------------------------
(* The end of bootstrap, teardown, and what goes wrong.                    *)

LinkRisk ==
    /\ Call("link", "risk")
    /\ env' = [env EXCEPT !["risk"]["anomaly"] = known["anomaly"]]
    /\ Restarts("risk")
    /\ UNCHANGED <<app, url, role, images, group, files, known, live, created>>

\* Health checks, the default portfolio (which may fail), the status manifest.
Finish ==
    /\ Call("finish", "risk")
    /\ \E seeded \in BOOLEAN :
           /\ portfolio' = (portfolio \/ seeded)
           /\ live' = IF seeded THEN "seeded" ELSE "unseeded"
    /\ UNCHANGED <<app, url, env, role, images, group, files, known, created>>

\* AWS services are deleted by the ARN in the manifest, the role if there is a
\* manifest at all, the others by the names in it; Azure deletes its group
\* later.  The manifests stay.  A deletion takes effect at once: that AWS deletes a
\* service in the background, and may fail to, is left out.
Delete(c) ==
    LET gone == CASE c = "aws"   -> {s \in AwsService : recorded[s] = url[s]}
                  [] c = "gcp"   -> {"risk"}
                  [] c = "azure" -> {}
        readable == manifest[c] = "saved"
    IN  \E keep \in BOOLEAN :
            /\ Call(IF keep THEN "delete, keep storage" ELSE "delete", c)
            /\ app' = [s \in Service |-> IF readable /\ s \in gone THEN "absent" ELSE app[s]]
            /\ url' = [s \in Service |-> IF readable /\ s \in gone THEN NoUrl ELSE url[s]]
            /\ portfolio' = (portfolio /\ app'["risk"] # "absent")
            /\ images' = IF readable /\ ~keep THEN images \ {c} ELSE images
            /\ role' = IF c = "aws" /\ ~keep /\ manifest[c] # "missing"
                       THEN "absent" ELSE role
            /\ group' = IF c = "azure" /\ readable /\ group # "absent"
                        THEN "deleting" ELSE group
            /\ UNCHANGED <<env, files, known, live, created>>

GroupGone ==
    /\ group = "deleting"
    /\ group' = "absent"
    /\ app' = [app EXCEPT !["anomaly"] = "absent"]
    /\ url' = [url EXCEPT !["anomaly"] = NoUrl]
    /\ UNCHANGED <<env, portfolio, role, images, files, plan, known, live, created, bounds>>

\* What the next call needs is not there: the command exits.
Blocked ==
    /\ plan # <<>>
    /\ LET op == Head(plan)[1]  x == Head(plan)[2] IN
           \/ op \in {"role", "images", "group"} /\ manifest[x] = "broken"
           \/ op = "resources" /\ group \notin {"bare", "ready"}
           \/ op = "apply" /\ (~CanBuild(x) \/ app[x] = "create_failed")
           \/ op = "rebase" /\ app[x] # "running"

Exit ==
    /\ Blocked
    /\ plan' = <<>>
    /\ UNCHANGED <<cloud, files, known, live, created, bounds>>

Stop ==
    /\ plan # <<>> /\ stops < MaxStops
    /\ stops' = stops + 1
    /\ plan' = <<>>
    /\ UNCHANGED <<cloud, files, known, live, created, commands, teardowns>>

\* Manifests are written in place: stopped in the middle, one is left empty,
\* which later counts as missing, or cut off, which later raises.
StopInSave ==
    /\ plan # <<>> /\ stops < MaxStops
    /\ stops' = stops + 1
    /\ plan' = <<>>
    /\ LET op == Head(plan)[1]  x == Head(plan)[2]
           c  == IF op = "save" THEN CloudOf(x) ELSE x
       IN  /\ op \in {"save", "keep", "replace"}
           /\ \E left \in {"empty", "broken"} : manifest' = [manifest EXCEPT ![c] = left]
           /\ recorded' = [s \in Service |-> IF s \in ServicesOf(c) THEN NoUrl ELSE recorded[s]]
    /\ UNCHANGED <<cloud, known, live, created, commands, teardowns>>

DeployStep(s) == Create(s) \/ Update(s) \/ Rebase(s) \/ SaveDeployed(s)

Progress == \/ EnsureRole \/ AttachPolicy \/ EnsureImages
            \/ EnsureGroup \/ EnsureResources
            \/ \E c \in Cloud : SaveProvisioned(c) \/ Delete(c)
            \/ \E s \in Service : DeployStep(s)
            \/ LinkRisk \/ Finish \/ Exit

Next == BeginGoLive \/ BeginCommand \/ BeginTeardown
            \/ Progress \/ GroupGone \/ Stop \/ StopInSave

Spec == Init /\ [][Next]_vars

\* A command runs on, Azure ends what it began, and the operator runs go-live
\* again until it has completed.
FairSpec == Spec /\ WF_vars(Progress) /\ WF_vars(GroupGone) /\ WF_vars(BeginGoLive)

-----------------------------------------------------------------------------
(* What must hold.                                                         *)

\* However many commands stopped, wherever, and whatever was torn down in
\* between: when a bootstrap completes, every service runs and knows its own
\* address and the current address of each peer it calls.
Wired ==
    live # "no" => \A s \in Service :
        /\ app[s] = "running"
        /\ env[s][s] = url[s]
        /\ \A r \in Refs(s) : env[s][r] = url[r]

\* After a completed bootstrap the manifests name what really runs, also what
\* an earlier command created and did not live to record: a teardown finds it.
AllRecorded ==
    live # "no" => \A s \in Service : /\ manifest[CloudOf(s)] = "saved"
                                      /\ recorded[s] = url[s]

\* If the status says the portfolio was seeded, the revision that runs has it:
\* no later step of bootstrap starts a new one.
SeededIsThere == live = "seeded" => portfolio

\* An AWS address is recorded only once the service itself was given it: what
\* deploy-aws-ingestion and the others take from the manifest is an address
\* under which that service registers.
AwsRecordedWhenConfigured ==
    \A s \in AwsService :
        app[s] # "absent" /\ recorded[s] = url[s] => env[s][s] = url[s]

\* What go-live does not repair: a manifest that does not parse, a service that
\* failed to start and is found by its name ever after, a role found without
\* its policy.
Stuck == \/ \E c \in Cloud : manifest[c] = "broken"
         \/ \E s \in Service : app[s] = "create_failed"
         \/ role = "bare"

\* go-live can be stopped anywhere: run again until it completes, it does,
\* unless one of the three has happened.
GoLiveCompletes == []<>(live # "no" \/ Stuck)

\* The usage text of teardown_cloud.sh: it deletes the App Runner services for
\* registry and ingestion.
TeardownDeletesServices ==
    [][Delete("aws") => \A s \in AwsService : app'[s] = "absent"]_vars

=============================================================================
