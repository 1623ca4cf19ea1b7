---------------------------- MODULE RollingDeploy ----------------------------
(***************************************************************************)
(* The rolling deployment of one service, scripts/deploy-rolling.sh and    *)
(* scripts/rollback-rolling.sh: Docker containers and image tags, the      *)
(* servers nginx has loaded (fazle-api) or Docker's DNS alias (the other   *)
(* services), and the files under /var/lib/rolling-deploy.                 *)
(*                                                                         *)
(* The scripts run one command after the other under `set -euo pipefail`:  *)
(* a command that fails, or a kill, ends the script where it is, and what  *)
(* it did so far stays.  One script runs at a time.                        *)
(***************************************************************************)
EXTENDS Naturals

CONSTANTS
    MaxBuilds,  \* images that are built (a bound)
    MaxFaults,  \* commands that fail and scripts that are killed (a bound)
    NoImage

ASSUME BoundsAssumption == MaxBuilds \in Nat /\ MaxFaults \in Nat
ASSUME NoImageAssumption == NoImage \notin Nat

(* "base" bears the service's own name and is Compose's to begin with; the *)
(* others are -blue, -green, -rolling and -rollback.                       *)
Containers == {"base", "blue", "green", "rolling", "rollback"}
Images == 0..MaxBuilds

VARIABLES
    method,    \* DEPLOY_METHOD, which get_config gives the service
    state,     \* each container: absent, up, healthy or stopped
    image,     \* the image each container was started from
    loaded,    \* nginx: the containers whose ports are in the upstream it loaded
    slot,      \* the .slot file
    latest,    \* the tag rolling-latest
    previous,  \* the tag rolling-previous
    saved,     \* the .rollback-image file
    job,       \* the script that runs
    built, faults,
    current, former, straight
        \* for the properties: the image last switched to, the one before it,
        \* and whether nothing but completed deploys has happened

docker == <<state, image>>
tags == <<latest, previous, saved>>
history == <<current, former, straight>>
vars == <<method, docker, loaded, slot, tags, job, built, faults, history>>

Idle == [op |-> "none", pc |-> "idle", old |-> "base", new |-> "base", image |-> 0]
Running(c) == state[c] \in {"up", "healthy"}
Served ==
    IF method = "nginx" THEN \E c \in loaded : state[c] = "healthy"
    ELSE \E c \in Containers : state[c] = "healthy"

Init ==
    /\ method \in {"nginx", "dns"}
    /\ state = [c \in Containers |-> IF c = "base" THEN "healthy" ELSE "absent"]
    /\ image = [c \in Containers |-> 0]
    /\ loaded = {"base"} /\ slot = "none"
    /\ latest = NoImage /\ previous = NoImage /\ saved = NoImage
    /\ job = Idle /\ built = 0 /\ faults = 0
    /\ current = 0 /\ former = NoImage /\ straight = TRUE

At(pc) == job.pc = pc
Goto(pc) == job' = [job EXCEPT !.pc = pc]

(* The script exits and the service is left as the script made it.         *)
GiveUp ==
    /\ job' = Idle
    /\ straight' = FALSE
    /\ UNCHANGED <<current, former>>

(* The switch is complete.                                                 *)
Complete ==
    /\ job' = Idle
    /\ current' = job.image /\ former' = current
    /\ straight' = (straight /\ job.op = "deploy")

-----------------------------------------------------------------------------
(* The pair of containers a script works on                                *)

OldContainer == IF method = "dns" \/ slot = "none" THEN "base" ELSE slot

(* Mistake: the slot is taken for the next one.                            *)
NewContainerOfSlot(op) ==
    CASE method = "dns" -> IF op = "deploy" THEN "rolling" ELSE "rollback"
      [] method = "nginx" -> IF slot = "green" THEN "green" ELSE "blue"

NewContainer(op) ==
    CASE method = "dns" -> IF op = "deploy" THEN "rolling" ELSE "rollback"
      [] method = "nginx" -> IF slot = "blue" THEN "green" ELSE "blue"

Begin(op, pc, img) ==
    job' = [op |-> op, pc |-> pc, old |-> OldContainer, new |-> NewContainer(op),
            image |-> img]

(* save_rollback_info records what runs, if it does.                       *)
Deploy ==
    /\ job = Idle
    /\ Begin("deploy", "tag", 0)
    /\ saved' = IF Running(OldContainer) THEN image[OldContainer] ELSE saved
    /\ UNCHANGED <<method, docker, loaded, slot, latest, previous, built, faults, history>>

(* Mistake: the tag of the last build is taken for the last deploy's.      *)
RollbackToLatest ==
    /\ job = Idle /\ saved # NoImage
    /\ method = "nginx" => slot # "none"
    /\ Begin("rollback", "env", IF latest # NoImage THEN latest ELSE saved)
    /\ UNCHANGED <<method, docker, loaded, slot, tags, built, faults, history>>

(* check_rollback_available: the tag if there is one, the recorded image   *)
(* otherwise.  Without a record, or a slot, the script exits.              *)
Rollback ==
    /\ job = Idle /\ saved # NoImage
    /\ method = "nginx" => slot # "none"
    /\ Begin("rollback", "env", IF previous # NoImage THEN previous ELSE saved)
    /\ UNCHANGED <<method, docker, loaded, slot, tags, built, faults, history>>

-----------------------------------------------------------------------------
(* The steps of a deploy, which a rollback shares from "env" on            *)

(* The tag moves before the build, which may fail.                         *)
Tag ==
    /\ At("tag") /\ Goto("build")
    /\ previous' = IF latest # NoImage THEN latest ELSE previous
    /\ UNCHANGED <<method, docker, loaded, slot, latest, saved, built, faults, history>>

Build ==
    /\ At("build") /\ built < MaxBuilds
    /\ built' = built + 1
    /\ latest' = built + 1
    /\ job' = [job EXCEPT !.pc = "env", !.image = built + 1]
    /\ UNCHANGED <<method, docker, loaded, slot, previous, saved, faults, history>>

(* Mistake: a stopped container will do for every script.                  *)
HasEnvOfAnything == state[job.old] # "absent"

(* The environment is copied from the old container, which must run; only  *)
(* rollback_nginx inspects it without asking.                              *)
HasEnv ==
    IF job.op = "rollback" /\ method = "nginx" THEN state[job.old] # "absent"
    ELSE Running(job.old)

Env ==
    /\ At("env")
    /\ IF HasEnv THEN Goto("start") /\ UNCHANGED history ELSE GiveUp
    /\ UNCHANGED <<method, docker, loaded, slot, tags, built, faults>>

(* docker rm -f of whatever bears the new container's name                 *)
Start ==
    /\ At("start") /\ Goto("run")
    /\ state' = [state EXCEPT ![job.new] = "absent"]
    /\ UNCHANGED <<method, image, loaded, slot, tags, built, faults, history>>

Run ==
    /\ At("run") /\ Goto("health")
    /\ state' = [state EXCEPT ![job.new] = "up"]
    /\ image' = [image EXCEPT ![job.new] = job.image]
    /\ UNCHANGED <<method, loaded, slot, tags, built, faults, history>>

(* Mistake: the switch does not wait for the health check.                 *)
HealthyOnceUp ==
    /\ At("health") /\ Running(job.new)
    /\ Goto(IF method = "nginx" THEN "join" ELSE "stop")
    /\ UNCHANGED <<method, docker, loaded, slot, tags, built, faults, history>>

Healthy ==
    /\ At("health") /\ state[job.new] = "healthy"
    /\ Goto(IF method = "nginx" THEN "join" ELSE "stop")
    /\ UNCHANGED <<method, docker, loaded, slot, tags, built, faults, history>>

(* Thirty attempts are over.                                               *)
Unhealthy ==
    /\ At("health")
    /\ state' = [state EXCEPT ![job.new] = "absent"]
    /\ GiveUp
    /\ UNCHANGED <<method, image, loaded, slot, tags, built, faults>>

(* Both servers while the old one drains; the very first deploy leaves the *)
(* Compose container out at once.                                          *)
Join ==
    /\ At("join") /\ Goto("stop")
    /\ loaded' = IF slot = "none" THEN {job.new} ELSE {job.old, job.new}
    /\ UNCHANGED <<method, docker, slot, tags, built, faults, history>>

(* The old container leaves its state, unless the command fails, which     *)
(* the script ignores.                                                     *)
OldBecomes(from, to) ==
    \/ /\ state' = [state EXCEPT ![job.old] = IF @ \in from THEN to ELSE @]
       /\ UNCHANGED faults
    \/ /\ faults < MaxFaults /\ faults' = faults + 1
       /\ UNCHANGED state

Stop ==
    /\ At("stop") /\ Goto("rm")
    /\ OldBecomes({"up", "healthy"}, "stopped")
    /\ UNCHANGED <<method, image, loaded, slot, tags, built, history>>

Rm ==
    /\ At("rm") /\ Goto(IF method = "nginx" THEN "leave" ELSE "rename")
    /\ OldBecomes({"stopped"}, "absent")
    /\ UNCHANGED <<method, image, loaded, slot, tags, built, history>>

Leave ==
    /\ At("leave") /\ Goto("slot")
    /\ loaded' = {job.new}
    /\ UNCHANGED <<method, docker, slot, tags, built, faults, history>>

SetSlot ==
    /\ At("slot")
    /\ slot' = job.new
    /\ Complete
    /\ UNCHANGED <<method, docker, loaded, tags, built, faults>>

(* docker rename fails while the old name is taken.                        *)
Rename ==
    /\ At("rename")
    /\ IF state[job.old] = "absent"
       THEN /\ state' = [state EXCEPT ![job.old] = state[job.new], ![job.new] = "absent"]
            /\ image' = [image EXCEPT ![job.old] = image[job.new]]
            /\ Complete
       ELSE UNCHANGED docker /\ GiveUp
    /\ UNCHANGED <<method, loaded, slot, tags, built, faults>>

-----------------------------------------------------------------------------
(* A container that was started passes its health check.                   *)
Warm(c) ==
    /\ state[c] = "up"
    /\ state' = [state EXCEPT ![c] = "healthy"]
    /\ UNCHANGED <<method, image, loaded, slot, tags, job, built, faults, history>>

(* A command fails, a failed build among them, or the script is killed.    *)
Abort ==
    /\ job # Idle /\ faults < MaxFaults
    /\ faults' = faults + 1
    /\ GiveUp
    /\ UNCHANGED <<method, docker, loaded, slot, tags, built>>

Step ==
    \/ Tag \/ Build \/ Env \/ Start \/ Run \/ Healthy \/ Unhealthy
    \/ Join \/ Stop \/ Rm \/ Leave \/ SetSlot \/ Rename

Next ==
    \/ Deploy \/ Rollback \/ Step \/ Abort
    \/ \E c \in Containers : Warm(c)

Spec == Init /\ [][Next]_vars

-----------------------------------------------------------------------------
(* Properties                                                              *)

Pcs == {"idle", "tag", "build", "env", "start", "run", "health", "join",
        "stop", "rm", "leave", "slot", "rename"}

(* Every variable keeps its type; a script never works on one container as *)
(* the old and the new, and nginx's scripts never see the others' names.   *)
TypeOK ==
    /\ method \in {"nginx", "dns"}
    /\ state \in [Containers -> {"absent", "up", "healthy", "stopped"}]
    /\ image \in [Containers -> Images]
    /\ loaded \in SUBSET {"base", "blue", "green"}
    /\ slot \in {"none", "blue", "green"}
    /\ {latest, previous, saved, former} \subseteq Images \cup {NoImage}
    /\ job \in [op : {"none", "deploy", "rollback"}, pc : Pcs,
                old : Containers, new : Containers, image : Images]
    /\ job # Idle => job.old # job.new
    /\ built \in Images /\ faults \in 0..MaxFaults
    /\ current \in Images /\ straight \in BOOLEAN

(* "Zero-Downtime Rolling Deployment": at every point of a deploy or a     *)
(* rollback somebody healthy is reachable, whatever health checks fail.    *)
(* With Docker's DNS that survives a script that ends anywhere and every   *)
(* script run after it; with nginx it takes that no command failed.        *)
ZeroDowntime == Served \/ (method = "nginx" /\ faults > 0)

(* After one failure, wherever it was, a deploy that starts from a         *)
(* recorded slot does not take the last healthy server away.  What can is  *)
(* the very first deploy repeated after it was cut off, which removes the  *)
(* container nginx was already switched to, and a rollback after a deploy  *)
(* that was cut off between stopping and removing the old container.       *)
DowntimeCauses ==
    [][Served /\ ~Served' /\ faults = 1 => slot = "none" \/ job.op = "rollback"]_vars

RolledBack ==
    /\ job.op = "rollback" /\ job' = Idle /\ faults' = faults
    /\ At("slot") \/ (At("rename") /\ state[job.old] = "absent")

(* A rollback that follows nothing but completed deploys switches to the   *)
(* image that served before the last of them.                              *)
RestoresAfterDeploys == [][RolledBack /\ straight => current' = former]_vars
=============================================================================
