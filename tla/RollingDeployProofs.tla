------------------------- MODULE RollingDeployProofs -------------------------
(***************************************************************************)
(* What is proved of RollingDeploy for any number of images and failures:  *)
(* its types, that somebody healthy is reachable throughout, what can end  *)
(* that after one failure, and that a rollback restores what served before *)
(* the last deploy.                                                        *)
(*                                                                         *)
(* The invariant says who serves at every line of the scripts: the old     *)
(* container until the new one has passed its health check, the new one    *)
(* afterwards.  With Docker's DNS that holds after any failure, because    *)
(* the scripts touch nothing unless the old container runs; with nginx it  *)
(* is claimed only while no command has failed.                            *)
(***************************************************************************)
EXTENDS RollingDeploy, TLAPS

(* The scripts and the method that runs them                               *)
JobOK ==
    /\ At("idle") => job = Idle
    /\ job # Idle => job.op # "none" /\ job.old = OldContainer /\ job.new = NewContainer(job.op)
    /\ job.pc \in {"join", "leave", "slot"} => method = "nginx"
    /\ At("rename") => method = "dns"

NginxServes ==
    method = "nginx" /\ faults = 0 =>
        /\ job.pc \in {"join", "stop", "rm", "leave", "slot"} => state[job.new] = "healthy"
        /\ job.pc \in {"stop", "rm", "leave", "slot"} => job.new \in loaded
        /\ job.pc \notin {"stop", "rm", "leave", "slot"} =>
              state[OldContainer] = "healthy" /\ OldContainer \in loaded

DnsServes ==
    method = "dns" =>
        /\ state["base"] # "up"
        /\ \E c \in Containers : state[c] = "healthy"
        /\ job.pc \in {"start", "run", "health"} => state["base"] = "healthy"
        /\ job.pc \in {"stop", "rm", "rename"} => state[job.new] = "healthy"

(* What a rollback restores, and what that is before anything but          *)
(* completed deploys has happened                                          *)
Target == IF previous # NoImage THEN previous ELSE saved

Untouched ==
    /\ latest = NoImage /\ previous = NoImage
    /\ current = 0 /\ slot = "none" /\ image["base"] = 0 /\ state["base"] = "healthy"

Straight ==
    straight =>
        /\ At("idle") => \/ Untouched /\ saved = NoImage
                         \/ latest = current /\ Target = former
        /\ job.op = "deploy" =>
            /\ At("tag") => latest = current \/ (Untouched /\ saved = current)
            /\ ~At("tag") => Target = current
            /\ job.pc \notin {"tag", "build"} => latest = job.image
        /\ job.op = "rollback" => job.image = former /\ job.pc \notin {"tag", "build"}

DeployInv == TypeOK /\ JobOK /\ NginxServes /\ DnsServes /\ Straight

(* The type invariant in three                                             *)
Servers ==
    /\ method \in {"nginx", "dns"} /\ slot \in {"none", "blue", "green"}
    /\ state \in [Containers -> {"absent", "up", "healthy", "stopped"}]
    /\ image \in [Containers -> Images]
    /\ loaded \subseteq {"base", "blue", "green"}

Marks ==
    /\ latest \in Images \cup {NoImage} /\ previous \in Images \cup {NoImage}
    /\ saved \in Images \cup {NoImage} /\ former \in Images \cup {NoImage}
    /\ built \in Images /\ faults \in 0..MaxFaults
    /\ current \in Images /\ straight \in BOOLEAN

Jobs == [op : {"none", "deploy", "rollback"}, pc : Pcs,
         old : Containers, new : Containers, image : Images]
Script == job \in Jobs /\ (job # Idle => job.old # job.new)

LEMMA TypeParts == TypeOK <=> Servers /\ Marks /\ Script
BY DEF TypeOK, Servers, Marks, Script, Jobs

-----------------------------------------------------------------------------
(* Names                                                                   *)

LEMMA Pair ==
    ASSUME TypeOK, NEW op \in {"deploy", "rollback"}
    PROVE  /\ OldContainer \in Containers /\ NewContainer(op) \in Containers
           /\ OldContainer # NewContainer(op)
           /\ method = "nginx" => {OldContainer, NewContainer(op)} \subseteq {"base", "blue", "green"}
           /\ method = "nginx" => NewContainer(op) \in {"blue", "green"}
           /\ method = "dns" => OldContainer = "base" /\ NewContainer(op) # "base"
BY DEF TypeOK, OldContainer, NewContainer, Containers

LEMMA ImagesType == Images \subseteq Nat /\ NoImage \notin Images /\ 0 \in Images
BY BoundsAssumption, NoImageAssumption DEF Images

LEMMA NoScript ==
    /\ Idle.pc = "idle" /\ Idle.op = "none"
    /\ Idle \in Jobs
BY ImagesType DEF Idle, Jobs, Pcs, Containers

(* A script at work: its containers, whichever line it is at               *)
LEMMA AtWork ==
    ASSUME TypeOK, JobOK, job # Idle
    PROVE  /\ job.op \in {"deploy", "rollback"}
           /\ job.old = OldContainer /\ job.new = NewContainer(job.op)
           /\ job.old \in Containers /\ job.new \in Containers /\ job.old # job.new
           /\ method = "nginx" => {job.old, job.new} \subseteq {"base", "blue", "green"}
           /\ method = "nginx" => job.new \in {"blue", "green"}
           /\ method = "dns" => job.old = "base" /\ job.new # "base"
<1>1. job.op \in {"deploy", "rollback"}
      BY DEF TypeOK, JobOK
<1>. QED  BY <1>1, Pair DEF JobOK

-----------------------------------------------------------------------------
(* Containers, images and what nginx has loaded keep their types.          *)
LEMMA ServersStep ==
    ASSUME DeployInv, [Next]_vars
    PROVE  Servers'
<1>. USE AtWork, Pair, NoScript
     DEF JobOK, Servers, Script, Jobs, Containers, docker, tags, history,
             At, Goto, GiveUp, Complete
<1>0. TypeOK /\ JobOK /\ Servers /\ Marks /\ Script
      BY TypeParts DEF DeployInv
<1>1. CASE UNCHANGED vars
      BY <1>0, <1>1 DEF vars
<1>2. CASE Deploy
      BY <1>0, <1>2 DEF Deploy, Begin, Running
<1>3. CASE Rollback
      BY <1>0, <1>3 DEF Rollback, Begin
<1>4. CASE Tag
      BY <1>0, <1>4 DEF Tag
<1>5. CASE Build
      BY <1>0, <1>5 DEF Build
<1>6. CASE Env
      BY <1>0, <1>6 DEF Env, HasEnv, Running
<1>7. CASE Start
      BY <1>0, <1>7 DEF Start
<1>8. CASE Run
      BY <1>0, <1>8 DEF Run
<1>9. CASE Healthy
      BY <1>0, <1>9 DEF Healthy
<1>10. CASE Unhealthy
      BY <1>0, <1>10 DEF Unhealthy
<1>11. CASE Join
      BY <1>0, <1>11 DEF Join
<1>12. CASE Stop
      BY <1>0, <1>12 DEF Stop, OldBecomes
<1>13. CASE Rm
      BY <1>0, <1>13 DEF Rm, OldBecomes
<1>14. CASE Leave
      BY <1>0, <1>14 DEF Leave
<1>15. CASE SetSlot
      BY <1>0, <1>15 DEF SetSlot
<1>16. CASE Rename
      BY <1>0, <1>16 DEF Rename
<1>17. CASE Abort
      BY <1>0, <1>17 DEF Abort
<1>18. CASE \E c \in Containers : Warm(c)
      BY <1>0, <1>18 DEF Warm
<1>. QED
     BY <1>1, <1>2, <1>3, <1>4, <1>5, <1>6, <1>7, <1>8, <1>9, <1>10, <1>11, <1>12, <1>13,
        <1>14, <1>15, <1>16, <1>17, <1>18 DEF Next, Step

(* So do the tags, the record and the counters.                            *)
LEMMA MarksStep ==
    ASSUME DeployInv, [Next]_vars
    PROVE  Marks'
<1>. USE ImagesType
     DEF Marks, Script, Jobs, Servers, docker, tags, history,
             At, Goto, GiveUp, Complete
<1>0. TypeOK /\ JobOK /\ Servers /\ Marks /\ Script
      BY TypeParts DEF DeployInv
<1>1. CASE UNCHANGED vars
      BY <1>0, <1>1 DEF vars
<1>2. CASE Deploy
  <2>1. OldContainer \in Containers
        BY <1>0, Pair
  <2>. QED  BY <1>0, <1>2, <2>1 DEF Deploy
<1>3. CASE Rollback
      BY <1>0, <1>3 DEF Rollback, Begin
<1>4. CASE Tag
      BY <1>0, <1>4 DEF Tag
<1>5. CASE Build
  <2>1. built + 1 \in Images
        BY <1>0, <1>5, BoundsAssumption DEF Build, Images
  <2>. QED  BY <1>0, <1>5, <2>1 DEF Build
<1>6. CASE Env
      BY <1>0, <1>6 DEF Env, HasEnv, Running
<1>7. CASE Start
      BY <1>0, <1>7 DEF Start
<1>8. CASE Run
      BY <1>0, <1>8 DEF Run
<1>9. CASE Healthy
      BY <1>0, <1>9 DEF Healthy
<1>10. CASE Unhealthy
      BY <1>0, <1>10 DEF Unhealthy
<1>11. CASE Join
      BY <1>0, <1>11 DEF Join
<1>12. CASE Stop
  <2>1. faults < MaxFaults => faults + 1 \in 0..MaxFaults
        BY <1>0, BoundsAssumption
  <2>. QED  BY <1>0, <1>12, <2>1 DEF Stop, OldBecomes
<1>13. CASE Rm
  <2>1. faults < MaxFaults => faults + 1 \in 0..MaxFaults
        BY <1>0, BoundsAssumption
  <2>. QED  BY <1>0, <1>13, <2>1 DEF Rm, OldBecomes
<1>14. CASE Leave
      BY <1>0, <1>14 DEF Leave
<1>15. CASE SetSlot
      BY <1>0, <1>15 DEF SetSlot
<1>16. CASE Rename
      BY <1>0, <1>16 DEF Rename
<1>17. CASE Abort
  <2>1. faults + 1 \in 0..MaxFaults
        BY <1>0, <1>17, BoundsAssumption DEF Abort
  <2>. QED  BY <1>0, <1>17, <2>1 DEF Abort
<1>18. CASE \E c \in Containers : Warm(c)
      BY <1>0, <1>18 DEF Warm
<1>. QED
     BY <1>1, <1>2, <1>3, <1>4, <1>5, <1>6, <1>7, <1>8, <1>9, <1>10, <1>11, <1>12, <1>13,
        <1>14, <1>15, <1>16, <1>17, <1>18 DEF Next, Step

(* A script never takes one container for the old and the new.             *)
LEMMA ScriptStep ==
    ASSUME DeployInv, [Next]_vars
    PROVE  Script'
<1>. USE AtWork, Pair, NoScript
     DEF Script, Jobs, Pcs, Marks, docker, tags, history,
             At, Goto, GiveUp, Complete
<1>0. TypeOK /\ JobOK /\ Servers /\ Marks /\ Script
      BY TypeParts DEF DeployInv
<1>1. CASE UNCHANGED vars
      BY <1>0, <1>1 DEF vars
<1>2. CASE Deploy
  <2>1. OldContainer # NewContainer("deploy") /\ {OldContainer, NewContainer("deploy")} \subseteq Containers
        BY <1>0
  <2>. QED  BY <1>2, <2>1, ImagesType DEF Deploy, Begin
<1>3. CASE Rollback
      BY <1>0, <1>3 DEF Rollback, Begin
<1>4. CASE Tag
      BY <1>0, <1>4 DEF Tag
<1>5. CASE Build
  <2>1. built + 1 \in Images
        BY <1>0, <1>5, BoundsAssumption DEF Build, Images
  <2>2. job # Idle
        BY <1>5 DEF Build
  <2>. QED  BY <1>0, <1>5, <2>1, <2>2 DEF Build
<1>6. CASE Env
      BY <1>0, <1>6 DEF Env, HasEnv, Running
<1>7. CASE Start
      BY <1>0, <1>7 DEF Start
<1>8. CASE Run
      BY <1>0, <1>8 DEF Run
<1>9. CASE Healthy
      BY <1>0, <1>9 DEF Healthy
<1>10. CASE Unhealthy
      BY <1>0, <1>10 DEF Unhealthy
<1>11. CASE Join
      BY <1>0, <1>11 DEF Join
<1>12. CASE Stop
      BY <1>0, <1>12 DEF Stop, OldBecomes
<1>13. CASE Rm
      BY <1>0, <1>13 DEF Rm, OldBecomes
<1>14. CASE Leave
      BY <1>0, <1>14 DEF Leave
<1>15. CASE SetSlot
      BY <1>0, <1>15 DEF SetSlot
<1>16. CASE Rename
      BY <1>0, <1>16 DEF Rename
<1>17. CASE Abort
      BY <1>0, <1>17 DEF Abort
<1>18. CASE \E c \in Containers : Warm(c)
      BY <1>0, <1>18 DEF Warm
<1>. QED
     BY <1>1, <1>2, <1>3, <1>4, <1>5, <1>6, <1>7, <1>8, <1>9, <1>10, <1>11, <1>12, <1>13,
        <1>14, <1>15, <1>16, <1>17, <1>18 DEF Next, Step

(* The lines of a script are those of its method.                          *)
LEMMA JobStep ==
    ASSUME DeployInv, [Next]_vars
    PROVE  JobOK'
<1>. USE AtWork, Pair
     DEF DeployInv, TypeOK, JobOK, Idle, OldContainer, NewContainer, docker, tags, history,
             At, Goto, GiveUp, Complete
<1>1. CASE UNCHANGED vars
      BY <1>1 DEF vars
<1>2. CASE Deploy
      BY <1>2 DEF Deploy, Begin, Running
<1>3. CASE Rollback
      BY <1>3 DEF Rollback, Begin
<1>4. CASE Tag
      BY <1>4 DEF Tag
<1>5. CASE Build
      BY <1>5 DEF Build
<1>6. CASE Env
      BY <1>6 DEF Env, HasEnv, Running
<1>7. CASE Start
      BY <1>7 DEF Start
<1>8. CASE Run
      BY <1>8 DEF Run
<1>9. CASE Healthy
      BY <1>9 DEF Healthy
<1>10. CASE Unhealthy
      BY <1>10 DEF Unhealthy
<1>11. CASE Join
      BY <1>11 DEF Join
<1>12. CASE Stop
      BY <1>12 DEF Stop, OldBecomes
<1>13. CASE Rm
      BY <1>13 DEF Rm, OldBecomes
<1>14. CASE Leave
      BY <1>14 DEF Leave
<1>15. CASE SetSlot
      BY <1>15 DEF SetSlot
<1>16. CASE Rename
      BY <1>16 DEF Rename
<1>17. CASE Abort
      BY <1>17 DEF Abort
<1>18. CASE \E c \in Containers : Warm(c)
      BY <1>18 DEF Warm
<1>. QED
     BY <1>1, <1>2, <1>3, <1>4, <1>5, <1>6, <1>7, <1>8, <1>9, <1>10, <1>11, <1>12, <1>13,
        <1>14, <1>15, <1>16, <1>17, <1>18 DEF Next, Step

(* While no command fails, the container nginx relies on is healthy.       *)
LEMMA NginxStep ==
    ASSUME DeployInv, [Next]_vars
    PROVE  NginxServes'
<1>. USE AtWork, Pair
     DEF DeployInv, TypeOK, JobOK, NginxServes, Idle, Containers, OldContainer, docker,
             tags, history, At, Goto, GiveUp, Complete
<1>1. CASE UNCHANGED vars
      BY <1>1 DEF vars
<1>2. CASE Deploy
      BY <1>2 DEF Deploy, Begin, Running
<1>3. CASE Rollback
      BY <1>3 DEF Rollback, Begin
<1>4. CASE Tag
      BY <1>4 DEF Tag
<1>5. CASE Build
      BY <1>5 DEF Build
<1>6. CASE Env
      BY <1>6 DEF Env, HasEnv, Running
<1>7. CASE Start
      BY <1>7 DEF Start
<1>8. CASE Run
      BY <1>8 DEF Run
<1>9. CASE Healthy
      BY <1>9 DEF Healthy
<1>10. CASE Unhealthy
      BY <1>10 DEF Unhealthy
<1>11. CASE Join
      BY <1>11 DEF Join
<1>12. CASE Stop
      BY <1>12 DEF Stop, OldBecomes
<1>13. CASE Rm
      BY <1>13 DEF Rm, OldBecomes
<1>14. CASE Leave
      BY <1>14 DEF Leave
<1>15. CASE SetSlot
      BY <1>15 DEF SetSlot
<1>16. CASE Rename
      BY <1>16 DEF Rename
<1>17. CASE Abort
      BY <1>17 DEF Abort
<1>18. CASE \E c \in Containers : Warm(c)
      BY <1>18 DEF Warm
<1>. QED
     BY <1>1, <1>2, <1>3, <1>4, <1>5, <1>6, <1>7, <1>8, <1>9, <1>10, <1>11, <1>12, <1>13,
        <1>14, <1>15, <1>16, <1>17, <1>18 DEF Next, Step

(* Whatever fails, one of the containers behind the alias is healthy.      *)
LEMMA DnsStep ==
    ASSUME DeployInv, [Next]_vars
    PROVE  DnsServes'
<1>. USE AtWork, Pair
     DEF DeployInv, TypeOK, JobOK, DnsServes, Idle, Containers, docker, tags, history,
             At, Goto, GiveUp, Complete
<1>1. CASE UNCHANGED vars
      BY <1>1 DEF vars
<1>2. CASE Deploy
      BY <1>2 DEF Deploy, Begin, Running
<1>3. CASE Rollback
      BY <1>3 DEF Rollback, Begin
<1>4. CASE Tag
      BY <1>4 DEF Tag
<1>5. CASE Build
      BY <1>5 DEF Build
<1>6. CASE Env
      BY <1>6 DEF Env, HasEnv, Running
<1>7. CASE Start
      BY <1>7 DEF Start
<1>8. CASE Run
      BY <1>8 DEF Run
<1>9. CASE Healthy
      BY <1>9 DEF Healthy
<1>10. CASE Unhealthy
      BY <1>10 DEF Unhealthy
<1>11. CASE Join
      BY <1>11 DEF Join
<1>12. CASE Stop
      BY <1>12 DEF Stop, OldBecomes
<1>13. CASE Rm
      BY <1>13 DEF Rm, OldBecomes
<1>14. CASE Leave
      BY <1>14 DEF Leave
<1>15. CASE SetSlot
      BY <1>15 DEF SetSlot
<1>16. CASE Rename
      BY <1>16 DEF Rename
<1>17. CASE Abort
      BY <1>17 DEF Abort
<1>18. CASE \E c \in Containers : Warm(c)
      BY <1>18 DEF Warm
<1>. QED
     BY <1>1, <1>2, <1>3, <1>4, <1>5, <1>6, <1>7, <1>8, <1>9, <1>10, <1>11, <1>12, <1>13,
        <1>14, <1>15, <1>16, <1>17, <1>18 DEF Next, Step

(* The tag, or the record, keeps pointing at what served before.           *)
LEMMA StraightStep ==
    ASSUME DeployInv, [Next]_vars
    PROVE  Straight'
<1>. USE AtWork, Pair, ImagesType
     DEF DeployInv, TypeOK, JobOK, Straight, Target, Untouched, Idle, OldContainer, docker,
             tags, history, At, Goto, GiveUp, Complete
<1>1. CASE UNCHANGED vars
      BY <1>1 DEF vars
<1>2. CASE Deploy
      BY <1>2 DEF Deploy, Begin, Running
<1>3. CASE Rollback
      BY <1>3 DEF Rollback, Begin
<1>4. CASE Tag
      BY <1>4 DEF Tag
<1>5. CASE Build
      BY <1>5 DEF Build
<1>6. CASE Env
      BY <1>6 DEF Env, HasEnv, Running
<1>7. CASE Start
      BY <1>7 DEF Start
<1>8. CASE Run
      BY <1>8 DEF Run
<1>9. CASE Healthy
      BY <1>9 DEF Healthy
<1>10. CASE Unhealthy
      BY <1>10 DEF Unhealthy
<1>11. CASE Join
      BY <1>11 DEF Join
<1>12. CASE Stop
      BY <1>12 DEF Stop, OldBecomes
<1>13. CASE Rm
      BY <1>13 DEF Rm, OldBecomes
<1>14. CASE Leave
      BY <1>14 DEF Leave
<1>15. CASE SetSlot
      BY <1>15 DEF SetSlot
<1>16. CASE Rename
  <2>1. CASE state[job.old] # "absent"
        BY <1>16, <2>1 DEF Rename
  <2>2. CASE state[job.old] = "absent"
    <3>1. /\ straight /\ job.op = "deploy" => Target = current /\ latest = job.image
          /\ job' = Idle /\ straight' = (straight /\ job.op = "deploy")
          /\ current' = job.image /\ former' = current /\ UNCHANGED tags
          BY <1>16, <2>2 DEF Rename
    <3>. QED  BY <1>16, <2>2, <3>1 DEF Rename
  <2>. QED  BY <2>1, <2>2
<1>17. CASE Abort
      BY <1>17 DEF Abort
<1>18. CASE \E c \in Containers : Warm(c)
      BY <1>18 DEF Warm
<1>. QED
     BY <1>1, <1>2, <1>3, <1>4, <1>5, <1>6, <1>7, <1>8, <1>9, <1>10, <1>11, <1>12, <1>13,
        <1>14, <1>15, <1>16, <1>17, <1>18 DEF Next, Step

-----------------------------------------------------------------------------
LEMMA DeployInit == Init => DeployInv
<1>. SUFFICES ASSUME Init PROVE DeployInv
     OBVIOUS
<1>1. Servers /\ Marks
      BY ImagesType, BoundsAssumption DEF Init, Servers, Marks, Containers
<1>2. Script
      BY NoScript DEF Init, Script
<1>3. JobOK /\ NginxServes /\ DnsServes /\ Straight
      BY DEF Init, Idle, At, Containers, JobOK, NginxServes, DnsServes, Straight, Untouched,
             OldContainer
<1>. QED  BY <1>1, <1>2, <1>3, TypeParts DEF DeployInv

LEMMA DeployInvariant == Spec => []DeployInv
<1>1. ASSUME DeployInv, [Next]_vars PROVE DeployInv'
  <2>1. Servers' /\ Marks' /\ Script'
        BY <1>1, ServersStep, MarksStep, ScriptStep
  <2>2. TypeOK'
        BY <2>1 DEF TypeOK, Servers, Marks, Script, Jobs
  <2>. QED  BY <1>1, <2>2, JobStep, NginxStep, DnsStep, StraightStep DEF DeployInv
<1>. QED  BY <1>1, DeployInit, PTL DEF Spec

(* Every value of a deployment has its type, for any number of builds and  *)
(* failures, and a script's two containers are never the same one.         *)
THEOREM DeployTypeCorrect == Spec => []TypeOK
<1>1. DeployInv => TypeOK
      BY DEF DeployInv
<1>. QED  BY <1>1, DeployInvariant, PTL

(* Somebody healthy is reachable at every line of both scripts: with       *)
(* Docker's DNS whatever fails and however often, with nginx as long as no *)
(* command fails and no script is killed.                                  *)
THEOREM DeployZeroDowntime == Spec => []ZeroDowntime
<1>1. ASSUME DeployInv PROVE ZeroDowntime
  <2>1. CASE method = "dns"
        BY <1>1, <2>1 DEF DeployInv, DnsServes, ZeroDowntime, Served
  <2>2. CASE method = "nginx"
    <3>1. faults > 0 \/ faults = 0
          BY <1>1 DEF DeployInv, TypeOK
    <3>2. faults = 0 => \E c \in loaded : state[c] = "healthy"
          BY <1>1, <2>2 DEF DeployInv, NginxServes
    <3>. QED  BY <2>2, <3>1, <3>2 DEF ZeroDowntime, Served
  <2>. QED  BY <1>1, <2>1, <2>2 DEF DeployInv, TypeOK
<1>. QED  BY <1>1, DeployInvariant, PTL

(* A rollback after nothing but completed deploys switches to what served  *)
(* before the last of them, however many there were.                       *)
THEOREM DeployRestores == Spec => RestoresAfterDeploys
<1>1. ASSUME DeployInv, [Next]_vars
      PROVE  [RolledBack /\ straight => current' = former]_vars
  <2>. SUFFICES ASSUME Next, RolledBack, straight PROVE current' = former
       BY <1>1
  <2>1. job # Idle /\ job.image = former
        BY <1>1 DEF DeployInv, RolledBack, Straight, Idle
  <2>2. SetSlot \/ (Rename /\ state[job.old] = "absent") => current' = job.image
        BY DEF SetSlot, Rename, Complete
  <2>3. SetSlot \/ Rename
    <3>1. ~Abort
          BY <1>1 DEF RolledBack, Abort, DeployInv, TypeOK
    <3>2. ~Deploy /\ ~Rollback /\ \A c \in Containers : ~Warm(c)
          BY <2>1 DEF Deploy, Rollback, Warm, RolledBack
    <3>. QED  BY <3>1, <3>2
              DEF Next, Step, RolledBack, At, Tag, Build, Env, Start, Run, Healthy, Unhealthy,
                  Join, Stop, Rm, Leave
  <2>4. Rename => state[job.old] = "absent"
        BY DEF RolledBack, Rename, At
  <2>. QED  BY <2>1, <2>2, <2>3, <2>4
<1>. QED  BY <1>1, DeployInvariant, PTL DEF Spec, RestoresAfterDeploys

-----------------------------------------------------------------------------
(* What one failure leaves behind nginx                                    *)

(* Past its health check the new container serves, whatever fails.  Until  *)
(* then a script leaves the container of the slot as it found it: serving, *)
(* or, after a failure, not running at all, and then no deploy gets past   *)
(* its look at the environment.  A container that runs although nginx does *)
(* not know it is left behind by a stop that failed in a script that was   *)
(* cut off before it wrote the slot, which is two failures.                *)
LeftRunning ==
    method = "nginx" =>
        /\ job.pc \in {"join", "stop", "rm", "leave", "slot"} => state[job.new] = "healthy"
        /\ job.pc \in {"stop", "rm", "leave", "slot"} => job.new \in loaded
        /\ slot # "none" /\ faults <= 1 =>
            /\ Running(OldContainer) /\ ~At("slot") =>
                  state[OldContainer] = "healthy" /\ OldContainer \in loaded
            /\ job.op = "deploy" /\ job.pc \in {"start", "run", "health", "join"} =>
                  Running(OldContainer)
            /\ job.pc \in {"rm", "leave", "slot"} /\ faults = 0 => ~Running(OldContainer)

LEMMA LeftRunningStep ==
    ASSUME DeployInv, LeftRunning, [Next]_vars
    PROVE  LeftRunning'
<1>. USE AtWork, Pair
     DEF DeployInv, TypeOK, JobOK, LeftRunning, Running, Idle, Containers, OldContainer,
             docker, tags, history, At, Goto, GiveUp, Complete
<1>1. CASE UNCHANGED vars
      BY <1>1 DEF vars
<1>2. CASE Deploy
      BY <1>2 DEF Deploy, Begin
<1>3. CASE Rollback
      BY <1>3 DEF Rollback, Begin
<1>4. CASE Tag
      BY <1>4 DEF Tag
<1>5. CASE Build
      BY <1>5 DEF Build
<1>6. CASE Env
      BY <1>6 DEF Env, HasEnv
<1>7. CASE Start
      BY <1>7 DEF Start
<1>8. CASE Run
      BY <1>8 DEF Run
<1>9. CASE Healthy
      BY <1>9 DEF Healthy
<1>10. CASE Unhealthy
      BY <1>10 DEF Unhealthy
<1>11. CASE Join
      BY <1>11 DEF Join
<1>12. CASE Stop
      BY <1>12 DEF Stop, OldBecomes
<1>13. CASE Rm
      BY <1>13 DEF Rm, OldBecomes
<1>14. CASE Leave
      BY <1>14 DEF Leave
<1>15. CASE SetSlot
      BY <1>15 DEF SetSlot
<1>16. CASE Rename
      BY <1>16 DEF Rename
<1>17. CASE Abort
      BY <1>17 DEF Abort
<1>18. CASE \E c \in Containers : Warm(c)
      BY <1>18 DEF Warm
<1>. QED
     BY <1>1, <1>2, <1>3, <1>4, <1>5, <1>6, <1>7, <1>8, <1>9, <1>10, <1>11, <1>12, <1>13,
        <1>14, <1>15, <1>16, <1>17, <1>18 DEF Next, Step

LEMMA LeftRunningAlways == Spec => [](DeployInv /\ LeftRunning)
<1>1. Init => LeftRunning
      BY DEF Init, Idle, LeftRunning
<1>. QED  BY <1>1, DeployInvariant, LeftRunningStep, PTL DEF Spec

(* After one failure, wherever it was, only the first deploy of a service  *)
(* and a rollback can take the last healthy server away: a deploy that     *)
(* finds a slot recorded works beside a container that serves, or stops    *)
(* before it touches one.                                                  *)
THEOREM DeployDowntimeCauses == Spec => DowntimeCauses
<1>1. ASSUME DeployInv, DeployInv', LeftRunning, LeftRunning', [Next]_vars
      PROVE  [Served /\ ~Served' /\ faults = 1 => slot = "none" \/ job.op = "rollback"]_vars
  <2>. SUFFICES ASSUME Next, Served, ~Served', faults = 1, slot # "none",
                       job.op # "rollback"
                PROVE  FALSE
       BY <1>1
  <2>1. method' = method
        BY DEF Next, Step, Deploy, Rollback, Tag, Build, Env, Start, Run, Healthy, Unhealthy,
               Join, Stop, Rm, Leave, SetSlot, Rename, Warm, Abort
  <2>2. method = "nginx"
        BY <1>1, <2>1 DEF DeployInv, TypeOK, DnsServes, Served
  <2>3. OldContainer \in Containers
        BY <1>1, Pair DEF DeployInv
  <2>4. CASE UNCHANGED <<state, loaded>>
        BY <2>1, <2>4 DEF Served
  <2>5. CASE Start \/ Run \/ Unhealthy
    <3>1. /\ job.op = "deploy"
          /\ job.new \in Containers /\ job.new # OldContainer
          BY <1>1, <2>5, AtWork DEF DeployInv, Start, Run, Unhealthy, At, Idle
    <3>2. state[OldContainer] = "healthy" /\ OldContainer \in loaded
          BY <1>1, <2>2, <2>5, <3>1 DEF DeployInv, TypeOK, LeftRunning, Start, Run, Unhealthy, At
    <3>3. state'[OldContainer] = state[OldContainer] /\ loaded' = loaded
          BY <1>1, <2>3, <2>5, <3>1 DEF DeployInv, TypeOK, Start, Run, Unhealthy
    <3>. QED  BY <2>1, <2>2, <3>2, <3>3 DEF Served
  <2>6. CASE Join \/ Stop \/ Rm \/ Leave
    <3>1. /\ job.new \in Containers /\ job.old \in Containers /\ job.new # job.old
          BY <1>1, <2>6, AtWork DEF DeployInv, Join, Stop, Rm, Leave, At, Idle
    <3>2. state[job.new] = "healthy" /\ (~Join => job.new \in loaded)
          BY <1>1, <2>2, <2>6 DEF LeftRunning, Join, Stop, Rm, Leave, At
    <3>3. state'[job.new] = state[job.new] /\ job.new \in loaded'
          BY <1>1, <2>6, <3>1, <3>2
          DEF DeployInv, TypeOK, Join, Stop, Rm, Leave, OldBecomes, docker
    <3>. QED  BY <2>1, <2>2, <3>2, <3>3 DEF Served
  <2>7. CASE \E c \in Containers : Warm(c)
    <3>1. \A c \in Containers : state[c] = "healthy" => state'[c] = "healthy"
          BY <1>1, <2>7 DEF DeployInv, TypeOK, Warm
    <3>2. loaded' = loaded /\ loaded \subseteq Containers
          BY <1>1, <2>7 DEF DeployInv, TypeOK, Warm, Containers
    <3>. QED  BY <2>1, <2>2, <3>1, <3>2 DEF Served
  <2>8. ~Rename
        BY <1>1, <2>2 DEF DeployInv, JobOK, Rename
  <2>. QED
       BY <2>4, <2>5, <2>6, <2>7, <2>8
       DEF Next, Step, Deploy, Rollback, Tag, Build, Env, Healthy, SetSlot, Abort, docker
<1>. QED  BY <1>1, LeftRunningAlways, PTL DEF Spec, DowntimeCauses
=============================================================================
