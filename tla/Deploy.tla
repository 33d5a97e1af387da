-------------------------------- MODULE Deploy --------------------------------
(***************************************************************************)
(* basec, the command line that runs the droplets: deploy, redeploy,       *)
(* rollback, down, restart, the migrations, the reset of the database and  *)
(* the certificates of the edge.                                           *)
(*                                                                         *)
(* A job is one command given by an operator or by the pipeline.  It works *)
(* on its droplets one after the other, one remote command at a time, and  *)
(* nothing keeps two jobs apart.  A remote command may fail, take effect   *)
(* while its answer is lost, or be the last one before the job is killed.  *)
(* What the code does then depends on the step: it raises, which counts    *)
(* the droplet as failed, or it goes on: with a warning where an upload    *)
(* stops half way or a redeploy loses a step, without a word where a       *)
(* deploy's git pull or build fails.                                       *)
(*                                                                         *)
(* A version is a commit of the main branch and, at the same time, the tag *)
(* the pipeline publishes its images under.                                *)
(***************************************************************************)
EXTENDS Integers, Sequences, SequencesExt

CONSTANTS
  Droplets, Role, \* Role[d] is "platform", "edge" or "vertical"
  Jobs,
  Commands,       \* records [op, droplets, tag, code, rebuild, pair]
  MaxVersion,     \* bound: versions 1..MaxVersion, the last is the head of the branch
  Published,      \* the tags the registry has
  Tagged,         \* the droplets that were deployed with a tag
  Clones,         \* the droplets whose directory is a clone of the repository
  HistoryLimit,   \* tags the history file keeps (10 in the code)
  Pairs,          \* certificate pairs; "junk" looks like one and is not
  MaxFaults       \* bound: failed commands, lost answers and killed jobs

Versions == 1..MaxVersion
None == 0      \* no tag: the image has the name compose gives it
Previous == -1 \* the tag rollback looks up in the history
Absent == -1   \* no such image
Mixed == 0     \* code of two versions: an upload that stopped half way
Down == <<None, Absent>>
NoPair == "none"

Operations == {"deploy", "redeploy", "rollback", "down", "restart", "apply", "downgrade",
               "reset", "ssl"}

\* A tag is optional but in a rollback; migrations and certificates are for one droplet,
\* and there is one edge.
ASSUME DeployAssumption ==
  /\ MaxVersion \in Nat \ {0} /\ HistoryLimit \in Nat \ {0} /\ MaxFaults \in Nat
  /\ Role \in [Droplets -> {"platform", "edge", "vertical"}]
  /\ \A d1, d2 \in Droplets : Role[d1] = "edge" /\ Role[d2] = "edge" => d1 = d2
  /\ Published \subseteq Versions
  /\ Clones \subseteq Droplets /\ Tagged \subseteq Droplets
  /\ "old" \in Pairs /\ NoPair \notin Pairs
  /\ Commands \subseteq [op : Operations, droplets : Seq(Droplets) \ {<<>>},
                         tag : Versions \cup {None, Previous}, code : Versions,
                         rebuild : BOOLEAN, pair : Pairs \cup {NoPair}]
  /\ \A c \in Commands :
       /\ c.tag # (IF c.op = "rollback" THEN None ELSE Previous)
       /\ c.op \in {"apply", "downgrade", "reset", "ssl"} => Len(c.droplets) = 1
       /\ c.op = "ssl" => Role[c.droplets[1]] = "edge"

VARIABLES
  source,    \* source[d]: the version of the files the droplet builds from
  override,  \* override[d]: the tag in docker-compose.override.yml, or None
  image,     \* image[d][t]: the code in the droplet's image with tag t, or Absent
  running,   \* running[d]: <<tag, code>> of the containers that are up, or Down
  history,   \* history[d]: .deploy-history, the newest tag first
  schema,    \* the revision of the schema, 0 for none
  files,     \* <<pair of origin.pem, pair of origin.key>> on the edge
  nginx,     \* the pair nginx serves, or NoPair when it is not up
  job,       \* job[j]: the command, what is left of it, and what it found
  faults,
  ran,       \* history variable: ran[d], the tags that were brought up
  latest,    \* history variable: the job started last
  overlapped \* history variable: two jobs were under way at once

remote == <<source, override, image, running, history>>
edge == <<files, nginx>>
ghosts == <<latest, overlapped>>
vars == <<source, override, image, running, history, schema, files, nginx, job,
          faults, ran, latest, overlapped>>

Idle == [cmd |-> <<>>, todo |-> <<>>, steps |-> <<>>, tag |-> None, seen |-> <<>>,
         failed |-> FALSE, lapsed |-> FALSE]

OfRole(r) == {d \in Droplets : Role[d] = r}
Underway == {j \in Jobs : job[j].todo # <<>>}
Ended == {j \in Jobs : job[j] # Idle /\ job[j].todo = <<>>}
On(j) == Head(job[j].todo)

TypeOK ==
  /\ source \in [Droplets -> Versions \cup {Mixed}]
  /\ override \in [Droplets -> Versions \cup {None}]
  /\ image \in [Droplets -> [Versions \cup {None} -> Versions \cup {Mixed, Absent}]]
  /\ \A d \in Droplets : running[d] # Down => running[d][2] # Absent
  /\ history \in [Droplets -> Seq(Versions)]
  /\ schema \in 0..MaxVersion
  /\ files \in Pairs \X Pairs /\ nginx \in Pairs \cup {NoPair}
  /\ faults \in 0..MaxFaults /\ ran \in [Droplets -> SUBSET (Versions \cup {None})]
  /\ \A j \in Jobs : job[j].todo = <<>> <=> job[j].steps = <<>>

FirstTag(d) == IF d \in Tagged THEN 1 ELSE None

\* Version 1 was deployed on every droplet and its migrations applied.
Init ==
  /\ source = [d \in Droplets |-> 1] /\ override = [d \in Droplets |-> FirstTag(d)]
  /\ image = [d \in Droplets |->
       [t \in Versions \cup {None} |-> IF t = FirstTag(d) THEN 1 ELSE Absent]]
  /\ running = [d \in Droplets |-> <<FirstTag(d), 1>>]
  /\ history = [d \in Droplets |-> IF d \in Tagged THEN <<1>> ELSE <<>>]
  /\ schema = 1
  /\ files = <<"old", "old">> /\ nginx = "old"
  /\ job = [j \in Jobs |-> Idle] /\ faults = 0
  /\ ran = [d \in Droplets |-> {FirstTag(d)}] /\ latest = {} /\ overlapped = FALSE

-------------------------------------------------------------------------------
(* The steps of a command on one droplet.                                  *)

Optional(condition, step) == IF condition THEN <<step>> ELSE <<>>

\* Mutant of DeployDroplet: the image is built before the tag it gets is set.
DeployBuildsFirst(c, d) ==
  <<"git">> \o Optional(Role[d] # "platform", "sync")
    \o Optional(Role[d] # "platform", "build") \o Optional(c.tag # None, "tag") \o <<"up">>
    \o (IF c.tag # None THEN <<"read", "save">> ELSE <<>>)

\* Mutant of DeployDroplet: the history is saved before the services are up.
DeploySavesFirst(c, d) ==
  <<"git">> \o Optional(Role[d] # "platform", "sync")
    \o (IF c.tag # None THEN <<"tag", "read", "save">> ELSE <<>>)
    \o Optional(Role[d] # "platform", "build") \o <<"up">>

DeployDroplet(c, d) ==
  <<"git">> \o Optional(Role[d] # "platform", "sync") \o Optional(c.tag # None, "tag")
    \o Optional(Role[d] # "platform", "build") \o <<"up">>
    \o (IF c.tag # None THEN <<"read", "save">> ELSE <<>>)

RollbackDroplet(c, d) ==
  Optional(c.tag = Previous, "pick") \o <<"tag", "pull", "up", "read", "save">>

RedeployDroplet(c, d) ==
  <<"down">> \o Optional(c.rebuild, "wipe") \o <<"git">>
    \o Optional(Role[d] # "platform", "sync")
    \o Optional(c.rebuild /\ Role[d] # "platform", "build") \o <<"pull">>
    \o Optional(c.tag # None, "tag") \o <<"up">>

Plan(c, d) ==
  CASE c.op = "deploy"    -> DeployDroplet(c, d)
    [] c.op = "rollback"  -> RollbackDroplet(c, d)
    [] c.op = "redeploy"  -> RedeployDroplet(c, d)
    [] c.op = "apply"     -> <<"current", "upgrade", "current">>
    [] c.op = "downgrade" -> <<"current", "downgrade", "current">>
    [] c.op = "reset"     -> <<"drop", "upgrade", "current">>
    [] c.op = "ssl"       -> <<"given", "cert", "key", "check", "reload">>
    [] OTHER              -> <<c.op>>

\* Only deploy, redeploy and rollback go on with the next droplet after a failure.
GoesOn(op) == op \in {"deploy", "redeploy", "rollback"}

\* Mutant of Swallowed: redeploy treats its last step as all the others.
SwallowedUp(op, step) ==
  \/ op = "deploy" /\ step \in {"git", "sync", "build", "read"}
  \/ op = "rollback" /\ step = "read"
  \/ op = "redeploy"

\* The steps whose failure is forgotten, whether a warning is printed or nothing is.
Swallowed(op, step) ==
  \/ op = "deploy" /\ step \in {"git", "sync", "build", "read"}
  \/ op = "rollback" /\ step = "read"
  \/ op = "redeploy" /\ step # "up"

\* The steps that raise when they fail: redeploy connects anew before most of them.
Raised(op, step) ==
  \/ op = "redeploy" /\ step # "tag"
  \/ ~Swallowed(op, step)

Enter(r) ==
  IF r.todo = <<>> THEN [r EXCEPT !.steps = <<>>]
  ELSE [r EXCEPT !.steps = Plan(r.cmd, Head(r.todo)), !.tag = r.cmd.tag, !.seen = <<>>]

NextStep(r) ==
  IF Len(r.steps) > 1 THEN [r EXCEPT !.steps = Tail(@)]
  ELSE Enter([r EXCEPT !.todo = Tail(@)])

\* An exception inside try: the rest of the block is skipped.  lapsed says that a step
\* has failed and the command went on; nothing need have been printed.
Lapse(r) ==
  LET w == [r EXCEPT !.lapsed = TRUE]
  IN IF r.cmd.op = "redeploy" /\ Head(r.steps) = "build"
     THEN NextStep([w EXCEPT !.steps = Tail(@)]) ELSE NextStep(w)

\* total_failed += 1, or the end of the command.
Raise(r) ==
  Enter([r EXCEPT !.failed = TRUE, !.todo = IF GoesOn(r.cmd.op) THEN Tail(@) ELSE <<>>])

AfterFailure(r) ==
  {Lapse(r) : s \in {t \in {Head(r.steps)} : Swallowed(r.cmd.op, t)}}
    \cup {Raise(r) : s \in {t \in {Head(r.steps)} : Raised(r.cmd.op, t)}}

At(j, step) == job[j].steps # <<>> /\ Head(job[j].steps) = step
Become(j, r) == job' = [job EXCEPT ![j] = r]

\* The remote command did what it does: its answer arrives, or is lost.
Done(j) ==
  \/ Become(j, NextStep(job[j])) /\ UNCHANGED faults
  \/ /\ faults < MaxFaults /\ faults' = faults + 1
     /\ \E r \in AfterFailure(job[j]) : Become(j, r)

\* The remote command cannot be carried out where it is sent.
Refused(j) ==
  /\ \E r \in AfterFailure(job[j]) : Become(j, r)
  /\ UNCHANGED faults

-------------------------------------------------------------------------------
Start(j) ==
  /\ job[j] = Idle /\ Cardinality(Underway) < 2
  /\ \E c \in Commands : Become(j, Enter([Idle EXCEPT !.cmd = c, !.todo = c.droplets]))
  /\ latest' = {j} /\ overlapped' = (overlapped \/ Underway # {})
  /\ UNCHANGED <<remote, schema, edge, faults, ran>>

\* The remote command fails without an effect, or the droplet cannot be reached.
StepFails(j) ==
  /\ j \in Underway /\ faults < MaxFaults /\ faults' = faults + 1
  /\ \E r \in AfterFailure(job[j]) : Become(j, r)
  /\ UNCHANGED <<remote, schema, edge, ghosts, ran>>

\* The operator interrupts the command, or the pipeline's run is cancelled.
Kill(j) ==
  /\ j \in Underway /\ faults < MaxFaults /\ faults' = faults + 1
  /\ Become(j, [job[j] EXCEPT !.failed = TRUE, !.todo = <<>>, !.steps = <<>>])
  /\ UNCHANGED <<remote, schema, edge, ghosts, ran>>

\* git pull, or git reset --hard in a redeploy: the head of the branch, where the
\* directory is a clone and its local changes are not in the way.
GitPull(j) ==
  LET d == On(j) IN
  /\ At(j, "git")
  /\ \/ d \in Clones /\ source' = [source EXCEPT ![d] = MaxVersion]
     \/ (d \notin Clones \/ job[j].cmd.op = "deploy") /\ UNCHANGED source
  /\ Done(j)
  /\ UNCHANGED <<override, image, running, history, schema, edge, ghosts, ran>>

\* The uploads of the operator's checkout; when they stop half way it goes on.
SyncSource(j) ==
  /\ At(j, "sync")
  /\ \/ source' = [source EXCEPT ![On(j)] = job[j].cmd.code] /\ Done(j)
     \/ /\ faults < MaxFaults /\ faults' = faults + 1
        /\ source' = [source EXCEPT ![On(j)] = IF @ = job[j].cmd.code THEN @ ELSE Mixed]
        /\ Become(j, Lapse(job[j]))
  /\ UNCHANGED <<override, image, running, history, schema, edge, ghosts, ran>>

SetImageTags(j) ==
  /\ At(j, "tag")
  /\ override' = [override EXCEPT ![On(j)] = job[j].tag]
  /\ Done(j)
  /\ UNCHANGED <<source, image, running, history, schema, edge, ghosts, ran>>

\* compose build labels what it builds with the tag of the override file.
Build(j) ==
  LET d == On(j) IN
  /\ At(j, "build")
  /\ image' = [image EXCEPT ![d][override[d]] = source[d]]
  /\ Done(j)
  /\ UNCHANGED <<source, override, running, history, schema, edge, ghosts, ran>>

\* compose pull replaces the image of the override's tag by the registry's.
Pull(j) ==
  LET d == On(j)
      t == override[d] IN
  /\ At(j, "pull")
  /\ \/ /\ t \in Published /\ image' = [image EXCEPT ![d][t] = t] /\ Done(j)
     \/ t = None /\ UNCHANGED image /\ Done(j)
     \/ t \notin Published \cup {None} /\ UNCHANGED image /\ Refused(j)
  /\ UNCHANGED <<source, override, running, history, schema, edge, ghosts, ran>>

\* Mutant of Brought: compose neither pulls nor builds what is missing.
BroughtAsItIs(d, t) == {image[d][t]}

\* What compose up runs for tag t: the image, or one it pulls or builds.
Brought(d, t) ==
  IF image[d][t] # Absent THEN {image[d][t]} ELSE {source[d]} \cup ({t} \cap Published)

Loaded == IF files[1] = files[2] /\ files[1] # "junk" THEN files[1] ELSE NoPair

Up(j) ==
  LET d == On(j)
      t == override[d] IN
  /\ At(j, "up")
  /\ \E c \in Brought(d, t) :
       /\ image' = [image EXCEPT ![d][t] = c]
       /\ running' = [running EXCEPT ![d] = <<t, c>>]
  /\ ran' = [ran EXCEPT ![d] = @ \cup {t}]
  /\ nginx' = IF Role[d] = "edge" /\ nginx = NoPair THEN Loaded ELSE nginx
  /\ Done(j)
  /\ UNCHANGED <<source, override, history, schema, files, ghosts>>

ComposeDown(j) ==
  LET d == On(j) IN
  /\ At(j, "down")
  /\ running' = [running EXCEPT ![d] = Down]
  /\ nginx' = IF Role[d] = "edge" THEN NoPair ELSE nginx
  /\ Done(j)
  /\ UNCHANGED <<source, override, image, history, schema, files, ghosts, ran>>

\* docker compose down --rmi all --volumes: the database of the platform is a volume.
RemoveImages(j) ==
  LET d == On(j) IN
  /\ At(j, "wipe")
  /\ image' = [image EXCEPT ![d][override[d]] = Absent]
  /\ running' = [running EXCEPT ![d] = Down]
  /\ nginx' = IF Role[d] = "edge" THEN NoPair ELSE nginx
  /\ schema' = IF Role[d] = "platform" THEN 0 ELSE schema
  /\ Done(j)
  /\ UNCHANGED <<source, override, history, files, ghosts, ran>>

Restart(j) ==
  LET d == On(j) IN
  /\ At(j, "restart")
  /\ \/ running[d] # Down /\ Done(j)
     \/ running[d] = Down /\ Refused(j)
  /\ nginx' = IF Role[d] = "edge" /\ running[d] # Down THEN Loaded ELSE nginx
  /\ UNCHANGED <<remote, schema, files, ghosts, ran>>

-------------------------------------------------------------------------------
(* The history of tags of a droplet.                                       *)

\* rollback --to previous: the second entry, when there are two.
PickPrevious(j) ==
  LET h == history[On(j)] IN
  /\ At(j, "pick")
  /\ \/ Len(h) < 2 /\ Become(j, Raise(job[j]))
     \/ Len(h) >= 2 /\ Become(j, NextStep([job[j] EXCEPT !.tag = h[2]]))
  /\ UNCHANGED <<remote, schema, edge, ghosts, ran, faults>>

\* get_deploy_history: a read that fails is an empty history.
ReadHistory(j) ==
  /\ At(j, "read")
  /\ Become(j, NextStep([job[j] EXCEPT !.seen = history[On(j)]]))
  /\ UNCHANGED <<remote, schema, edge, ghosts, ran, faults>>

\* A tag that is there moves to the front; a new one may push the last one out.
Newest(tag, seen) ==
  IF tag \in Range(seen) THEN <<tag>> \o RemoveFirst(seen, tag)
  ELSE <<tag>> \o SubSeq(seen, 1, IF Len(seen) < HistoryLimit THEN Len(seen) ELSE HistoryLimit - 1)

SaveHistory(j) ==
  /\ At(j, "save")
  /\ history' = [history EXCEPT ![On(j)] = Newest(job[j].tag, job[j].seen)]
  /\ Done(j)
  /\ UNCHANGED <<source, override, image, running, schema, edge, ghosts, ran>>

-------------------------------------------------------------------------------
(* Migrations: alembic runs in the container of the vertical.              *)

DatabaseIsUp == \A d \in OfRole("platform") : running[d] # Down

\* The newest revision the container's code has, when alembic can run there at all:
\* it fails on a database whose revision is not among the code's.
Heads(d) ==
  LET code == running[d][2] IN
  IF running[d] = Down \/ ~DatabaseIsUp THEN {}
  ELSE {v \in Versions : (code = Mixed \/ v = code) /\ schema <= v}

Alembic(j, revisions) ==
  /\ \/ \E v \in revisions : schema' = v /\ Done(j)
     \/ revisions = {} /\ UNCHANGED schema /\ Refused(j)
  /\ UNCHANGED <<remote, edge, ghosts, ran>>

Current(j) ==
  /\ At(j, "current")
  /\ Alembic(j, IF Heads(On(j)) = {} THEN {} ELSE {schema})

Upgrade(j) == At(j, "upgrade") /\ Alembic(j, Heads(On(j)))

Downgrade(j) ==
  /\ At(j, "downgrade")
  /\ Alembic(j, IF Heads(On(j)) = {} \/ schema = 0 THEN {} ELSE {schema - 1})

\* psql in the platform's postgres container.
DropSchema(j) ==
  /\ At(j, "drop")
  /\ \/ DatabaseIsUp /\ schema' = 0 /\ Done(j)
     \/ ~DatabaseIsUp /\ UNCHANGED schema /\ Refused(j)
  /\ UNCHANGED <<remote, edge, ghosts, ran>>

-------------------------------------------------------------------------------
(* The certificates of the edge.                                           *)

\* The files, or what is pasted, must begin as a certificate and a key do.
GivenPair(j) ==
  /\ At(j, "given")
  /\ \/ job[j].cmd.pair # NoPair /\ Become(j, NextStep(job[j]))
     \/ job[j].cmd.pair = NoPair /\ Become(j, Raise(job[j]))
  /\ UNCHANGED <<remote, schema, edge, ghosts, ran, faults>>

UploadCert(j) ==
  /\ At(j, "cert") /\ files' = <<job[j].cmd.pair, files[2]>> /\ Done(j)
  /\ UNCHANGED <<remote, schema, nginx, ghosts, ran>>

UploadKey(j) ==
  /\ At(j, "key") /\ files' = <<files[1], job[j].cmd.pair>> /\ Done(j)
  /\ UNCHANGED <<remote, schema, nginx, ghosts, ran>>

\* Mutant of Accepted: setup relies on validate_certificates alone.
AcceptedUntested(pair) == nginx # NoPair

\* validate_certificates looks for VALID, which INVALID contains, so both files being
\* there is enough; nginx -t runs in the container and reads them.
Accepted(pair) == nginx # NoPair /\ pair[1] = pair[2] /\ pair[1] # "junk"

CheckPair(j) ==
  /\ At(j, "check")
  /\ \/ Accepted(files) /\ Done(j)
     \/ ~Accepted(files) /\ Refused(j)
  /\ UNCHANGED <<remote, schema, edge, ghosts, ran>>

RestartNginx(j) ==
  /\ At(j, "reload")
  /\ nginx' = Loaded /\ Done(j)
  /\ UNCHANGED <<remote, schema, files, ghosts, ran>>

\* restart: unless-stopped tries again until the files can be loaded.
NginxComesBack ==
  /\ nginx = NoPair /\ Loaded # NoPair /\ \E d \in OfRole("edge") : running[d] # Down
  /\ nginx' = Loaded
  /\ UNCHANGED <<remote, schema, files, job, faults, ghosts, ran>>

-------------------------------------------------------------------------------
\* ssl check ends with 0 when nginx is not up, which is only a warning, or passes -t.
SslCheck == nginx = NoPair \/ Loaded # NoPair

\* The smoke tests of each role, on what they can see of it.
SmokePlatform(d) == running[d] # Down

SmokeEdge(d) == running[d] # Down /\ nginx # NoPair /\ Loaded # NoPair

SmokeVertical(d) == running[d] # Down /\ DatabaseIsUp

Passes(d) ==
  CASE Role[d] = "platform" -> SmokePlatform(d)
    [] Role[d] = "edge"     -> SmokeEdge(d)
    [] Role[d] = "vertical" -> SmokeVertical(d)

-------------------------------------------------------------------------------
Next ==
  \/ \E j \in Jobs :
       \/ Start(j) \/ StepFails(j) \/ Kill(j)
       \/ GitPull(j) \/ SyncSource(j) \/ SetImageTags(j) \/ Build(j) \/ Pull(j)
       \/ Up(j) \/ ComposeDown(j) \/ RemoveImages(j) \/ Restart(j)
       \/ PickPrevious(j) \/ ReadHistory(j) \/ SaveHistory(j)
       \/ Current(j) \/ Upgrade(j) \/ Downgrade(j) \/ DropSchema(j)
       \/ GivenPair(j) \/ UploadCert(j) \/ UploadKey(j) \/ CheckPair(j)
       \/ RestartNginx(j)
  \/ NginxComesBack

Spec == Init /\ [][Next]_vars

-------------------------------------------------------------------------------
\* The job started last has ended without a failure and has had the droplets to itself.
Reported(j) == ~overlapped /\ latest = {j} /\ j \in Ended /\ ~job[j].failed

\* "Deploy complete": a command that exits with 0, and that no other overlapped, did
\* what it says.  deploy and rollback left the newest tag of the history running,
\* redeploy left every container up, down left none, the migrations of apply and of
\* reset are the running code's, and setup left nginx serving the pair it was given.
ReportIsTrue ==
  \A j \in Jobs : Reported(j) =>
    LET c == job[j].cmd IN \A i \in 1..Len(c.droplets) :
      LET d == c.droplets[i] IN
      /\ c.op \in {"deploy", "redeploy", "rollback", "restart"} => running[d] # Down
      /\ c.op = "deploy" /\ c.tag # None => running[d][1] = c.tag /\ history[d][1] = c.tag
      /\ c.op = "rollback" => running[d][1] = history[d][1]
      /\ c.op = "down" => running[d] = Down
      /\ c.op \in {"apply", "reset"} => schema = running[d][2] \/ running[d][2] = Mixed
      /\ c.op = "ssl" => nginx = c.pair /\ SslCheck

\* A deploy none of whose steps failed runs, on the droplets it builds on, the code of the
\* checkout it was given from, whatever the registry has under the same tag.  Without that
\* condition it would be false: a build that fails is passed over without a word, and
\* "Deploy complete" is printed over an older image.
DeployRunsTheCheckout ==
  \A j \in Jobs : Reported(j) /\ ~job[j].lapsed /\ job[j].cmd.op = "deploy" =>
    \A i \in 1..Len(job[j].cmd.droplets) :
      LET d == job[j].cmd.droplets[i]
      IN Role[d] # "platform" => running[d][2] = job[j].cmd.code

\* A rollback that succeeded runs the image the pipeline published under the tag, not
\* what a deploy or a redeploy has built on the droplet and labelled the same.
RollbackRunsTheRegistry ==
  \A j \in Jobs : Reported(j) /\ job[j].cmd.op = "rollback" =>
    \A i \in 1..Len(job[j].cmd.droplets) :
      LET d == job[j].cmd.droplets[i] IN running[d][1] = running[d][2]

\* rollback --to previous trusts the history: unless two jobs met on a droplet, every
\* tag in it was brought up there, after failed, lost and killed commands too.
HistoryRan ==
  ~overlapped => \A d \in Droplets : \A i \in 1..Len(history[d]) : history[d][i] \in ran[d]

\* save_deploy_history keeps each tag once and no more than the limit, so that the
\* second entry is another version, even when two jobs write the file at once.
HistoryIsShortAndDistinct ==
  \A d \in Droplets :
    /\ Len(history[d]) <= HistoryLimit
    /\ \A i, k \in 1..Len(history[d]) : history[d][i] = history[d][k] => i = k

\* What runs after a deploy and after a rollback, and what a rollback may go back to:
\* the four statements above, checked two at a time.
ImagesAreTheRightOnes == DeployRunsTheCheckout /\ RollbackRunsTheRegistry
HistoryIsUsable == HistoryRan /\ HistoryIsShortAndDistinct

\* The smoke tests fail between two commands only after a command that was to stop the
\* droplet, or one that failed there or was killed: whoever gave it was told.  A
\* vertical needs the platform's schema, so it may also fail on the platform's account.
DownIsReported ==
  Underway = {} => \A d \in Droplets : ~Passes(d) =>
    \E j \in Ended : \E i \in 1..Len(job[j].cmd.droplets) :
      /\ job[j].cmd.droplets[i] \in {d} \cup (IF Role[d] = "vertical" THEN OfRole("platform") ELSE {})
      /\ job[j].failed \/ job[j].cmd.op = "down"

===============================================================================
