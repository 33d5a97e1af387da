------------------------------ MODULE DeployProofs ------------------------------
(***************************************************************************)
(* Proofs about the command line, for any droplets, commands and jobs.     *)
(*                                                                         *)
(* A job's steps are what is left of the plan for the droplet it is at.    *)
(* The invariant says what the steps that are past have left there, what a *)
(* command has left on the droplets it is through with, and, whatever two  *)
(* jobs do to each other, who is to blame for what is down.                *)
(***************************************************************************)
EXTENDS Deploy, SequenceTheorems, TLAPS

Names == {"git", "sync", "tag", "build", "up", "read", "save", "pick", "pull", "down", "wipe",
          "restart", "current", "upgrade", "downgrade", "drop", "given", "cert", "key",
          "check", "reload"}

Fields == {"cmd", "todo", "steps", "tag", "seen", "failed", "lapsed"}

(* The steps of a plan, those before its kth, and those a job has taken on *)
(* the droplet it is at.                                                   *)
Elements(P) == {P[i] : i \in 1..Len(P)}
Before(P, k) == {P[i] : i \in 1..(k - 1)}

Whole(r) == Plan(r.cmd, Head(r.todo))
Passed(r) == Len(Whole(r)) - Len(r.steps)
Past(r) == Before(Whole(r), Passed(r) + 1)

(* The droplets a command is through with.                                 *)
Through(r) == Elements(r.cmd.droplets) \ Elements(r.todo)

Distinct(h) == \A i, k \in 1..Len(h) : h[i] = h[k] => i = k
Short(h) == h \in Seq(Versions) /\ Len(h) <= HistoryLimit /\ Distinct(h)

States ==
  /\ source \in [Droplets -> Versions \cup {Mixed}]
  /\ override \in [Droplets -> Versions \cup {None}]
  /\ image \in [Droplets -> [Versions \cup {None} -> Versions \cup {Mixed, Absent}]]
  /\ running = [d \in Droplets |-> running[d]]
  /\ \A d \in Droplets : running[d] # Down => running[d][2] # Absent
  /\ history = [d \in Droplets |-> history[d]] /\ \A d \in Droplets : Short(history[d])
  /\ schema \in 0..MaxVersion
  /\ files \in Pairs \X Pairs /\ nginx \in Pairs \cup {NoPair}
  /\ faults \in 0..MaxFaults /\ ran \in [Droplets -> SUBSET (Versions \cup {None})]
  /\ job = [j \in Jobs |-> job[j]]

(* A job that is at a droplet has the end of its plan before it.           *)
Working(r) ==
  /\ r.todo \in Seq(Droplets) /\ r.todo # <<>> /\ r.steps # <<>>
  /\ Len(r.todo) <= Len(r.cmd.droplets) /\ Elements(r.todo) \subseteq Elements(r.cmd.droplets)
  /\ r.steps \in Seq(Names) /\ Len(r.steps) <= Len(Whole(r))
  /\ \A i \in 1..Len(r.steps) : r.steps[i] = Whole(r)[Passed(r) + i]
  /\ r.cmd.tag # Previous => r.tag = r.cmd.tag
  /\ "pick" \in Past(r) => r.tag \in Versions
  /\ "given" \in Past(r) => r.cmd.pair # NoPair

Sane(r) ==
  /\ DOMAIN r = Fields /\ Short(r.seen)
  /\ \/ r = Idle
     \/ /\ r.cmd \in Commands
        /\ (r.todo = <<>> /\ r.steps = <<>>) \/ Working(r)

(* Who is to blame for containers that are down, and for bad certificates. *)
Guilty(r, d) ==
  /\ r.cmd \in Commands /\ d \in Elements(r.cmd.droplets)
  /\ \/ r.failed
     \/ r.cmd.op = "down"
     \/ r.cmd.op = "redeploy" /\ r.todo # <<>> /\ Head(r.todo) = d

Tampering(r) ==
  /\ r.cmd \in Commands /\ r.cmd.op = "ssl"
  /\ r.failed \/ (r.todo # <<>> /\ "check" \notin Past(r))

Blamed ==
  /\ \A d \in Droplets : running[d] = Down => \E j \in Jobs : Guilty(job[j], d)
  /\ Loaded = NoPair => \E j \in Jobs : Tampering(job[j])
  /\ nginx = NoPair => \/ \E d \in OfRole("edge") : running[d] = Down
                       \/ \E j \in Jobs : Tampering(job[j])

(* What a step of a job leaves on the droplet it is at.                    *)
Leaves(r, x) ==
  LET c == r.cmd
      d == Head(r.todo)
      t == override[d]
  IN /\ x = "tag" /\ c.op # "redeploy" => t = r.tag
     /\ x = "sync" /\ c.op = "deploy" /\ ~r.lapsed => source[d] = c.code
     /\ x = "build" /\ c.op = "deploy" /\ ~r.lapsed => image[d][t] = c.code
     /\ x = "pull" /\ c.op = "rollback" => image[d][t] = t
     /\ x = "up" => running[d] = <<t, image[d][t]>> /\ running[d] # Down /\ t \in ran[d]
     /\ x = "save" => history[d] # <<>> /\ history[d][1] = r.tag
     /\ x = "restart" => running[d] # Down
     /\ x = "down" /\ c.op = "down" => running[d] = Down
     /\ x = "upgrade" => running[d][2] \in {schema, Mixed}
     /\ x = "cert" => files[1] = c.pair
     /\ x = "key" => files[2] = c.pair
     /\ x = "check" => c.pair # "junk"
     /\ x = "reload" => nginx = c.pair /\ Loaded = c.pair

(* What a command leaves on a droplet it is through with.                  *)
Holds(r, d) ==
  LET c == r.cmd IN
  /\ c.op \in {"deploy", "redeploy", "rollback", "restart"} => running[d] # Down
  /\ c.op = "deploy" /\ c.tag # None => running[d][1] = c.tag /\ history[d][1] = c.tag
  /\ c.op = "deploy" /\ ~r.lapsed /\ Role[d] # "platform" => running[d][2] = c.code
  /\ c.op = "rollback" => running[d][1] = history[d][1] /\ running[d][1] = running[d][2]
  /\ c.op = "down" => running[d] = Down
  /\ c.op \in {"apply", "reset"} => running[d][2] \in {schema, Mixed}
  /\ c.op = "ssl" => nginx = c.pair /\ Loaded = c.pair /\ c.pair # NoPair

InOrder(r) ==
  /\ \A x \in Past(r) : Leaves(r, x)
  /\ \A i \in 1..Len(r.seen) : r.seen[i] \in ran[Head(r.todo)]

Solo ==
  ~overlapped =>
    /\ Underway \subseteq latest /\ \A j, k \in latest : j = k
    /\ \A r \in {job[j] : j \in Underway} : InOrder(r)
    /\ \A r \in {job[j] : j \in latest} :
         r.cmd \in Commands /\ (~r.failed => \A d \in Through(r) : Holds(r, d))
    /\ HistoryRan

Inv == States /\ (\A r \in {job[j] : j \in Jobs} : Sane(r)) /\ Blamed /\ Solo
-------------------------------------------------------------------------------
(* Plans. *)

(* The steps of each command.                                              *)
Belongs(op, x) ==
  /\ op = "deploy" => x \in {"git", "sync", "tag", "build", "up", "read", "save"}
  /\ op = "rollback" => x \in {"pick", "tag", "pull", "up", "read", "save"}
  /\ op = "redeploy" => x \in {"down", "wipe", "git", "sync", "build", "pull", "tag", "up"}
  /\ op = "down" => x = "down"
  /\ op = "restart" => x = "restart"
  /\ op = "apply" => x \in {"current", "upgrade"}
  /\ op = "downgrade" => x \in {"current", "downgrade"}
  /\ op = "reset" => x \in {"drop", "upgrade", "current"}
  /\ op = "ssl" => x \in {"given", "cert", "key", "check", "reload"}

(* Where a step x stands: what the steps B before it are, and are not.     *)
Rules(c, x, B) ==
  /\ x \in Names /\ Belongs(c.op, x)
  /\ x \in {"pick", "down", "restart", "drop", "given"} => B = {}
  /\ x = "wipe" => B = {"down"}
  /\ x = "pick" => c.tag = Previous
  /\ x \in {"git", "sync"} => "sync" \notin B
  /\ x = "tag" => /\ "up" \notin B
                  /\ c.op = "deploy" => "build" \notin B
                  /\ c.op = "rollback" => "pull" \notin B
                  /\ c.tag = Previous => "pick" \in B
  /\ x = "build" => /\ "up" \notin B /\ "pull" \notin B
                    /\ c.op = "deploy" => "sync" \in B
  /\ x = "pull" => /\ "up" \notin B
                   /\ c.op = "rollback" => "tag" \in B
                   /\ c.op = "rollback" /\ c.tag = Previous => "pick" \in B
  /\ x = "up" /\ c.op = "redeploy" => "pull" \in B
  /\ x = "save" => /\ {"tag", "up"} \subseteq B /\ c.tag # None
                   /\ c.tag = Previous => "pick" \in B
  /\ x \in {"cert", "key"} => "given" \in B /\ "check" \notin B /\ "reload" \notin B
  /\ x = "check" => {"given", "cert", "key"} \subseteq B
  /\ x = "reload" => {"given", "cert", "key", "check"} \subseteq B

(* What a plan must have, and the step it ends with.                       *)
Has(c, d, S) ==
  /\ c.op \in {"deploy", "redeploy", "rollback"} => "up" \in S
  /\ c.op = "deploy" /\ c.tag # None => {"tag", "save"} \subseteq S
  /\ c.op = "deploy" /\ Role[d] # "platform" => "build" \in S
  /\ c.op = "rollback" => {"tag", "pull", "save"} \subseteq S
  /\ c.op = "restart" => "restart" \in S
  /\ c.op = "down" => "down" \in S
  /\ c.op \in {"apply", "reset"} => "upgrade" \in S
  /\ c.op = "ssl" => {"given", "cert", "key", "check", "reload"} \subseteq S

Good(c, P) ==
  /\ P \in Seq(Names)
  /\ \A k \in 1..Len(P) : Rules(c, P[k], Before(P, k))

EndsWith(P, x) == P[Len(P)] = x

Steps(c, P, S) == Good(c, P) /\ Elements(P) = S

(* The set of a step that is taken on a condition.                         *)
Perhaps(condition, x) == {y \in {x} : condition}

(* A plan of one step. *)
LEMMA FirstStep ==
  ASSUME NEW c, NEW x, Rules(c, x, {})
  PROVE  Steps(c, <<x>>, {x})
<1> DEFINE P == <<x>>
<1>1. P \in Seq(Names)
  <2>1. x \in Names
    BY DEF Rules
  <2> QED BY <2>1
<1>2. Len(P) = 1 /\ P[1] = x
  OBVIOUS
<1> HIDE DEF P
<1>3. Before(P, 1) = {} /\ Elements(P) = {x}
  BY <1>2 DEF Before, Elements
<1>4. Good(c, P)
  <2> SUFFICES ASSUME NEW k \in 1..Len(P) PROVE Rules(c, P[k], Before(P, k))
    BY <1>1 DEF Good
  <2>1. k = 1
    BY <1>2
  <2> QED BY <1>2, <1>3, <2>1
<1> QED BY <1>3, <1>4 DEF P, Steps

(* A plan and one step more. *)
LEMMA MoreSteps ==
  ASSUME NEW c, NEW s, NEW S, Steps(c, s, S), NEW x, Rules(c, x, S)
  PROVE  Steps(c, s \o <<x>>, S \cup {x}) /\ EndsWith(s \o <<x>>, x)
<1> DEFINE P == s \o <<x>>
<1>1. s \in Seq(Names) /\ Len(s) \in Nat /\ S = Elements(s)
  BY DEF Steps, Good
<1>2. <<x>> \in Seq(Names)
  <2>1. x \in Names
    BY DEF Rules
  <2> QED BY <2>1
<1>3. Len(<<x>>) = 1 /\ <<x>>[1] = x
  OBVIOUS
<1>4. P \in Seq(Names) /\ Len(P) = Len(s) + 1
      /\ \A i \in 1..Len(s) + 1 : P[i] = IF i <= Len(s) THEN s[i] ELSE <<x>>[i - Len(s)]
  BY <1>1, <1>2, <1>3, ConcatProperties
<1>5. (\A i \in 1..Len(s) : P[i] = s[i]) /\ P[Len(s) + 1] = x
  BY <1>1, <1>3, <1>4
<1> HIDE DEF P
<1>6. \A k \in 1..Len(s) : Before(P, k) = Before(s, k)
  BY <1>1, <1>5 DEF Before
<1>7. Before(P, Len(s) + 1) = S
  BY <1>1, <1>5 DEF Before, Elements
<1>8. Elements(P) = S \cup {x}
  BY <1>1, <1>4, <1>5 DEF Elements
<1>9. \A k \in 1..Len(P) : Rules(c, P[k], Before(P, k))
  <2> TAKE k \in 1..Len(P)
  <2>1. CASE k \in 1..Len(s)
    BY <1>5, <1>6, <2>1 DEF Steps, Good
  <2>2. CASE k = Len(s) + 1
    BY <1>5, <1>7, <2>2
  <2> QED BY <1>1, <1>4, <2>1, <2>2
<1> QED BY <1>4, <1>5, <1>8, <1>9 DEF Good, Steps, EndsWith, P

(* A plan and a step on a condition. *)
LEMMA PerhapsMore ==
  ASSUME NEW c, NEW s, NEW S, Steps(c, s, S), NEW condition \in BOOLEAN, NEW x,
         condition => Rules(c, x, S)
  PROVE  Steps(c, s \o Optional(condition, x), S \cup Perhaps(condition, x))
<1>1. CASE condition
  <2>1. Optional(condition, x) = <<x>> /\ S \cup Perhaps(condition, x) = S \cup {x}
    BY <1>1 DEF Optional, Perhaps
  <2>2. Steps(c, s \o <<x>>, S \cup {x})
    BY <1>1, MoreSteps, Zenon
  <2> QED BY <2>1, <2>2
<1>2. CASE ~condition
  <2>1. Optional(condition, x) = <<>> /\ S \cup Perhaps(condition, x) = S
    BY <1>2 DEF Optional, Perhaps
  <2>2. s \o <<>> = s
    BY ConcatEmptySeq DEF Steps, Good
  <2> QED BY <2>1, <2>2
<1> QED BY <1>1, <1>2

(* Two steps one after the other. *)
LEMMA OneByOne ==
  ASSUME NEW s \in Seq(Names), NEW x \in Names, NEW y \in Names
  PROVE  s \o <<x, y>> = (s \o <<x>>) \o <<y>>
<1>1. <<x>> \in Seq(Names)
  OBVIOUS
<1>2. <<y>> \in Seq(Names)
  OBVIOUS
<1>3. <<x>> \o <<y>> = <<x, y>>
  <2>1. Len(<<x>>) = 1 /\ Len(<<y>>) = 1 /\ Len(<<x, y>>) = 2 /\ <<x, y>> \in Seq(Names)
    OBVIOUS
  <2>2. /\ <<x>> \o <<y>> \in Seq(Names) /\ Len(<<x>> \o <<y>>) = 2
        /\ \A i \in 1..2 : (<<x>> \o <<y>>)[i] = IF i <= 1 THEN <<x>>[i] ELSE <<y>>[i - 1]
    BY <1>1, <1>2, <2>1, ConcatProperties
  <2>3. \A i \in 1..2 : (<<x>> \o <<y>>)[i] = <<x, y>>[i]
    BY <2>2
  <2> QED BY <2>1, <2>2, <2>3, SeqEqual
<1>4. (s \o <<x>>) \o <<y>> = s \o (<<x>> \o <<y>>)
  BY <1>1, <1>2, ConcatAssociative
<1> QED BY <1>3, <1>4

(* deploy: the tag is set before the image is built, and saved at the end. *)
LEMMA DeployPlan ==
  ASSUME NEW c, NEW d, c.op = "deploy", c.tag # Previous
  PROVE  Good(c, DeployDroplet(c, d)) /\ Has(c, d, Elements(DeployDroplet(c, d)))
<1> DEFINE builds == Role[d] # "platform"
           tagged == c.tag # None
           a == <<"git">>
           A == {"git"}
           b == a \o Optional(builds, "sync")
           B == A \cup Perhaps(builds, "sync")
           e == b \o Optional(tagged, "tag")
           E == B \cup Perhaps(tagged, "tag")
           f == e \o Optional(builds, "build")
           F == E \cup Perhaps(builds, "build")
           g == f \o <<"up">>
           G == F \cup {"up"}
           h == g \o <<"read">>
           H == G \cup {"read"}
<1>0. builds \in BOOLEAN /\ tagged \in BOOLEAN
  OBVIOUS
<1>1. Steps(c, a, A)
  <2>1. Rules(c, "git", {})
    BY DEF Rules, Belongs, Names
  <2> QED BY <2>1, FirstStep, Zenon
<1>2. Steps(c, b, B)
  <2>1. builds => Rules(c, "sync", A)
    BY DEF Rules, Belongs, Names
  <2> HIDE DEF a, A
  <2> QED BY <1>0, <1>1, <2>1, PerhapsMore, Zenon
<1>3. Steps(c, e, E)
  <2>1. tagged => Rules(c, "tag", B)
    BY DEF Rules, Belongs, Names, Perhaps
  <2> HIDE DEF b, B
  <2> QED BY <1>0, <1>2, <2>1, PerhapsMore, Zenon
<1>4. Steps(c, f, F)
  <2>1. builds => Rules(c, "build", E)
    BY DEF Rules, Belongs, Names, Perhaps
  <2> HIDE DEF e, E
  <2> QED BY <1>0, <1>3, <2>1, PerhapsMore, Zenon
<1>5. Steps(c, g, G)
  <2>1. Rules(c, "up", F)
    BY DEF Rules, Belongs, Names
  <2> HIDE DEF f, F
  <2> QED BY <1>4, <2>1, MoreSteps, Zenon
<1>6. CASE ~tagged
  <2>1. DeployDroplet(c, d) = g
    <3>1. g \o <<>> = g
      <4> HIDE DEF g, G
      <4> QED BY <1>5, ConcatEmptySeq DEF Steps, Good
    <3> QED BY <1>6, <3>1 DEF DeployDroplet
  <2>2. Has(c, d, G)
    BY <1>6 DEF Has, Perhaps
  <2> HIDE DEF g, G
  <2> QED BY <1>5, <2>1, <2>2 DEF Steps
<1>7. CASE tagged
  <2>1. Steps(c, h, H)
    <3>1. Rules(c, "read", G)
      BY DEF Rules, Belongs, Names
    <3> HIDE DEF g, G
    <3> QED BY <1>5, <3>1, MoreSteps, Zenon
  <2>2. Steps(c, h \o <<"save">>, H \cup {"save"})
    <3>1. Rules(c, "save", H)
      BY <1>7 DEF Rules, Belongs, Names, Perhaps
    <3> HIDE DEF h, H
    <3> QED BY <2>1, <3>1, MoreSteps, Zenon
  <2>3. DeployDroplet(c, d) = h \o <<"save">>
    <3>1. g \o <<"read", "save">> = h \o <<"save">>
      <4>1. "read" \in Names /\ "save" \in Names
        BY DEF Names
      <4> HIDE DEF g, G
      <4> QED BY <1>5, <4>1, OneByOne DEF Steps, Good
    <3>2. DeployDroplet(c, d) = g \o <<"read", "save">>
      BY <1>7 DEF DeployDroplet
    <3> QED BY <3>1, <3>2
  <2>4. Has(c, d, H \cup {"save"})
    BY <1>7 DEF Has, Perhaps
  <2> HIDE DEF h, H
  <2> QED BY <2>2, <2>3, <2>4 DEF Steps
<1> QED BY <1>6, <1>7

(* redeploy: down, perhaps wiped, and up at the end.                       *)
LEMMA RedeployPlan ==
  ASSUME NEW c, NEW d, c.op = "redeploy", c.tag # Previous, c.rebuild \in BOOLEAN
  PROVE  /\ Good(c, RedeployDroplet(c, d)) /\ Has(c, d, Elements(RedeployDroplet(c, d)))
         /\ RedeployDroplet(c, d)[Len(RedeployDroplet(c, d))] = "up"
<1> DEFINE syncs == Role[d] # "platform"
           builds == c.rebuild /\ Role[d] # "platform"
           tagged == c.tag # None
           a == <<"down">>
           A == {"down"}
           b == a \o Optional(c.rebuild, "wipe")
           B == A \cup Perhaps(c.rebuild, "wipe")
           e == b \o <<"git">>
           E == B \cup {"git"}
           f == e \o Optional(syncs, "sync")
           F == E \cup Perhaps(syncs, "sync")
           g == f \o Optional(builds, "build")
           G == F \cup Perhaps(builds, "build")
           h == g \o <<"pull">>
           H == G \cup {"pull"}
           i == h \o Optional(tagged, "tag")
           I == H \cup Perhaps(tagged, "tag")
<1>0. syncs \in BOOLEAN /\ builds \in BOOLEAN /\ tagged \in BOOLEAN
  OBVIOUS
<1>1. Steps(c, a, A)
  <2>1. Rules(c, "down", {})
    BY DEF Rules, Belongs, Names
  <2> QED BY <2>1, FirstStep, Zenon
<1>2. Steps(c, b, B)
  <2>1. c.rebuild => Rules(c, "wipe", A)
    BY DEF Rules, Belongs, Names
  <2> HIDE DEF a, A
  <2> QED BY <1>1, <2>1, PerhapsMore, Zenon
<1>3. Steps(c, e, E)
  <2>1. Rules(c, "git", B)
    BY DEF Rules, Belongs, Names, Perhaps
  <2> HIDE DEF b, B
  <2> QED BY <1>2, <2>1, MoreSteps, Zenon
<1>4. Steps(c, f, F)
  <2>1. syncs => Rules(c, "sync", E)
    BY DEF Rules, Belongs, Names, Perhaps
  <2> HIDE DEF e, E
  <2> QED BY <1>0, <1>3, <2>1, PerhapsMore, Zenon
<1>5. Steps(c, g, G)
  <2>1. builds => Rules(c, "build", F)
    BY DEF Rules, Belongs, Names, Perhaps
  <2> HIDE DEF f, F
  <2> QED BY <1>0, <1>4, <2>1, PerhapsMore, Zenon
<1>6. Steps(c, h, H)
  <2>1. Rules(c, "pull", G)
    BY DEF Rules, Belongs, Names, Perhaps
  <2> HIDE DEF g, G
  <2> QED BY <1>5, <2>1, MoreSteps, Zenon
<1>7. Steps(c, i, I)
  <2>1. tagged => Rules(c, "tag", H)
    BY DEF Rules, Belongs, Names, Perhaps
  <2> HIDE DEF h, H
  <2> QED BY <1>0, <1>6, <2>1, PerhapsMore, Zenon
<1>8. Steps(c, i \o <<"up">>, I \cup {"up"}) /\ EndsWith(i \o <<"up">>, "up")
  <2>1. Rules(c, "up", I)
    BY DEF Rules, Belongs, Names, Perhaps
  <2> HIDE DEF i, I
  <2> QED BY <1>7, <2>1, MoreSteps, Zenon
<1>9. RedeployDroplet(c, d) = i \o <<"up">>
  BY DEF RedeployDroplet
<1>10. Has(c, d, I \cup {"up"})
  BY DEF Has
<1> HIDE DEF i, I
<1> QED BY <1>8, <1>9, <1>10 DEF Steps, EndsWith

(* rollback: a tag, perhaps picked, and the image the registry has of it.  *)
LEMMA RollbackPlan ==
  ASSUME NEW c, NEW d, c.op = "rollback", c.tag # None
  PROVE  Good(c, RollbackDroplet(c, d)) /\ Has(c, d, Elements(RollbackDroplet(c, d)))
<1> DEFINE a == <<"tag", "pull", "up", "read", "save">>
           P == RollbackDroplet(c, d)
<1>1. a \in Seq(Names)
  BY DEF Names
<1>2. Len(a) = 5 /\ a[1] = "tag" /\ a[2] = "pull" /\ a[3] = "up" /\ a[4] = "read" /\ a[5] = "save"
  OBVIOUS
<1>3. P = Optional(c.tag = Previous, "pick") \o a
  BY DEF RollbackDroplet
<1> HIDE DEF a, P
<1>4. CASE c.tag # Previous
  <2>1. P = <<>> \o a
    BY <1>3, <1>4 DEF Optional
  <2>2. P = a
    BY <1>1, <2>1, ConcatEmptySeq
  <2>3. /\ Before(P, 1) = {} /\ Before(P, 2) = {"tag"} /\ Before(P, 3) = {"tag", "pull"}
        /\ Before(P, 4) = {"tag", "pull", "up"} /\ Before(P, 5) = {"tag", "pull", "up", "read"}
        /\ Elements(P) = {"tag", "pull", "up", "read", "save"}
    <3>1. /\ P[1] = "tag" /\ P[2] = "pull" /\ P[3] = "up" /\ P[4] = "read" /\ P[5] = "save"
          /\ Len(P) = 5
      BY <1>2, <2>2
    <3>2. Before(P, 1) = {} /\ Before(P, 2) = {"tag"} /\ Before(P, 3) = {"tag", "pull"}
      BY <3>1 DEF Before
    <3>3. Before(P, 4) = {"tag", "pull", "up"}
      BY <3>1 DEF Before
    <3>4. Before(P, 5) = {"tag", "pull", "up", "read"}
      BY <3>1 DEF Before
    <3>5. Elements(P) = {"tag", "pull", "up", "read", "save"}
      BY <3>1 DEF Elements
    <3> QED BY <3>2, <3>3, <3>4, <3>5
  <2>4. Good(c, P)
    <3> SUFFICES ASSUME NEW k \in 1..Len(P) PROVE Rules(c, P[k], Before(P, k))
      BY <1>1, <2>2 DEF Good
    <3>1. k \in 1..5
      BY <1>2, <2>2
    <3>2. k = 1 \/ k = 2 \/ k = 3 \/ k = 4 \/ k = 5
      BY <3>1
    <3> QED BY <1>2, <1>4, <2>2, <2>3, <3>2 DEF Rules, Belongs, Names
  <2>5. Has(c, d, Elements(P))
    BY <2>3 DEF Has
  <2> QED BY <2>4, <2>5 DEF P
<1>5. CASE c.tag = Previous
  <2>1. P = <<"pick">> \o a
    BY <1>3, <1>5 DEF Optional
  <2>2. PICK q \in Seq(Names) : q = <<"pick">> /\ Len(q) = 1 /\ q[1] = "pick"
    <3>1. <<"pick">> \in Seq(Names)
      BY DEF Names
    <3>2. Len(<<"pick">>) = 1 /\ <<"pick">>[1] = "pick"
      OBVIOUS
    <3> QED BY <3>1, <3>2, Zenon
  <2>3. P = q \o a
    BY <2>1, <2>2
  <2>4. /\ P \in Seq(Names) /\ Len(P) = 6
        /\ \A k \in 1..6 : P[k] = IF k <= 1 THEN q[k] ELSE a[k - 1]
    <3>1. /\ q \o a \in Seq(Names) /\ Len(q \o a) = Len(q) + Len(a)
          /\ \A k \in 1..Len(q) + Len(a) : (q \o a)[k] = IF k <= Len(q) THEN q[k] ELSE a[k - Len(q)]
      <4> DEFINE s == q
      <4>1. s \in Seq(Names)
        BY <2>2
      <4> HIDE DEF s
      <4>2. /\ s \o a \in Seq(Names) /\ Len(s \o a) = Len(s) + Len(a)
            /\ \A k \in 1..Len(s) + Len(a) : (s \o a)[k] = IF k <= Len(s) THEN s[k] ELSE a[k - Len(s)]
        BY <1>1, <4>1, ConcatProperties
      <4> QED BY <4>2 DEF s
    <3> QED BY <1>2, <2>2, <2>3, <3>1
  <2>5. /\ P[1] = "pick" /\ P[2] = "tag" /\ P[3] = "pull" /\ P[4] = "up" /\ P[5] = "read"
        /\ P[6] = "save"
    BY <1>2, <2>2, <2>4
  <2>6. /\ Before(P, 1) = {} /\ Before(P, 2) = {"pick"} /\ Before(P, 3) = {"pick", "tag"}
        /\ Before(P, 4) = {"pick", "tag", "pull"} /\ Before(P, 5) = {"pick", "tag", "pull", "up"}
        /\ Before(P, 6) = {"pick", "tag", "pull", "up", "read"}
        /\ Elements(P) = {"pick", "tag", "pull", "up", "read", "save"}
    BY <2>4, <2>5 DEF Before, Elements
  <2>7. Good(c, P)
    <3> SUFFICES ASSUME NEW k \in 1..Len(P) PROVE Rules(c, P[k], Before(P, k))
      BY <2>4 DEF Good
    <3>1. k \in 1..6
      BY <2>4
    <3>2. k = 1 \/ k = 2 \/ k = 3 \/ k = 4 \/ k = 5 \/ k = 6
      BY <3>1
    <3> QED BY <1>5, <2>5, <2>6, <3>2 DEF Rules, Belongs, Names
  <2>8. Has(c, d, Elements(P))
    BY <2>6 DEF Has
  <2> QED BY <2>7, <2>8 DEF P
<1> QED BY <1>4, <1>5

(* The plans of the other commands. *)
LEMMA ShortPlans ==
  ASSUME NEW c, NEW d, c.op \in {"down", "restart", "apply", "downgrade", "reset"}
  PROVE  Good(c, Plan(c, d)) /\ Has(c, d, Elements(Plan(c, d)))
<1>1. CASE c.op \in {"down", "restart"}
  <2>1. Plan(c, d) = <<c.op>> /\ Rules(c, c.op, {})
    BY <1>1 DEF Plan, Rules, Belongs, Names
  <2>2. Steps(c, <<c.op>>, {c.op})
    BY <2>1, FirstStep, Zenon
  <2> QED BY <1>1, <2>1, <2>2 DEF Steps, Has
<1>2. ASSUME NEW x, NEW y, NEW z, Rules(c, x, {}), Rules(c, y, {x}), Rules(c, z, {x, y}),
             Plan(c, d) = <<x, y, z>>
      PROVE  Good(c, Plan(c, d)) /\ Elements(Plan(c, d)) = {x, y, z}
  <2> DEFINE P == <<x, y, z>>
  <2>1. P \in Seq(Names)
    <3>1. x \in Names /\ y \in Names /\ z \in Names
      BY <1>2 DEF Rules
    <3> QED BY <3>1
  <2>2. Len(P) = 3 /\ P[1] = x /\ P[2] = y /\ P[3] = z
    OBVIOUS
  <2> HIDE DEF P
  <2>3. /\ Before(P, 1) = {} /\ Before(P, 2) = {x} /\ Before(P, 3) = {x, y}
        /\ Elements(P) = {x, y, z}
    BY <2>2 DEF Before, Elements
  <2>4. Good(c, P)
    <3> SUFFICES ASSUME NEW k \in 1..Len(P) PROVE Rules(c, P[k], Before(P, k))
      BY <2>1 DEF Good
    <3>1. k = 1 \/ k = 2 \/ k = 3
      BY <2>2
    <3> QED BY <1>2, <2>2, <2>3, <3>1
  <2> QED BY <1>2, <2>3, <2>4 DEF P
<1>3. CASE c.op = "apply"
  <2>1. /\ Rules(c, "current", {}) /\ Rules(c, "upgrade", {"current"})
        /\ Rules(c, "current", {"current", "upgrade"})
    BY <1>3 DEF Rules, Belongs, Names
  <2>2. Plan(c, d) = <<"current", "upgrade", "current">>
    BY <1>3 DEF Plan
  <2> QED BY <1>2, <1>3, <2>1, <2>2 DEF Has
<1>4. CASE c.op = "downgrade"
  <2>1. /\ Rules(c, "current", {}) /\ Rules(c, "downgrade", {"current"})
        /\ Rules(c, "current", {"current", "downgrade"})
    BY <1>4 DEF Rules, Belongs, Names
  <2>2. Plan(c, d) = <<"current", "downgrade", "current">>
    BY <1>4 DEF Plan
  <2> QED BY <1>2, <1>4, <2>1, <2>2 DEF Has
<1>5. CASE c.op = "reset"
  <2>1. /\ Rules(c, "drop", {}) /\ Rules(c, "upgrade", {"drop"})
        /\ Rules(c, "current", {"drop", "upgrade"})
    BY <1>5 DEF Rules, Belongs, Names
  <2>2. Plan(c, d) = <<"drop", "upgrade", "current">>
    BY <1>5 DEF Plan
  <2> QED BY <1>2, <1>5, <2>1, <2>2 DEF Has
<1> QED BY <1>1, <1>3, <1>4, <1>5

(* ssl setup: nginx is restarted after the check only.                     *)
LEMMA SslPlan ==
  ASSUME NEW c, NEW d, c.op = "ssl", c.tag # Previous
  PROVE  Good(c, Plan(c, d)) /\ Has(c, d, Elements(Plan(c, d)))
<1> DEFINE P == <<"given", "cert", "key", "check", "reload">>
<1>1. P \in Seq(Names)
  BY DEF Names
<1>2. /\ Len(P) = 5 /\ P[1] = "given" /\ P[2] = "cert" /\ P[3] = "key" /\ P[4] = "check"
      /\ P[5] = "reload"
  OBVIOUS
<1>3. Plan(c, d) = P
  BY DEF Plan
<1> HIDE DEF P
<1>4. /\ Before(P, 1) = {} /\ Before(P, 2) = {"given"} /\ Before(P, 3) = {"given", "cert"}
      /\ Before(P, 4) = {"given", "cert", "key"}
      /\ Before(P, 5) = {"given", "cert", "key", "check"}
      /\ Elements(P) = {"given", "cert", "key", "check", "reload"}
  BY <1>2 DEF Before, Elements
<1>5. Good(c, P)
  <2> SUFFICES ASSUME NEW k \in 1..Len(P) PROVE Rules(c, P[k], Before(P, k))
    BY <1>1 DEF Good
  <2>1. k \in 1..5
    BY <1>2
  <2>2. k = 1 \/ k = 2 \/ k = 3 \/ k = 4 \/ k = 5
    BY <2>1
  <2> QED BY <1>2, <1>4, <2>2 DEF Rules, Belongs, Names
<1>6. Has(c, d, Elements(P))
  BY <1>4 DEF Has
<1> QED BY <1>3, <1>5, <1>6

(* What is known of a command. *)
LEMMA CommandFacts ==
  ASSUME NEW c \in Commands
  PROVE  /\ c.op \in Operations /\ c.droplets \in Seq(Droplets) /\ c.droplets # <<>>
         /\ c.tag \in Versions \cup {None, Previous} /\ c.code \in Versions
         /\ c.rebuild \in BOOLEAN /\ c.pair \in Pairs \cup {NoPair}
         /\ c.tag # (IF c.op = "rollback" THEN None ELSE Previous)
         /\ c.op \in {"apply", "downgrade", "reset", "ssl"} => Len(c.droplets) = 1
         /\ c.op = "ssl" => Role[c.droplets[1]] = "edge"
BY DeployAssumption

(* An idle job has no command.                                             *)
LEMMA IdleHasNoCommand == <<>> \notin Commands
<1>1. ASSUME <<>> \in Commands PROVE FALSE
  <2>1. <<>> \in [op : Operations, droplets : Seq(Droplets) \ {<<>>},
                 tag : Versions \cup {None, Previous}, code : Versions,
                 rebuild : BOOLEAN, pair : Pairs \cup {NoPair}]
    BY <1>1, DeployAssumption
  <2>2. DOMAIN <<>> = {"op", "droplets", "tag", "code", "rebuild", "pair"}
    BY <2>1
  <2>3. DOMAIN <<>> = 1..0
    OBVIOUS
  <2>4. "op" \in 1..0
    BY <2>2, <2>3
  <2> QED BY <2>4
<1> QED BY <1>1

(* Every plan keeps the rules and has what its command is for.             *)
LEMMA Plans ==
  ASSUME NEW c \in Commands, NEW d
  PROVE  /\ Good(c, Plan(c, d)) /\ Has(c, d, Elements(Plan(c, d)))
         /\ Plan(c, d) # <<>>
         /\ c.op = "redeploy" => EndsWith(Plan(c, d), "up")
<1>1. c.op = "redeploy" => EndsWith(RedeployDroplet(c, d), "up")
  BY CommandFacts, RedeployPlan DEF EndsWith
<1>2. Good(c, Plan(c, d)) /\ Has(c, d, Elements(Plan(c, d)))
  <2>1. c.op \in Operations /\ c.tag # (IF c.op = "rollback" THEN None ELSE Previous)
        /\ c.rebuild \in BOOLEAN
    BY CommandFacts
  <2>2. CASE c.op = "deploy"
    <3>1. Plan(c, d) = DeployDroplet(c, d)
      BY <2>2 DEF Plan
    <3>2. c.tag # Previous
      BY <2>1, <2>2
    <3> QED BY <2>2, <3>1, <3>2, DeployPlan
  <2>3. CASE c.op = "rollback"
    <3>1. Plan(c, d) = RollbackDroplet(c, d)
      BY <2>3 DEF Plan
    <3>2. c.tag # None
      BY <2>1, <2>3
    <3> QED BY <2>3, <3>1, <3>2, RollbackPlan
  <2>4. CASE c.op = "redeploy"
    <3>1. Plan(c, d) = RedeployDroplet(c, d)
      BY <2>4 DEF Plan
    <3>2. c.tag # Previous
      BY <2>1, <2>4
    <3> QED BY <2>1, <2>4, <3>1, <3>2, RedeployPlan
  <2>5. CASE c.op = "ssl"
    <3>1. c.tag # Previous
      BY <2>1, <2>5
    <3> QED BY <2>5, <3>1, SslPlan
  <2>6. CASE c.op \in {"down", "restart", "apply", "downgrade", "reset"}
    BY <2>6, ShortPlans
  <2> QED BY <2>1, <2>2, <2>3, <2>4, <2>5, <2>6 DEF Operations
<1>3. c.op = "redeploy" => Plan(c, d) = RedeployDroplet(c, d)
  BY DEF Plan
<1>4. Plan(c, d) # <<>>
  <2>1. Len(<<>>) = 0
    OBVIOUS
  <2>2. ASSUME Plan(c, d) = <<>> PROVE FALSE
    <3>1. Elements(Plan(c, d)) = {}
      BY <2>1, <2>2 DEF Elements
    <3>2. c.op = "downgrade"
      BY <1>2, <3>1, CommandFacts DEF Has, Operations
    <3>3. Plan(c, d) = <<"current", "downgrade", "current">>
      BY <3>2 DEF Plan
    <3> QED BY <2>2, <3>3
  <2> QED BY <2>2
<1> QED BY <1>1, <1>2, <1>3, <1>4

-------------------------------------------------------------------------------
(* Jobs. *)

(* A job that begins with a droplet, or has none left.                     *)
Fresh(r) == r.todo = <<>> \/ (Past(r) = {} /\ r.seen = <<>>)

(* r2 is job r1 when the steps of S are behind it.                         *)
Onward(r1, r2, S) ==
  /\ Sane(r2) /\ r2.cmd = r1.cmd /\ r2.failed = r1.failed /\ r2.lapsed = r1.lapsed
  /\ "given" \in Past(r1) \cup S => r1.cmd.pair # NoPair
  /\ \/ /\ r2.todo = r1.todo /\ r2.tag = r1.tag /\ r2.seen = r1.seen
        /\ Past(r2) = Past(r1) \cup S
     \/ /\ r2.todo = Tail(r1.todo) /\ Elements(Whole(r1)) = Past(r1) \cup S
        /\ Fresh(r2)
        /\ r1.cmd.op = "redeploy" => "up" \in S

(* r2 is job r when it has failed where it is.                             *)
Lost(r, r2) ==
  /\ Sane(r2) /\ r2.cmd = r.cmd /\ r2.failed
  /\ Fresh(r2) /\ r2.todo \in {<<>>, Tail(r.todo)}

Lapsed(r) == [r EXCEPT !.lapsed = TRUE]

(* r2 is job r when its step x has failed.                                 *)
GivenUp(r, r2, x) ==
  \/ Lost(r, r2)
  \/ /\ Swallowed(r.cmd.op, x)
     /\ \E S : /\ Onward(Lapsed(r), r2, S)
               /\ "up" \notin S /\ \A y \in S : Belongs(r.cmd.op, y)
               /\ S = {x} \/ r.cmd.op = "redeploy"

Active(r) == DOMAIN r = Fields /\ Short(r.seen) /\ r.cmd \in Commands /\ Working(r)

(* A job with droplets or steps left is at a droplet. *)
LEMMA AtWork ==
  ASSUME NEW r, Sane(r), r.todo # <<>> \/ r.steps # <<>>
  PROVE  Active(r)
BY DEF Sane, Idle, Active

(* The step a job is at keeps the rules of its plan. *)
LEMMA StepRules ==
  ASSUME NEW r, Active(r)
  PROVE  /\ Head(r.todo) \in Droplets /\ Head(r.todo) \in Elements(r.todo)
         /\ Head(r.todo) \in Elements(r.cmd.droplets)
         /\ Whole(r) \in Seq(Names) /\ Len(Whole(r)) \in Nat /\ Len(r.steps) \in Nat
         /\ Len(r.steps) > 0 /\ Len(r.steps) <= Len(Whole(r))
         /\ Head(r.steps) = r.steps[1] /\ Head(r.steps) = Whole(r)[Passed(r) + 1]
         /\ Rules(r.cmd, Head(r.steps), Past(r))
         /\ \A y \in Past(r) : Belongs(r.cmd.op, y)
<1>1. r.todo \in Seq(Droplets) /\ r.todo # <<>> /\ r.steps \in Seq(Names) /\ r.steps # <<>>
  BY DEF Active, Working
<1>2. Len(r.todo) \in Nat /\ Len(r.todo) > 0 /\ Head(r.todo) = r.todo[1]
  BY <1>1
<1>3. Head(r.todo) \in Droplets /\ Head(r.todo) \in Elements(r.todo)
  BY <1>1, <1>2 DEF Elements
<1>4. Len(r.steps) \in Nat /\ Len(r.steps) > 0 /\ Head(r.steps) = r.steps[1]
  BY <1>1
<1>5. Good(r.cmd, Whole(r))
  BY Plans DEF Active, Whole
<1>6. Whole(r) \in Seq(Names) /\ Len(Whole(r)) \in Nat
  BY <1>5 DEF Good
<1>7. /\ Len(r.steps) <= Len(Whole(r))
      /\ \A i \in 1..Len(r.steps) : r.steps[i] = Whole(r)[Passed(r) + i]
      /\ Elements(r.todo) \subseteq Elements(r.cmd.droplets)
  BY DEF Active, Working
<1>8. Passed(r) + 1 \in 1..Len(Whole(r)) /\ r.steps[1] = Whole(r)[Passed(r) + 1]
  <2>1. 1 \in 1..Len(r.steps)
    BY <1>4
  <2>2. r.steps[1] = Whole(r)[Passed(r) + 1]
    BY <1>7, <2>1
  <2>3. Passed(r) = Len(Whole(r)) - Len(r.steps)
    BY DEF Passed
  <2>4. Passed(r) + 1 \in 1..Len(Whole(r))
    BY <1>4, <1>6, <1>7, <2>3
  <2> QED BY <2>2, <2>4
<1>9. Rules(r.cmd, Whole(r)[Passed(r) + 1], Past(r))
  BY <1>5, <1>8 DEF Good, Past
<1>10. \A y \in Past(r) : Belongs(r.cmd.op, y)
  <2> SUFFICES ASSUME NEW i \in 1..Passed(r) PROVE Belongs(r.cmd.op, Whole(r)[i])
    <3>1. Past(r) = {Whole(r)[i] : i \in 1..Passed(r)}
      <4>1. \A k \in Int : (k + 1) - 1 = k
        OBVIOUS
      <4>2. Passed(r) \in Int
        BY <1>4, <1>6 DEF Passed
      <4> QED BY <4>1, <4>2 DEF Past, Before
    <3> QED BY <3>1
  <2>1. i \in 1..Len(Whole(r))
    BY <1>4, <1>6 DEF Passed
  <2> QED BY <1>5, <2>1 DEF Good, Rules
<1> QED BY <1>3, <1>4, <1>6, <1>7, <1>8, <1>9, <1>10

(* Entering a droplet. *)
LEMMA Entered ==
  ASSUME NEW r, DOMAIN r = Fields, Short(r.seen), r.cmd \in Commands,
         r.todo \in Seq(Droplets), Len(r.todo) <= Len(r.cmd.droplets),
         Elements(r.todo) \subseteq Elements(r.cmd.droplets), NEW r2, r2 = Enter(r)
  PROVE  /\ Sane(r2) /\ Fresh(r2)
         /\ r2.cmd = r.cmd /\ r2.todo = r.todo /\ r2.failed = r.failed /\ r2.lapsed = r.lapsed
<1>1. CASE r.todo = <<>>
  <2>1. /\ DOMAIN r2 = Fields /\ r2.cmd = r.cmd /\ r2.todo = r.todo /\ r2.failed = r.failed
        /\ r2.lapsed = r.lapsed /\ r2.seen = r.seen /\ r2.steps = <<>>
    BY <1>1 DEF Enter, Fields
  <2> QED BY <1>1, <2>1 DEF Sane, Fresh
<1>2. CASE r.todo # <<>>
  <2>1. /\ DOMAIN r2 = Fields /\ r2.cmd = r.cmd /\ r2.todo = r.todo /\ r2.failed = r.failed
        /\ r2.lapsed = r.lapsed /\ r2.seen = <<>> /\ r2.steps = Plan(r.cmd, Head(r.todo))
        /\ r2.tag = r.cmd.tag
    BY <1>2 DEF Enter, Fields
  <2>2. Whole(r2) = r2.steps
    BY <2>1 DEF Whole
  <2>3. r2.steps \in Seq(Names) /\ r2.steps # <<>> /\ Len(r2.steps) \in Nat
    <3>1. Good(r.cmd, r2.steps) /\ r2.steps # <<>>
      BY <2>1, Plans
    <3> QED BY <3>1 DEF Good
  <2>4. Passed(r2) = 0
    BY <2>2, <2>3 DEF Passed
  <2>5. Past(r2) = {}
    BY <2>4 DEF Past, Before
  <2>6. Short(r2.seen)
    <3>1. Len(<<>>) = 0
      OBVIOUS
    <3> QED BY <2>1, <3>1, DeployAssumption DEF Short, Distinct
  <2>7. Working(r2)
    BY <1>2, <2>1, <2>2, <2>3, <2>4, <2>5 DEF Working
  <2> QED BY <2>1, <2>5, <2>6, <2>7 DEF Sane, Fresh
<1> QED BY <1>1, <1>2

(* What is left when a job leaves a droplet. *)
LEMMA Leaving ==
  ASSUME NEW r, Active(r)
  PROVE  /\ Tail(r.todo) \in Seq(Droplets) /\ Len(Tail(r.todo)) <= Len(r.cmd.droplets)
         /\ Elements(Tail(r.todo)) \subseteq Elements(r.cmd.droplets)
         /\ Elements(r.todo) \subseteq Elements(Tail(r.todo)) \cup {Head(r.todo)}
<1>1. /\ r.todo \in Seq(Droplets) /\ r.todo # <<>> /\ Len(r.todo) <= Len(r.cmd.droplets)
      /\ Elements(r.todo) \subseteq Elements(r.cmd.droplets)
  BY DEF Active, Working
<1>2. Len(r.cmd.droplets) \in Nat
  BY CommandFacts DEF Active
<1>3. /\ Tail(r.todo) \in Seq(Droplets) /\ Len(Tail(r.todo)) = Len(r.todo) - 1
      /\ Len(r.todo) \in Nat /\ Len(r.todo) > 0 /\ Head(r.todo) = r.todo[1]
      /\ \A i \in 1..Len(r.todo) - 1 : Tail(r.todo)[i] = r.todo[i + 1]
  BY <1>1
<1>4. Elements(Tail(r.todo)) \subseteq Elements(r.todo)
  BY <1>3 DEF Elements
<1>5. Elements(r.todo) \subseteq Elements(Tail(r.todo)) \cup {Head(r.todo)}
  <2> SUFFICES ASSUME NEW i \in 1..Len(r.todo), i # 1
               PROVE  r.todo[i] \in Elements(Tail(r.todo))
    BY <1>3 DEF Elements
  <2>1. i - 1 \in 1..Len(r.todo) - 1 /\ Tail(r.todo)[i - 1] = r.todo[i]
    BY <1>3
  <2> QED BY <1>3, <2>1 DEF Elements
<1> QED BY <1>1, <1>2, <1>3, <1>4, <1>5

(* The tail of a sequence that has more than one element. *)
LEMMA LongTail ==
  ASSUME NEW T, NEW s \in Seq(T), Len(s) > 1
  PROVE  /\ Tail(s) \in Seq(T) /\ Len(Tail(s)) = Len(s) - 1 /\ Tail(s) # <<>>
         /\ \A i \in 1..Len(s) - 1 : Tail(s)[i] = s[i + 1]
<1>1. /\ Tail(s) \in Seq(T) /\ Len(Tail(s)) = Len(s) - 1 /\ Len(s) \in Nat
      /\ \A i \in 1..Len(s) - 1 : Tail(s)[i] = s[i + 1]
  OBVIOUS
<1>2. Len(Tail(s)) # 0
  BY <1>1
<1>3. Len(<<>>) = 0
  OBVIOUS
<1> QED BY <1>1, <1>2, <1>3

(* The next step on a droplet. *)
LEMMA StepOn ==
  ASSUME NEW r, Active(r), Len(r.steps) > 1, NEW r2, r2 = [r EXCEPT !.steps = Tail(@)],
         Head(r.steps) = "pick" => r.tag \in Versions,
         Head(r.steps) = "given" => r.cmd.pair # NoPair
  PROVE  /\ Sane(r2) /\ Active(r2)
         /\ r2.cmd = r.cmd /\ r2.failed = r.failed /\ r2.lapsed = r.lapsed
         /\ r2.todo = r.todo /\ r2.tag = r.tag /\ r2.seen = r.seen
         /\ Past(r2) = Past(r) \cup {Head(r.steps)}
<1> DEFINE x == Head(r.steps)
           W == Whole(r)
           n == Passed(r)
<1>1. /\ W \in Seq(Names) /\ Len(W) \in Nat /\ Len(r.steps) \in Nat /\ Len(r.steps) > 0
      /\ Len(r.steps) <= Len(W) /\ x = W[n + 1] /\ n = Len(W) - Len(r.steps)
  BY StepRules DEF Passed
<1>2. /\ DOMAIN r = Fields /\ Short(r.seen) /\ r.cmd \in Commands /\ Working(r)
  BY DEF Active
<1>3. Past(r) = Before(W, n + 1)
  BY DEF Past
<1>4. "given" \in Past(r) \cup {x} => r.cmd.pair # NoPair
  BY <1>2 DEF Working
<1>5. Len(r.steps) > 1
  OBVIOUS
<1>6. Sane(r2) /\ Active(r2) /\ Past(r2) = Past(r) \cup {x}
  <2>1. /\ DOMAIN r2 = Fields /\ r2.cmd = r.cmd /\ r2.todo = r.todo /\ r2.failed = r.failed
        /\ r2.lapsed = r.lapsed /\ r2.seen = r.seen /\ r2.steps = Tail(r.steps)
        /\ r2.tag = r.tag
    BY <1>2, <1>5 DEF Fields
  <2>2. r.steps \in Seq(Names)
    BY <1>2 DEF Working
  <2>3. /\ Tail(r.steps) \in Seq(Names) /\ Len(Tail(r.steps)) = Len(r.steps) - 1
        /\ Tail(r.steps) # <<>>
        /\ \A i \in 1..Len(r.steps) - 1 : Tail(r.steps)[i] = r.steps[i + 1]
    BY <1>5, <2>2, LongTail
  <2>4. Whole(r2) = W
    BY <2>1 DEF Whole
  <2>5. Passed(r2) = n + 1
    <3>1. Passed(r2) = Len(W) - Len(r2.steps) /\ Len(r2.steps) = Len(r.steps) - 1
      BY <2>1, <2>3, <2>4 DEF Passed
    <3>2. \A k, l \in Nat : k - (l - 1) = (k - l) + 1
      OBVIOUS
    <3> HIDE DEF W, n
    <3> QED BY <1>1, <3>1, <3>2, Zenon
  <2>6. Past(r2) = Past(r) \cup {x}
    <3>1. Past(r2) = Before(W, n + 2)
      BY <1>1, <2>4, <2>5 DEF Past
    <3> HIDE DEF W, n, x
    <3>2. n \in Nat
      BY <1>1
    <3>3. Before(W, n + 2) = {W[i] : i \in 1..n + 1}
      BY <3>2 DEF Before
    <3>4. Before(W, n + 1) = {W[i] : i \in 1..n}
      BY <3>2 DEF Before
    <3>5. x = W[n + 1]
      BY <1>1
    <3> QED BY <1>3, <3>1, <3>2, <3>3, <3>4, <3>5
  <2>7. \A i \in 1..Len(r2.steps) : r2.steps[i] = Whole(r2)[Passed(r2) + i]
    <3>1. \A i \in 1..Len(r.steps) : r.steps[i] = W[n + i]
      BY <1>2 DEF Working
    <3> HIDE DEF W, n, x
    <3> SUFFICES ASSUME NEW i \in 1..Len(r2.steps)
                 PROVE  r2.steps[i] = W[n + 1 + i]
      BY <2>4, <2>5
    <3>2. i + 1 \in 1..Len(r.steps) /\ i \in 1..Len(r.steps) - 1
      BY <1>1, <2>1, <2>3
    <3>3. r2.steps[i] = W[n + (i + 1)]
      BY <2>1, <2>3, <3>1, <3>2
    <3>4. n \in Int
      BY <1>1
    <3> QED BY <3>3, <3>4
  <2>8. Working(r2)
    <3>1. Len(r2.steps) <= Len(Whole(r2))
      BY <1>1, <2>1, <2>3, <2>4
    <3>2. "pick" \in Past(r2) => r2.tag \in Versions
      BY <1>2, <2>1, <2>6 DEF Working
    <3>3. "given" \in Past(r2) => r2.cmd.pair # NoPair
      BY <1>4, <2>1, <2>6
    <3> QED BY <1>2, <2>1, <2>3, <2>7, <3>1, <3>2, <3>3 DEF Working
  <2> QED BY <1>2, <2>1, <2>6, <2>8 DEF Sane, Active
<1>7. /\ r2.cmd = r.cmd /\ r2.failed = r.failed /\ r2.lapsed = r.lapsed
      /\ r2.todo = r.todo /\ r2.tag = r.tag /\ r2.seen = r.seen
  BY <1>2 DEF Fields
<1> QED BY <1>6, <1>7

(* The next step. *)
LEMMA MoveOn ==
  ASSUME NEW r, Active(r), NEW r2, r2 = NextStep(r),
         Head(r.steps) = "pick" => r.tag \in Versions,
         Head(r.steps) = "given" => r.cmd.pair # NoPair
  PROVE  Onward(r, r2, {Head(r.steps)})
<1> DEFINE x == Head(r.steps)
           W == Whole(r)
           n == Passed(r)
<1>1. /\ W \in Seq(Names) /\ Len(W) \in Nat /\ Len(r.steps) \in Nat /\ Len(r.steps) > 0
      /\ Len(r.steps) <= Len(W) /\ x = W[n + 1] /\ n = Len(W) - Len(r.steps)
  BY StepRules DEF Passed
<1>2. /\ DOMAIN r = Fields /\ Short(r.seen) /\ r.cmd \in Commands /\ Working(r)
  BY DEF Active
<1>3. Past(r) = Before(W, n + 1)
  BY DEF Past
<1>4. "given" \in Past(r) \cup {x} => r.cmd.pair # NoPair
  BY <1>2 DEF Working
<1>5. CASE Len(r.steps) > 1
  <2>1. r2 = [r EXCEPT !.steps = Tail(@)]
    BY <1>5 DEF NextStep
  <2>2. /\ Sane(r2) /\ r2.cmd = r.cmd /\ r2.failed = r.failed /\ r2.lapsed = r.lapsed
        /\ r2.todo = r.todo /\ r2.tag = r.tag /\ r2.seen = r.seen
        /\ Past(r2) = Past(r) \cup {Head(r.steps)}
    BY <1>5, <2>1, StepOn
  <2>3. "given" \in Past(r) \cup {Head(r.steps)} => r.cmd.pair # NoPair
    BY <1>4
  <2> QED BY <2>2, <2>3 DEF Onward
<1>6. CASE Len(r.steps) = 1
  <2> DEFINE t == [r EXCEPT !.todo = Tail(@)]
  <2>1. /\ DOMAIN t = Fields /\ t.cmd = r.cmd /\ t.todo = Tail(r.todo) /\ t.failed = r.failed
        /\ t.lapsed = r.lapsed /\ t.seen = r.seen
    BY <1>2 DEF Fields
  <2>2. r2 = Enter(t)
    BY <1>6 DEF NextStep
  <2> HIDE DEF t
  <2>3. /\ Sane(r2) /\ Fresh(r2) /\ r2.cmd = r.cmd /\ r2.todo = Tail(r.todo)
        /\ r2.failed = r.failed /\ r2.lapsed = r.lapsed
    <3>1. /\ t.todo \in Seq(Droplets) /\ Len(t.todo) <= Len(t.cmd.droplets)
          /\ Elements(t.todo) \subseteq Elements(t.cmd.droplets)
      BY <2>1, Leaving
    <3>2. Short(t.seen) /\ t.cmd \in Commands
      BY <1>2, <2>1
    <3>3. /\ Sane(r2) /\ Fresh(r2)
         /\ r2.cmd = t.cmd /\ r2.todo = t.todo /\ r2.failed = t.failed /\ r2.lapsed = t.lapsed
      BY <2>1, <2>2, <3>1, <3>2, Entered
    <3> QED BY <2>1, <3>3
  <2>4. Elements(W) = Past(r) \cup {x} /\ x = W[Len(W)]
    <3> HIDE DEF W, n, x
    <3> QED BY <1>1, <1>3, <1>6 DEF Elements, Before
  <2>5. r.cmd.op = "redeploy" => x = "up"
    BY <1>2, <2>4, Plans DEF EndsWith, Whole
  <2>6. "given" \in Past(r) \cup {Head(r.steps)} => r.cmd.pair # NoPair
    BY <1>4
  <2>7. Elements(Whole(r)) = Past(r) \cup {Head(r.steps)}
    BY <2>4
  <2>8. r.cmd.op = "redeploy" => "up" \in {Head(r.steps)}
    BY <2>5
  <2> HIDE DEF W, n, x
  <2> QED BY <2>3, <2>6, <2>7, <2>8, Zenon DEF Onward
<1>7. Len(r.steps) > 1 \/ Len(r.steps) = 1
  <2>1. \A k \in Nat : k > 0 => k > 1 \/ k = 1
    OBVIOUS
  <2> QED BY <1>1, <2>1, Zenon
<1> QED BY <1>5, <1>6, <1>7, Zenon

(* A step that raises. *)
LEMMA Raises ==
  ASSUME NEW r, Active(r), NEW r2, r2 = Raise(r)
  PROVE  Lost(r, r2)
<1> DEFINE t == [r EXCEPT !.failed = TRUE, !.todo = IF GoesOn(r.cmd.op) THEN Tail(@) ELSE <<>>]
<1>1. DOMAIN r = Fields /\ Short(r.seen) /\ r.cmd \in Commands
  BY DEF Active
<1>2. /\ DOMAIN t = Fields /\ t.cmd = r.cmd /\ t.seen = r.seen /\ t.failed = TRUE
      /\ t.todo = IF GoesOn(r.cmd.op) THEN Tail(r.todo) ELSE <<>>
  BY <1>1 DEF Fields
<1>3. r2 = Enter(t)
  BY DEF Raise
<1> HIDE DEF t
<1>4. /\ t.todo \in Seq(Droplets) /\ Len(t.todo) <= Len(t.cmd.droplets)
      /\ Elements(t.todo) \subseteq Elements(t.cmd.droplets)
      /\ t.todo \in {<<>>, Tail(r.todo)}
  <2>1. CASE GoesOn(r.cmd.op)
    BY <1>2, <2>1, Leaving
  <2>2. CASE ~GoesOn(r.cmd.op)
    <3>1. <<>> \in Seq(Droplets) /\ Len(<<>>) = 0
      OBVIOUS
    <3>2. Elements(<<>>) = {}
      BY <3>1 DEF Elements
    <3>3. Len(r.cmd.droplets) \in Nat
      BY <1>1, CommandFacts
    <3> QED BY <1>2, <2>2, <3>1, <3>2, <3>3
  <2> QED BY <2>1, <2>2
<1>5. Short(t.seen) /\ t.cmd \in Commands
  BY <1>1, <1>2
<1>6. /\ Sane(r2) /\ Fresh(r2)
      /\ r2.cmd = t.cmd /\ r2.todo = t.todo /\ r2.failed = t.failed
  BY <1>2, <1>3, <1>4, <1>5, Entered
<1> QED BY <1>2, <1>4, <1>6 DEF Lost

(* A step whose failure is passed over. *)
LEMMA Lapses ==
  ASSUME NEW r, Active(r), Swallowed(r.cmd.op, Head(r.steps)), NEW r2, r2 = Lapse(r)
  PROVE  GivenUp(r, r2, Head(r.steps))
<1> DEFINE x == Head(r.steps)
           w == Lapsed(r)
<1>1. DOMAIN r = Fields /\ Short(r.seen) /\ r.cmd \in Commands /\ Working(r)
  BY DEF Active
<1>2. /\ DOMAIN w = Fields /\ w.cmd = r.cmd /\ w.todo = r.todo /\ w.steps = r.steps
      /\ w.tag = r.tag /\ w.seen = r.seen
  BY <1>1 DEF Fields, Lapsed
<1>3. Whole(w) = Whole(r) /\ Passed(w) = Passed(r) /\ Past(w) = Past(r)
  BY <1>2 DEF Whole, Passed, Past
<1>4. Active(w)
  <2> HIDE DEF w
  <2> QED BY <1>1, <1>2, <1>3 DEF Active, Working
<1>5. Rules(r.cmd, x, Past(r))
  BY StepRules
<1>6. r.cmd.op \in {"deploy", "rollback", "redeploy"} /\ x \notin {"up", "check", "pick", "given"}
  BY <1>5 DEF Swallowed, Rules, Belongs
<1>7. CASE ~(r.cmd.op = "redeploy" /\ x = "build")
  <2>1. r2 = NextStep(w)
    BY <1>7 DEF Lapse, Lapsed
  <2> HIDE DEF w
  <2>2. Onward(w, r2, {x})
    BY <1>2, <1>4, <1>6, <2>1, MoveOn
  <2>3. "up" \notin {x} /\ \A y \in {x} : Belongs(r.cmd.op, y)
    BY <1>5, <1>6 DEF Rules
  <2> QED BY <2>2, <2>3 DEF GivenUp, w
<1>8. CASE r.cmd.op = "redeploy" /\ x = "build"
  <2> DEFINE v == [w EXCEPT !.steps = Tail(@)]
             y == Head(v.steps)
  <2>1. r2 = NextStep(v)
    BY <1>8 DEF Lapse, Lapsed
  <2> HIDE DEF w
  <2>2. Len(w.steps) > 1
    <3>1. Len(w.steps) \in Nat /\ Len(w.steps) > 0
      BY <1>4, StepRules
    <3>2. \A k \in Nat : k > 0 => k > 1 \/ k = 1
      OBVIOUS
    <3>3. ASSUME Len(w.steps) = 1 PROVE FALSE
      <4>1. x = Whole(r)[Passed(r) + 1] /\ Len(Whole(r)) \in Nat
        BY StepRules
      <4>2. Passed(r) + 1 = Len(Whole(r))
        <5>1. Passed(r) = Len(Whole(r)) - 1
          BY <1>2, <3>3 DEF Passed
        <5>2. \A k \in Nat : (k - 1) + 1 = k
          OBVIOUS
        <5> QED BY <4>1, <5>1, <5>2, Zenon
      <4>3. Whole(r)[Len(Whole(r))] = "up"
        BY <1>1, <1>8, Plans DEF EndsWith, Whole
      <4> QED BY <1>6, <4>1, <4>2, <4>3
    <3> QED BY <3>1, <3>2, <3>3, Zenon
  <2>3. /\ Active(v) /\ v.cmd = w.cmd /\ v.failed = w.failed /\ v.lapsed = w.lapsed
        /\ v.todo = w.todo /\ v.tag = w.tag /\ v.seen = w.seen
        /\ Past(v) = Past(w) \cup {Head(w.steps)}
    <3> HIDE DEF x
    <3>1. Head(w.steps) \notin {"pick", "given"}
      BY <1>2, <1>6 DEF x
    <3>2. PICK v2 : v2 = v
      OBVIOUS
    <3>3. /\ Active(v2) /\ v2.cmd = w.cmd /\ v2.failed = w.failed /\ v2.lapsed = w.lapsed
          /\ v2.todo = w.todo /\ v2.tag = w.tag /\ v2.seen = w.seen
          /\ Past(v2) = Past(w) \cup {Head(w.steps)}
      BY <1>4, <2>2, <3>1, <3>2, StepOn
    <3> QED BY <3>2, <3>3
  <2> HIDE DEF v
  <2>4. Past(v) = Past(r) \cup {x} /\ Whole(v) = Whole(w)
    BY <1>2, <1>3, <2>3 DEF Whole
  <2>5. Rules(v.cmd, y, Past(v))
    BY <2>3, StepRules
  <2>6. y \notin {"up", "check", "pick", "given"}
    <3>1. "pull" \notin Past(r)
      BY <1>5, <1>8 DEF Rules
    <3>2. "pull" \notin Past(v)
      BY <1>8, <2>4, <3>1
    <3> QED BY <1>2, <1>8, <2>3, <2>5, <3>2 DEF Rules, Belongs
  <2>7. Onward(v, r2, {y})
    BY <2>1, <2>3, <2>6, MoveOn
  <2>8. Onward(w, r2, {x, y})
    <3>1. Past(v) \cup {y} = Past(w) \cup {x, y}
      BY <1>3, <2>4
    <3> HIDE DEF x, y
    <3>2. "given" \in Past(w) \cup {x, y} => w.cmd.pair # NoPair
      BY <2>3, <2>7, <3>1 DEF Onward
    <3>3. r2.cmd = w.cmd /\ r2.failed = w.failed /\ r2.lapsed = w.lapsed /\ Sane(r2)
      BY <2>3, <2>7 DEF Onward
    <3>4. CASE r2.todo = v.todo /\ r2.tag = v.tag /\ r2.seen = v.seen /\ Past(r2) = Past(v) \cup {y}
      BY <2>3, <3>1, <3>2, <3>3, <3>4 DEF Onward
    <3>5. CASE /\ r2.todo = Tail(v.todo) /\ Elements(Whole(v)) = Past(v) \cup {y}
               /\ Fresh(r2)
               /\ v.cmd.op = "redeploy" => "up" \in {y}
      <4>1. FALSE
        BY <1>2, <1>8, <2>3, <2>6, <3>5 DEF y
      <4> QED BY <4>1
    <3> QED BY <2>7, <3>4, <3>5, Zenon DEF Onward
  <2>9. "up" \notin {x, y} /\ \A z \in {x, y} : Belongs(r.cmd.op, z)
    BY <1>2, <1>5, <1>6, <2>3, <2>5, <2>6 DEF Rules
  <2> QED BY <1>8, <2>8, <2>9, Zenon DEF GivenUp, w
<1> QED BY <1>7, <1>8

(* A step that fails, one way or the other. *)
LEMMA Fails ==
  ASSUME NEW r, Active(r), NEW r2 \in AfterFailure(r)
  PROVE  GivenUp(r, r2, Head(r.steps))
<1>1. CASE Swallowed(r.cmd.op, Head(r.steps)) /\ r2 = Lapse(r)
  BY <1>1, Lapses
<1>2. CASE r2 = Raise(r)
  BY <1>2, Raises DEF GivenUp
<1> QED BY <1>1, <1>2 DEF AfterFailure

(* A remote command that took effect: its answer arrives, or is lost. *)
LEMMA Answered ==
  ASSUME NEW j \in Jobs, NEW r, r = job[j], Active(r), Head(r.steps) \notin {"pick", "given"},
         Done(j)
  PROVE  \E r2 : /\ job' = [job EXCEPT ![j] = r2]
                 /\ Onward(r, r2, {Head(r.steps)}) \/ GivenUp(r, r2, Head(r.steps))
<1>1. CASE Become(j, NextStep(r))
  <2> DEFINE r2 == NextStep(r)
  <2>1. Onward(r, r2, {Head(r.steps)})
    BY MoveOn
  <2> QED BY <1>1, <2>1 DEF Become
<1>2. ASSUME NEW r2 \in AfterFailure(r), Become(j, r2)
      PROVE  \E s2 : /\ job' = [job EXCEPT ![j] = s2]
                     /\ Onward(r, s2, {Head(r.steps)}) \/ GivenUp(r, s2, Head(r.steps))
  <2>1. GivenUp(r, r2, Head(r.steps))
    BY Fails
  <2> QED BY <1>2, <2>1 DEF Become
<1> QED BY <1>1, <1>2 DEF Done

-------------------------------------------------------------------------------
(* What a step of a job leaves of the invariant. *)

Kept(r, r2) ==
  /\ \A d : Guilty(r, d) => Guilty(r2, d)
  /\ Tampering(r) => Tampering(r2)

(* r1 is job r with another tag or history, or with a failure passed over. *)
Alike(r, r1) ==
  /\ Active(r1) /\ r1.cmd = r.cmd /\ r1.todo = r.todo /\ r1.failed = r.failed
  /\ r.lapsed => r1.lapsed
  /\ Past(r1) = Past(r)

(* A job is like itself.                                                   *)
LEMMA AlikeItself ==
  ASSUME NEW r, Active(r)
  PROVE  Alike(r, r)
BY DEF Alike

(* A job that passes over a failure is like the job before it.             *)
LEMMA AlikeLapsed ==
  ASSUME NEW r, Active(r)
  PROVE  /\ Alike(r, Lapsed(r))
         /\ Lapsed(r).lapsed = TRUE /\ Lapsed(r).tag = r.tag /\ Lapsed(r).seen = r.seen
<1> DEFINE w == Lapsed(r)
<1>1. DOMAIN r = Fields /\ Short(r.seen) /\ r.cmd \in Commands /\ Working(r)
  BY DEF Active
<1>2. /\ DOMAIN w = Fields /\ w.cmd = r.cmd /\ w.todo = r.todo /\ w.steps = r.steps
      /\ w.tag = r.tag /\ w.seen = r.seen /\ w.failed = r.failed /\ w.lapsed = TRUE
  BY <1>1 DEF Fields, Lapsed
<1> HIDE DEF w
<1>3. Whole(w) = Whole(r) /\ Passed(w) = Passed(r) /\ Past(w) = Past(r)
  BY <1>2 DEF Whole, Passed, Past
<1>4. Active(w)
  BY <1>1, <1>2, <1>3 DEF Active, Working
<1> QED BY <1>2, <1>3, <1>4 DEF Alike, w

(* A job that goes on is as guilty as before, unless it brought the        *)
(* containers up or checked the certificates.                              *)
LEMMA KeptOnward ==
  ASSUME NEW r, NEW r1, Alike(r, r1), NEW r2, NEW S, Onward(r1, r2, S)
  PROVE  /\ "up" \notin S => \A d : Guilty(r, d) => Guilty(r2, d)
         /\ \A d : d # Head(r.todo) /\ Guilty(r, d) => Guilty(r2, d)
         /\ "check" \notin S => (Tampering(r) => Tampering(r2))
<1>1. /\ r2.cmd = r.cmd /\ r2.failed = r.failed /\ r1.todo = r.todo /\ Past(r1) = Past(r)
      /\ r.cmd \in Commands
  BY DEF Alike, Onward, Active
<1>2. CASE r2.todo = r1.todo /\ Past(r2) = Past(r1) \cup S
  BY <1>1, <1>2 DEF Guilty, Tampering
<1>3. CASE /\ r2.todo = Tail(r1.todo) /\ Elements(Whole(r1)) = Past(r1) \cup S
           /\ r1.cmd.op = "redeploy" => "up" \in S
  <2>1. r.cmd.op = "redeploy" => "up" \in S
    BY <1>3 DEF Alike
  <2>2. ASSUME Tampering(r), "check" \notin S PROVE Tampering(r2)
    <3>1. r.cmd.op = "ssl"
      BY <2>2 DEF Tampering
    <3>2. Whole(r1) = Plan(r.cmd, Head(r1.todo))
      BY DEF Whole, Alike
    <3>3. "check" \in Elements(Whole(r1))
      BY <1>1, <3>1, <3>2, Plans DEF Has
    <3>4. "check" \in Past(r)
      BY <1>1, <1>3, <2>2, <3>3
    <3> QED BY <1>1, <2>2, <3>4 DEF Tampering
  <2>3. ASSUME NEW d, Guilty(r, d), "up" \notin S \/ d # Head(r.todo) PROVE Guilty(r2, d)
    BY <1>1, <2>1, <2>3 DEF Guilty
  <2> QED BY <2>2, <2>3
<1> QED BY <1>2, <1>3 DEF Onward

(* A job that fails is to blame for what it was to blame for before.       *)
LEMMA KeptLost ==
  ASSUME NEW r, NEW r2, Lost(r, r2)
  PROVE  Kept(r, r2)
BY DEF Lost, Kept, Guilty, Tampering

(* So is one that is refused or not answered, be it raised or passed over:  *)
(* a step that is swallowed is neither the "up" of a redeploy nor the      *)
(* "check" of a setup.                                                     *)
LEMMA KeptGivenUp ==
  ASSUME NEW r, Active(r), NEW r2, NEW x, GivenUp(r, r2, x)
  PROVE  Kept(r, r2)
<1>1. CASE Lost(r, r2)
  BY <1>1, KeptLost
<1>2. ASSUME NEW S, Onward(Lapsed(r), r2, S), "up" \notin S, Swallowed(r.cmd.op, x),
             \A y \in S : Belongs(r.cmd.op, y)
      PROVE  Kept(r, r2)
  <2>1. PICK w : w = Lapsed(r)
    OBVIOUS
  <2>2. Alike(r, w)
    BY <2>1, AlikeLapsed
  <2>3. Onward(w, r2, S)
    BY <1>2, <2>1
  <2>4. "check" \notin S
    BY <1>2 DEF Swallowed, Belongs
  <2> QED BY <1>2, <2>2, <2>3, <2>4, KeptOnward DEF Kept
<1> QED BY <1>1, <1>2 DEF GivenUp

(* A step that stops nothing and writes no certificate changes no blame. *)
LEMMA Quiet ==
  ASSUME Blamed, NEW j \in Jobs, job = [k \in Jobs |-> job[k]], NEW r2,
         job' = [job EXCEPT ![j] = r2], Kept(job[j], r2),
         running' = running, nginx' = nginx, files' = files
  PROVE  Blamed'
<1>1. \A k \in Jobs : job'[k] = IF k = j THEN r2 ELSE job[k]
  OBVIOUS
<1>2. \A k \in Jobs : \A d : Guilty(job[k], d) => Guilty(job'[k], d)
  BY <1>1 DEF Kept
<1>3. \A k \in Jobs : Tampering(job[k]) => Tampering(job'[k])
  BY <1>1 DEF Kept
<1>4. Loaded' = Loaded
  BY DEF Loaded
<1>5. \A k \in Jobs : \A d : Guilty(job[k], d)' <=> Guilty(job'[k], d)
  BY DEF Guilty
<1>6. \A k \in Jobs : Tampering(job[k])' <=> Tampering(job'[k])
  BY DEF Tampering, Past, Whole, Passed
<1>7. \A d \in Droplets : running'[d] = Down => \E k \in Jobs : Guilty(job'[k], d)
  BY <1>2 DEF Blamed
<1>8. Loaded' = NoPair => \E k \in Jobs : Tampering(job'[k])
  BY <1>3, <1>4 DEF Blamed
<1>9. nginx' = NoPair => \/ \E d \in OfRole("edge") : running'[d] = Down
                         \/ \E k \in Jobs : Tampering(job'[k])
  BY <1>3 DEF Blamed
<1> QED BY <1>5, <1>6, <1>7, <1>8, <1>9 DEF Blamed, Loaded, Down, OfRole

(* What a droplet is left with when the whole plan is behind the job. *)
LEMMA Held ==
  ASSUME NEW r, Active(r), \A x \in Elements(Whole(r)) : Leaves(r, x)',
         "given" \in Elements(Whole(r)) => r.cmd.pair # NoPair,
         NEW r2, r2.cmd = r.cmd, r2.lapsed = r.lapsed
  PROVE  Holds(r2, Head(r.todo))'
<1> DEFINE c == r.cmd
           d == Head(r.todo)
           W == Whole(r)
<1>1. Has(c, d, Elements(W)) /\ c \in Commands
  BY Plans DEF Active, Whole
<1>2. c.tag # (IF c.op = "rollback" THEN None ELSE Previous) /\ (c.tag # Previous => r.tag = c.tag)
  BY CommandFacts DEF Active, Working
<1>3. \A x \in Elements(W) : Leaves(r, x)'
  OBVIOUS
<1> HIDE DEF W
<1>4. CASE c.op = "deploy"
  <2>1. Leaves(r, "up")'
    BY <1>1, <1>3, <1>4 DEF Has
  <2>2. running'[d] # Down
    BY <2>1 DEF Leaves, Down
  <2>3. c.tag # None => running'[d][1] = c.tag /\ history'[d][1] = c.tag
    <3>1. c.tag # None => Leaves(r, "tag")' /\ Leaves(r, "save")'
      BY <1>1, <1>3, <1>4 DEF Has
    <3> QED BY <1>2, <1>4, <2>1, <3>1 DEF Leaves
  <2>4. ~r.lapsed /\ Role[d] # "platform" => running'[d][2] = c.code
    <3>1. Role[d] # "platform" => Leaves(r, "build")'
      BY <1>1, <1>3, <1>4 DEF Has
    <3> QED BY <1>4, <2>1, <3>1 DEF Leaves
  <2> QED BY <1>4, <2>2, <2>3, <2>4 DEF Holds, Down
<1>5. CASE c.op = "rollback"
  <2>1. Leaves(r, "up")' /\ Leaves(r, "tag")' /\ Leaves(r, "pull")' /\ Leaves(r, "save")'
    BY <1>1, <1>3, <1>5 DEF Has
  <2>2. running'[d] # Down
    BY <2>1 DEF Leaves, Down
  <2>3. running'[d][1] = history'[d][1] /\ running'[d][1] = running'[d][2]
    BY <1>5, <2>1 DEF Leaves
  <2> QED BY <1>5, <2>2, <2>3 DEF Holds, Down
<1>6. CASE c.op = "redeploy"
  <2>1. Leaves(r, "up")'
    BY <1>1, <1>3, <1>6 DEF Has
  <2> QED BY <1>6, <2>1 DEF Leaves, Holds, Down
<1>7. CASE c.op = "restart"
  <2>1. Leaves(r, "restart")'
    BY <1>1, <1>3, <1>7 DEF Has
  <2> QED BY <1>7, <2>1 DEF Leaves, Holds, Down
<1>8. CASE c.op = "down"
  <2>1. Leaves(r, "down")'
    BY <1>1, <1>3, <1>8 DEF Has
  <2> QED BY <1>8, <2>1 DEF Leaves, Holds, Down
<1>9. CASE c.op \in {"apply", "reset"}
  <2>1. Leaves(r, "upgrade")'
    BY <1>1, <1>3, <1>9 DEF Has
  <2> QED BY <1>9, <2>1 DEF Leaves, Holds, Down
<1>10. CASE c.op = "ssl"
  <2>1. Leaves(r, "reload")' /\ c.pair # NoPair
    BY <1>1, <1>3, <1>10 DEF Has, W
  <2> QED BY <1>10, <2>1 DEF Leaves, Holds, Down, Loaded
<1>11. CASE c.op = "downgrade"
  BY <1>11 DEF Holds
<1>12. c.op \in Operations
  BY <1>1, CommandFacts
<1> QED BY <1>4, <1>5, <1>6, <1>7, <1>8, <1>9, <1>10, <1>11, <1>12 DEF Operations

(* A command for one droplet is through with none while it works. *)
LEMMA NoneYet ==
  ASSUME NEW r, Active(r), r.cmd.op \in {"apply", "downgrade", "reset", "ssl"}
  PROVE  Through(r) = {}
<1>1. Len(r.cmd.droplets) = 1
  BY CommandFacts DEF Active
<1>2. Elements(r.cmd.droplets) = {r.cmd.droplets[1]}
  BY <1>1 DEF Elements
<1>3. Head(r.todo) \in Elements(r.todo) /\ Head(r.todo) \in Elements(r.cmd.droplets)
  BY StepRules
<1> QED BY <1>2, <1>3 DEF Through

(* What a step has left does not depend on what the job has read since, and *)
(* less is claimed once a failure has been passed over.                    *)
LEMMA StillLeft ==
  ASSUME NEW r, NEW w, w.cmd = r.cmd, w.todo = r.todo, w.tag = r.tag, r.lapsed => w.lapsed,
         NEW y, Leaves(r, y)'
  PROVE  Leaves(w, y)'
BY DEF Leaves

(* A mark stays as long as nothing it speaks of changes; some steps leave  *)
(* none.                                                                   *)
LEMMA Undisturbed ==
  ASSUME NEW r, NEW y, y \in {"git", "read", "wipe", "given"} \/ Leaves(r, y),
         y = "sync" => source' = source,
         y = "tag" => override' = override,
         y = "up" \/ (y = "build" /\ r.cmd.op = "deploy") \/ (y = "pull" /\ r.cmd.op = "rollback")
           => override' = override /\ image' = image,
         y \in {"up", "restart", "down", "upgrade"} => running' = running,
         y = "up" => ran' = ran,
         y = "save" => history' = history,
         y = "upgrade" => schema' = schema,
         y \in {"cert", "key", "reload"} => files' = files,
         y = "reload" => nginx' = nginx
  PROVE  Leaves(r, y)'
<1>1. CASE y = "tag"
  BY <1>1 DEF Leaves
<1>2. CASE y = "sync"
  BY <1>2 DEF Leaves
<1>3. CASE y = "build"
  BY <1>3 DEF Leaves
<1>4. CASE y = "pull"
  BY <1>4 DEF Leaves
<1>5. CASE y = "up"
  BY <1>5 DEF Leaves, Down
<1>6. CASE y = "save"
  BY <1>6 DEF Leaves
<1>7. CASE y = "restart"
  BY <1>7 DEF Leaves, Down
<1>8. CASE y = "down"
  BY <1>8 DEF Leaves, Down
<1>9. CASE y = "upgrade"
  BY <1>9 DEF Leaves
<1>10. CASE y = "cert"
  BY <1>10 DEF Leaves
<1>11. CASE y = "key"
  BY <1>11 DEF Leaves
<1>12. CASE y = "check"
  BY <1>12 DEF Leaves
<1>13. CASE y = "reload"
  BY <1>13 DEF Leaves, Loaded
<1>14. CASE y \notin {"tag", "sync", "build", "pull", "up", "save", "restart", "down", "upgrade", "cert", "key", "check", "reload"}
  BY <1>14 DEF Leaves
<1> QED BY <1>1, <1>2, <1>3, <1>4, <1>5, <1>6, <1>7, <1>8, <1>9, <1>10, <1>11, <1>12, <1>13, <1>14

(* A job that goes on and leaves the droplets it is not at alone. *)
LEMMA SoloOnward ==
  ASSUME NEW j \in Jobs, job = [k \in Jobs |-> job[k]], Solo, ~overlapped,
         NEW r, r = job[j], Active(r), NEW r1, Alike(r, r1), NEW S, NEW r2, Onward(r1, r2, S),
         job' = [job EXCEPT ![j] = r2], UNCHANGED ghosts,
         \A x \in Past(r1) \cup S : Leaves(r1, x)',
         \A i \in 1..Len(r1.seen) : r1.seen[i] \in ran'[Head(r.todo)],
         \A d \in Droplets \ {Head(r.todo)} : running'[d] = running[d] /\ history'[d] = history[d],
         HistoryRan'
  PROVE  Solo'
<1>1. \A k \in Jobs : job'[k] = IF k = j THEN r2 ELSE job[k]
  OBVIOUS
<1>2. latest' = latest /\ overlapped' = overlapped
  BY DEF ghosts
<1>3. r.todo # <<>> /\ r.cmd \in Commands
  BY DEF Active, Working
<1>4. Underway = {j} /\ latest = {j}
  BY <1>3 DEF Solo, Underway
<1>5. Underway' \subseteq {j}
  BY <1>1, <1>4 DEF Underway
<1>6. /\ r2.cmd = r.cmd /\ r2.failed = r.failed /\ r2.lapsed = r1.lapsed
      /\ r.lapsed => r2.lapsed
      /\ r1.cmd = r.cmd /\ r1.todo = r.todo /\ Past(r1) = Past(r) /\ Active(r1)
  BY DEF Alike, Onward
<1>7. r2.todo # <<>> => /\ \A x \in Past(r2) : Leaves(r2, x)'
                        /\ \A i \in 1..Len(r2.seen) : r2.seen[i] \in ran'[Head(r2.todo)]
  <2>1. CASE /\ r2.todo = r1.todo /\ r2.tag = r1.tag /\ r2.seen = r1.seen
             /\ Past(r2) = Past(r1) \cup S
    <3>1. \A x \in Past(r2) : Leaves(r2, x)'
      <4> TAKE x \in Past(r2)
      <4>1. Leaves(r1, x)'
        BY <2>1
      <4>2. r2.cmd = r1.cmd /\ r2.todo = r1.todo /\ r2.tag = r1.tag /\ (r1.lapsed => r2.lapsed)
        BY <1>6, <2>1
      <4> QED BY <4>1, <4>2, StillLeft
    <3> QED BY <1>6, <2>1, <3>1
  <2>2. CASE Fresh(r2)
    <3>1. Len(<<>>) = 0
      OBVIOUS
    <3> QED BY <2>2, <3>1 DEF Fresh
  <2> QED BY <2>1, <2>2, Zenon DEF Onward
<1>8. InOrder(r2)' <=> /\ \A x \in Past(r2) : Leaves(r2, x)'
                       /\ \A i \in 1..Len(r2.seen) : r2.seen[i] \in ran'[Head(r2.todo)]
  BY DEF InOrder
<1>9. ASSUME ~r2.failed, NEW d \in Through(r2) PROVE Holds(r2, d)'
  <2>1. ASSUME d \in Through(r) PROVE Holds(r2, d)'
    <3>1. Holds(r, d)
      BY <1>4, <1>6, <1>9, <2>1 DEF Solo
    <3>2. d \in Droplets \ {Head(r.todo)}
      <4>1. Head(r.todo) \in Elements(r.todo)
        BY StepRules
      <4>2. r.cmd.droplets \in Seq(Droplets)
        BY <1>3, CommandFacts
      <4> QED BY <2>1, <4>1, <4>2 DEF Through, Elements
    <3>3. running'[d] = running[d] /\ history'[d] = history[d]
      BY <3>2
    <3>4. r.cmd.op \notin {"apply", "downgrade", "reset", "ssl"}
      BY <2>1, NoneYet
    <3> QED BY <1>6, <3>1, <3>3, <3>4 DEF Holds, Down
  <2>2. CASE r2.todo = r1.todo
    <3>1. Through(r2) = Through(r)
      BY <1>6, <2>2 DEF Through
    <3> QED BY <1>9, <2>1, <3>1
  <2>3. CASE r2.todo = Tail(r1.todo) /\ Elements(Whole(r1)) = Past(r1) \cup S
    <3>1. Elements(r.todo) \subseteq Elements(r2.todo) \cup {Head(r.todo)}
      BY <1>6, <2>3, Leaving
    <3>2. d \in Through(r) \/ d = Head(r.todo)
      BY <1>6, <1>9, <3>1 DEF Through
    <3>3. Holds(r2, Head(r1.todo))'
      <4>1. \A x \in Elements(Whole(r1)) : Leaves(r1, x)'
        BY <2>3
      <4>2. "given" \in Elements(Whole(r1)) => r1.cmd.pair # NoPair
        BY <2>3 DEF Onward
      <4>3. r2.cmd = r1.cmd /\ r2.lapsed = r1.lapsed
        BY <1>6
      <4> QED BY <1>6, <4>1, <4>2, <4>3, Held
    <3> QED BY <1>6, <2>1, <3>2, <3>3
  <2> QED BY <2>2, <2>3, Zenon DEF Onward
<1>10. ASSUME NEW q \in {job'[k] : k \in Underway'} PROVE InOrder(q)'
  <2>1. q = r2 /\ r2.todo # <<>>
    BY <1>1, <1>5, <1>10 DEF Underway
  <2> QED BY <1>7, <1>8, <2>1
<1>11. ASSUME NEW q \in {job'[k] : k \in latest'}
       PROVE  q.cmd \in Commands /\ (~q.failed => \A d \in Through(q) : Holds(q, d)')
  <2>1. q = r2
    BY <1>1, <1>2, <1>4, <1>11
  <2> QED BY <1>3, <1>6, <1>9, <2>1
<1> QED BY <1>2, <1>4, <1>5, <1>10, <1>11 DEF Solo

(* A job that fails. *)
LEMMA SoloLost ==
  ASSUME NEW j \in Jobs, job = [k \in Jobs |-> job[k]], Solo,
         NEW r, r = job[j], Active(r), NEW r2, Lost(r, r2),
         job' = [job EXCEPT ![j] = r2], UNCHANGED ghosts, HistoryRan'
  PROVE  Solo'
<1>1. \A k \in Jobs : job'[k] = IF k = j THEN r2 ELSE job[k]
  OBVIOUS
<1>2. latest' = latest /\ overlapped' = overlapped
  BY DEF ghosts
<1> SUFFICES ASSUME ~overlapped PROVE Solo'
  BY <1>2 DEF Solo
<1>3. r.todo # <<>> /\ r.cmd \in Commands
  BY DEF Active, Working
<1>4. Underway = {j} /\ latest = {j}
  BY <1>3 DEF Solo, Underway
<1>5. Underway' \subseteq {j}
  BY <1>1, <1>4 DEF Underway
<1>6. r2.cmd = r.cmd /\ r2.failed /\ Fresh(r2)
  BY DEF Lost
<1>7. r2.todo # <<>> => Past(r2) = {} /\ Len(r2.seen) = 0
  <2>1. Len(<<>>) = 0
    OBVIOUS
  <2> QED BY <1>6, <2>1 DEF Fresh
<1>8. r2.todo # <<>> => InOrder(r2)'
  BY <1>7 DEF InOrder
<1>9. ASSUME NEW q \in {job'[k] : k \in Underway'} PROVE InOrder(q)'
  <2>1. q = r2 /\ r2.todo # <<>>
    BY <1>1, <1>5, <1>9 DEF Underway
  <2> QED BY <1>8, <2>1
<1>10. ASSUME NEW q \in {job'[k] : k \in latest'} PROVE q.cmd \in Commands /\ q.failed
  <2>1. q = r2
    BY <1>1, <1>2, <1>4, <1>10
  <2> QED BY <1>3, <1>6, <2>1
<1> QED BY <1>2, <1>4, <1>5, <1>9, <1>10 DEF Solo

(* Every step keeps the invariant if it keeps the parts that are about the *)
(* droplets.                                                               *)
LEMMA Carried ==
  ASSUME Inv, NEW j \in Jobs, NEW r, r = job[j], Active(r),
         NEW r1, Alike(r, r1), NEW S, NEW r2, Onward(r1, r2, S),
         job' = [job EXCEPT ![j] = r2], UNCHANGED ghosts, States', Blamed', HistoryRan',
         ~overlapped =>
           /\ \A x \in Past(r1) \cup S : Leaves(r1, x)'
           /\ \A i \in 1..Len(r1.seen) : r1.seen[i] \in ran'[Head(r.todo)]
           /\ \A d \in Droplets \ {Head(r.todo)} :
                running'[d] = running[d] /\ history'[d] = history[d]
  PROVE  Inv'
<1>1. job = [k \in Jobs |-> job[k]] /\ (\A q \in {job[k] : k \in Jobs} : Sane(q)) /\ Solo
  BY DEF Inv, States
<1>2. Sane(r2)
  BY DEF Onward
<1>3. \A q \in {job'[k] : k \in Jobs} : Sane(q)
  <2> SUFFICES ASSUME NEW k \in Jobs PROVE Sane(job'[k])
    OBVIOUS
  <2>1. job'[k] = r2 \/ job'[k] = job[k]
    BY <1>1
  <2> QED BY <1>1, <1>2, <2>1
<1>4. Solo'
  <2>1. CASE overlapped
    <3>1. overlapped' = overlapped
      BY DEF ghosts
    <3> QED BY <2>1, <3>1 DEF Solo
  <2>2. CASE ~overlapped
    BY <1>1, <2>2, SoloOnward
  <2> QED BY <2>1, <2>2
<1> QED BY <1>3, <1>4 DEF Inv

(* The same for a job that fails. *)
LEMMA Dropped ==
  ASSUME Inv, NEW j \in Jobs, NEW r, r = job[j], Active(r), NEW r2, Lost(r, r2),
         job' = [job EXCEPT ![j] = r2], UNCHANGED ghosts, States', Blamed', HistoryRan'
  PROVE  Inv'
<1>1. job = [k \in Jobs |-> job[k]] /\ (\A q \in {job[k] : k \in Jobs} : Sane(q)) /\ Solo
  BY DEF Inv, States
<1>2. Sane(r2)
  BY DEF Lost
<1>3. \A q \in {job'[k] : k \in Jobs} : Sane(q)
  <2> SUFFICES ASSUME NEW k \in Jobs PROVE Sane(job'[k])
    OBVIOUS
  <2>1. job'[k] = r2 \/ job'[k] = job[k]
    BY <1>1
  <2> QED BY <1>1, <1>2, <2>1
<1>4. Solo'
  BY <1>1, SoloLost
<1> QED BY <1>3, <1>4 DEF Inv

(* What a step would have left is not asked for when its failure is passed *)
(* over.                                                                   *)
LEMMA Excused ==
  ASSUME NEW r, r.lapsed, NEW x, Swallowed(r.cmd.op, x), NEW S, "up" \notin S,
         S = {x} \/ r.cmd.op = "redeploy", NEW y \in S, Belongs(r.cmd.op, y)
  PROVE  Leaves(r, y)'
<1>1. r.cmd.op \in {"deploy", "rollback", "redeploy"} /\ y # "up"
  BY DEF Swallowed
<1>2. CASE r.cmd.op = "redeploy"
  <2>1. y \in {"down", "wipe", "git", "sync", "build", "pull", "tag"}
    BY <1>1, <1>2 DEF Belongs
  <2> QED BY <1>2, <2>1 DEF Leaves
<1>3. CASE r.cmd.op # "redeploy"
  <2>1. y = x
    BY <1>3
  <2>2. (r.cmd.op = "deploy" /\ y \in {"git", "sync", "build", "read"}) \/ y = "read"
    BY <1>1, <1>3, <2>1 DEF Swallowed
  <2> QED BY <1>1, <1>3, <2>2 DEF Leaves
<1> QED BY <1>2, <1>3

(* A step x that was carried out, or was given up.                         *)
LEMMA Stepped ==
  ASSUME Inv, NEW j \in Jobs, NEW r, r = job[j], Active(r), NEW x, NEW r2,
         \/ Onward(r, r2, {x}) /\ (~overlapped => Leaves(r, x)')
         \/ GivenUp(r, r2, x),
         job' = [job EXCEPT ![j] = r2], UNCHANGED ghosts, States', Blamed', HistoryRan',
         ~overlapped =>
           /\ \A y \in Past(r) : Leaves(r, y)'
           /\ \A d \in Droplets : ran[d] \subseteq ran'[d]
           /\ \A d \in Droplets \ {Head(r.todo)} :
                running'[d] = running[d] /\ history'[d] = history[d]
  PROVE  Inv'
<1>1. ~overlapped => \A i \in 1..Len(r.seen) : r.seen[i] \in ran'[Head(r.todo)]
  <2> SUFFICES ASSUME ~overlapped, NEW i \in 1..Len(r.seen)
               PROVE  r.seen[i] \in ran'[Head(r.todo)]
    OBVIOUS
  <2>1. InOrder(r)
    <3>1. j \in Underway
      BY DEF Underway, Active, Working
    <3> QED BY <3>1 DEF Inv, Solo
  <2>2. r.seen[i] \in ran[Head(r.todo)]
    BY <2>1 DEF InOrder
  <2>3. Head(r.todo) \in Droplets
    BY StepRules
  <2> QED BY <2>2, <2>3
<1>2. CASE Onward(r, r2, {x}) /\ (~overlapped => Leaves(r, x)')
  <2>1. Alike(r, r)
    BY AlikeItself
  <2>2. ~overlapped =>
           /\ \A y \in Past(r) \cup {x} : Leaves(r, y)'
           /\ \A i \in 1..Len(r.seen) : r.seen[i] \in ran'[Head(r.todo)]
           /\ \A d \in Droplets \ {Head(r.todo)} :
                running'[d] = running[d] /\ history'[d] = history[d]
    BY <1>1, <1>2
  <2> QED BY <1>2, <2>1, <2>2, Carried
<1>3. CASE Lost(r, r2)
  BY <1>3, Dropped
<1>4. ASSUME NEW S, Swallowed(r.cmd.op, x), Onward(Lapsed(r), r2, S), "up" \notin S,
             \A y \in S : Belongs(r.cmd.op, y), S = {x} \/ r.cmd.op = "redeploy"
      PROVE  Inv'
  <2>1. PICK w : w = Lapsed(r)
    OBVIOUS
  <2>2. Alike(r, w) /\ w.lapsed = TRUE /\ w.tag = r.tag /\ w.seen = r.seen
    BY <2>1, AlikeLapsed
  <2>3. Onward(w, r2, S) /\ w.cmd = r.cmd /\ w.todo = r.todo /\ Past(w) = Past(r)
    BY <1>4, <2>1, <2>2 DEF Alike
  <2>4. \A y \in S : Leaves(w, y)'
    BY <1>4, <2>2, <2>3, Excused
  <2>5. ASSUME ~overlapped PROVE \A y \in Past(w) : Leaves(w, y)'
    <3> TAKE y \in Past(w)
    <3>1. Leaves(r, y)'
      BY <2>3, <2>5
    <3> QED BY <2>2, <2>3, <3>1, StillLeft
  <2>6. ~overlapped =>
           /\ \A y \in Past(w) \cup S : Leaves(w, y)'
           /\ \A i \in 1..Len(w.seen) : w.seen[i] \in ran'[Head(r.todo)]
           /\ \A d \in Droplets \ {Head(r.todo)} :
                running'[d] = running[d] /\ history'[d] = history[d]
    BY <1>1, <2>2, <2>4, <2>5
  <2> QED BY <2>2, <2>3, <2>6, Carried
<1> QED BY <1>2, <1>3, <1>4, Zenon DEF GivenUp

-------------------------------------------------------------------------------
(* The actions. *)

(* A job at step x. *)
LEMMA Begin ==
  ASSUME Inv, NEW j \in Jobs, NEW x, At(j, x)
  PROVE  /\ Active(job[j]) /\ Head(job[j].steps) = x
         /\ Rules(job[j].cmd, x, Past(job[j]))
         /\ On(j) = Head(job[j].todo) /\ On(j) \in Droplets
         /\ \A y \in Past(job[j]) : Belongs(job[j].cmd.op, y)
<1>1. Sane(job[j]) /\ job[j].steps # <<>> /\ Head(job[j].steps) = x
  BY DEF Inv, At
<1>2. Active(job[j])
  BY <1>1, AtWork
<1> QED BY <1>1, <1>2, StepRules DEF On

(* What a job that was alone has behind it. *)
LEMMA Behind ==
  ASSUME Inv, NEW j \in Jobs, Active(job[j]), ~overlapped
  PROVE  /\ \A y \in Past(job[j]) : Leaves(job[j], y)
         /\ \A d \in Droplets : \A i \in 1..Len(history[d]) : history[d][i] \in ran[d]
<1>1. j \in Underway
  BY DEF Underway, Active, Working
<1>2. InOrder(job[j])
  BY <1>1 DEF Inv, Solo
<1>3. HistoryRan
  BY DEF Inv, Solo
<1> QED BY <1>2, <1>3 DEF InOrder, HistoryRan

(* A history that is as it was. *)
LEMMA SameHistory ==
  ASSUME Inv, history' = history, \A d \in Droplets : ran[d] \subseteq ran'[d], UNCHANGED ghosts
  PROVE  HistoryRan'
BY DEF Inv, Solo, HistoryRan, ghosts

(* A step that neither brings up nor checks, and what it is blamed for. *)
LEMMA QuietStep ==
  ASSUME Inv, NEW j \in Jobs, NEW r, r = job[j], Active(r), NEW x, x \notin {"up", "check"},
         NEW r2, Onward(r, r2, {x}) \/ GivenUp(r, r2, x), job' = [job EXCEPT ![j] = r2]
  PROVE  /\ Kept(r, r2)
         /\ running' = running /\ nginx' = nginx /\ files' = files => Blamed'
<1>1. Kept(r, r2)
  <2>1. CASE Onward(r, r2, {x})
    BY <2>1, AlikeItself, KeptOnward DEF Kept
  <2>2. CASE GivenUp(r, r2, x)
    BY <2>2, KeptGivenUp
  <2> QED BY <2>1, <2>2
<1>2. Blamed /\ job = [k \in Jobs |-> job[k]]
  BY DEF Inv, States
<1> QED BY <1>1, <1>2, Quiet

(* A step that fails without an effect. *)
LEMMA NoEffect ==
  ASSUME Inv, NEW j \in Jobs, Active(job[j]), NEW r2 \in AfterFailure(job[j]),
         job' = [job EXCEPT ![j] = r2], faults' \in 0..MaxFaults,
         UNCHANGED <<remote, schema, edge, ghosts, ran>>
  PROVE  Inv'
<1>1. PICK r : r = job[j]
  OBVIOUS
<1>2. Active(r) /\ GivenUp(r, r2, Head(r.steps))
  BY <1>1, Fails
<1>3. /\ source' = source /\ override' = override /\ image' = image /\ running' = running
      /\ history' = history /\ schema' = schema /\ files' = files /\ nginx' = nginx /\ ran' = ran
  BY DEF remote, edge
<1>4. States'
  <2>1. States
    BY DEF Inv
  <2>2. job' = [k \in Jobs |-> job'[k]]
    BY <2>1 DEF States
  <2> QED BY <1>3, <2>1, <2>2 DEF States, Down
<1>5. Blamed'
  <2>1. Kept(r, r2)
    BY <1>2, KeptGivenUp
  <2>2. Blamed /\ job = [k \in Jobs |-> job[k]]
    BY DEF Inv, States
  <2> QED BY <1>1, <1>3, <2>1, <2>2, Quiet
<1>6. HistoryRan'
  BY <1>3, SameHistory
<1>7. ASSUME ~overlapped PROVE \A y \in Past(r) : Leaves(r, y)'
  <2> TAKE y \in Past(r)
  <2>1. Leaves(r, y)
    BY <1>1, <1>2, <1>7, Behind
  <2> QED BY <1>3, <2>1, Undisturbed
<1> QED BY <1>1, <1>2, <1>3, <1>4, <1>5, <1>6, <1>7, Stepped

(* A remote command that fails without an effect.                          *)
LEMMA StepFailsStep ==
  ASSUME Inv, NEW j \in Jobs, StepFails(j)
  PROVE  Inv'
<1>1. Active(job[j])
  <2>1. Sane(job[j]) /\ job[j].todo # <<>>
    BY DEF Inv, StepFails, Underway
  <2> QED BY <2>1, AtWork
<1>2. faults' \in 0..MaxFaults
  BY DeployAssumption DEF StepFails, Inv, States
<1> QED BY <1>1, <1>2, NoEffect DEF StepFails, Become

(* A job that is killed is failed, so it keeps its blame and reports       *)
(* nothing.                                                                *)
LEMMA KillStep ==
  ASSUME Inv, NEW j \in Jobs, Kill(j)
  PROVE  Inv'
<1>1. PICK r : r = job[j]
  OBVIOUS
<1>2. PICK r2 : r2 = [r EXCEPT !.failed = TRUE, !.todo = <<>>, !.steps = <<>>]
  OBVIOUS
<1>3. Active(r)
  <2>1. Sane(job[j]) /\ job[j].todo # <<>>
    BY DEF Inv, Kill, Underway
  <2> QED BY <1>1, <2>1, AtWork
<1>4. Lost(r, r2)
  <2>1. DOMAIN r = Fields /\ Short(r.seen) /\ r.cmd \in Commands
    BY <1>3 DEF Active
  <2>2. /\ DOMAIN r2 = Fields /\ r2.cmd = r.cmd /\ r2.todo = <<>> /\ r2.steps = <<>>
        /\ r2.failed = TRUE /\ r2.seen = r.seen
    BY <1>2, <2>1 DEF Fields
  <2> QED BY <2>1, <2>2 DEF Lost, Sane, Fresh
<1>5. job' = [job EXCEPT ![j] = r2]
  BY <1>1, <1>2 DEF Kill, Become
<1>6. /\ source' = source /\ override' = override /\ image' = image /\ running' = running
      /\ history' = history /\ schema' = schema /\ files' = files /\ nginx' = nginx /\ ran' = ran
      /\ UNCHANGED ghosts
  BY DEF Kill, remote, edge
<1>7. States'
  <2>1. States
    BY DEF Inv
  <2>2. job' = [k \in Jobs |-> job'[k]]
    BY <1>5, <2>1 DEF States
  <2>3. faults' \in 0..MaxFaults
    BY <2>1, DeployAssumption DEF Kill, States
  <2> QED BY <1>6, <2>1, <2>2, <2>3 DEF States, Down
<1>8. Blamed'
  <2>1. Kept(r, r2)
    BY <1>4, KeptLost
  <2>2. Blamed /\ job = [k \in Jobs |-> job[k]]
    BY DEF Inv, States
  <2> QED BY <1>1, <1>5, <1>6, <2>1, <2>2, Quiet
<1>9. HistoryRan'
  BY <1>6, SameHistory
<1> QED BY <1>1, <1>3, <1>4, <1>5, <1>6, <1>7, <1>8, <1>9, Dropped

(* The job after a step that was carried out, and after one that was not. *)
LEMMA AfterDone ==
  ASSUME Inv, NEW j \in Jobs, NEW x, x \notin {"pick", "given"}, At(j, x), Done(j)
  PROVE  /\ faults' \in 0..MaxFaults /\ job' = [k \in Jobs |-> job'[k]]
         /\ \E r2 : /\ job' = [job EXCEPT ![j] = r2]
                    /\ Onward(job[j], r2, {x}) \/ GivenUp(job[j], r2, x)
<1>1. States
  BY DEF Inv
<1>2. faults' \in 0..MaxFaults
  BY <1>1, DeployAssumption DEF Done, States
<1>3. \E r2 : /\ job' = [job EXCEPT ![j] = r2]
              /\ Onward(job[j], r2, {x}) \/ GivenUp(job[j], r2, x)
  <2>1. PICK r : r = job[j]
    OBVIOUS
  <2>2. Active(r) /\ Head(r.steps) = x
    BY <2>1, Begin
  <2> QED BY <2>1, <2>2, Answered
<1>4. job' = [k \in Jobs |-> job'[k]]
  BY <1>1, <1>3 DEF States
<1> QED BY <1>2, <1>3, <1>4

(* A remote command that cannot be carried out, from any of the steps      *)
(* where it may be refused.                                                *)
LEMMA AfterRefused ==
  ASSUME Inv, NEW j \in Jobs, NEW x, At(j, x), Refused(j), UNCHANGED <<remote, schema, edge, ghosts, ran>>
  PROVE  Inv'
<1>1. Active(job[j])
  BY Begin
<1>2. faults' \in 0..MaxFaults
  BY DEF Refused, Inv, States
<1> QED BY <1>1, <1>2, NoEffect DEF Refused, Become

(* git pull comes before the upload, so it overwrites nothing the job      *)
(* relies on.                                                              *)
LEMMA GitPullStep ==
  ASSUME Inv, NEW j \in Jobs, GitPull(j)
  PROVE  Inv'
<1>1. PICK r : r = job[j]
  OBVIOUS
<1>2. /\ Active(r) /\ Head(r.steps) = "git" /\ Rules(r.cmd, "git", Past(r))
      /\ On(j) = Head(r.todo) /\ Head(r.todo) \in Droplets
  BY <1>1, Begin DEF GitPull
<1>3. /\ faults' \in 0..MaxFaults /\ job' = [k \in Jobs |-> job'[k]]
      /\ \E r2 : /\ job' = [job EXCEPT ![j] = r2]
                 /\ Onward(r, r2, {"git"}) \/ GivenUp(r, r2, "git")
  BY <1>1, AfterDone DEF GitPull
<1>4. PICK r2 : /\ job' = [job EXCEPT ![j] = r2]
                /\ Onward(r, r2, {"git"}) \/ GivenUp(r, r2, "git")
  BY <1>3
<1>5. /\ override' = override /\ image' = image /\ running' = running
      /\ history' = history /\ schema' = schema /\ files' = files /\ nginx' = nginx /\ ran' = ran
      /\ UNCHANGED ghosts
  BY DEF GitPull, edge
<1>6. States'
  <2>1. States
    BY DEF Inv
  <2>2. MaxVersion \in Versions /\ source \in [Droplets -> Versions \cup {Mixed}]
    BY <2>1, DeployAssumption DEF States, Versions
  <2>3. source' = source \/ source' = [source EXCEPT ![On(j)] = MaxVersion]
    BY DEF GitPull
  <2>4. source' \in [Droplets -> Versions \cup {Mixed}]
    BY <2>2, <2>3
  <2> QED BY <1>3, <1>5, <2>1, <2>4 DEF States, Down
<1>7. Blamed'
  BY <1>1, <1>2, <1>4, <1>5, QuietStep
<1>8. HistoryRan'
  BY <1>5, SameHistory
<1>9. ASSUME ~overlapped PROVE \A y \in Past(r) \cup {"git"} : Leaves(r, y)'
  <2> TAKE y \in Past(r) \cup {"git"}
  <2>1. y # "sync"
    BY <1>2 DEF Rules
  <2>2. y = "git" \/ Leaves(r, y)
    BY <1>1, <1>2, <1>9, Behind
  <2> QED BY <1>5, <2>1, <2>2, Undisturbed
<1> QED BY <1>1, <1>2, <1>4, <1>5, <1>6, <1>7, <1>8, <1>9, Stepped

(* The upload: a deploy none of whose steps has failed has the files of    *)
(* its checkout on the droplet.                                            *)
LEMMA SyncSourceStep ==
  ASSUME Inv, NEW j \in Jobs, SyncSource(j)
  PROVE  Inv'
<1>1. PICK r : r = job[j]
  OBVIOUS
<1>2. /\ Active(r) /\ Head(r.steps) = "sync" /\ Rules(r.cmd, "sync", Past(r))
      /\ On(j) = Head(r.todo) /\ Head(r.todo) \in Droplets /\ At(j, "sync")
  BY <1>1, Begin DEF SyncSource
<1>3. /\ override' = override /\ image' = image /\ running' = running
      /\ history' = history /\ schema' = schema /\ files' = files /\ nginx' = nginx /\ ran' = ran
      /\ UNCHANGED ghosts
  BY DEF SyncSource, edge
<1>4. States /\ r.cmd.code \in Versions
  BY <1>2, CommandFacts DEF Inv, Active
<1>5. ASSUME source' \in [Droplets -> Versions \cup {Mixed}], faults' \in 0..MaxFaults,
             job' = [k \in Jobs |-> job'[k]]
      PROVE  States'
  BY <1>3, <1>4, <1>5 DEF States, Down
<1>6. HistoryRan'
  BY <1>3, SameHistory
<1>7. ASSUME ~overlapped PROVE \A y \in Past(r) : Leaves(r, y)'
  <2> TAKE y \in Past(r)
  <2>1. y # "sync"
    BY <1>2 DEF Rules
  <2>2. Leaves(r, y)
    BY <1>1, <1>2, <1>7, Behind
  <2> QED BY <1>3, <2>1, <2>2, Undisturbed
<1>8. CASE source' = [source EXCEPT ![On(j)] = job[j].cmd.code] /\ Done(j)
  <2>1. /\ faults' \in 0..MaxFaults /\ job' = [k \in Jobs |-> job'[k]]
        /\ \E r2 : /\ job' = [job EXCEPT ![j] = r2]
                   /\ Onward(r, r2, {"sync"}) \/ GivenUp(r, r2, "sync")
    BY <1>1, <1>2, <1>8, AfterDone
  <2>2. PICK r2 : /\ job' = [job EXCEPT ![j] = r2]
                  /\ Onward(r, r2, {"sync"}) \/ GivenUp(r, r2, "sync")
    BY <2>1
  <2>3. States'
    <3>1. source' \in [Droplets -> Versions \cup {Mixed}]
      BY <1>1, <1>2, <1>4, <1>8 DEF States
    <3> QED BY <1>5, <2>1, <3>1
  <2>4. Leaves(r, "sync")'
    BY <1>1, <1>2, <1>4, <1>8 DEF Leaves, States
  <2>5. Blamed'
    BY <1>1, <1>2, <1>3, <2>2, QuietStep
  <2> QED BY <1>1, <1>2, <1>3, <1>6, <1>7, <2>2, <2>3, <2>4, <2>5, Stepped
<1>9. CASE /\ faults < MaxFaults /\ faults' = faults + 1
           /\ source' = [source EXCEPT ![On(j)] = IF @ = job[j].cmd.code THEN @ ELSE Mixed]
           /\ Become(j, Lapse(job[j]))
  <2>1. PICK r2 : r2 = Lapse(r)
    OBVIOUS
  <2>2. GivenUp(r, r2, "sync")
    <3>1. Swallowed(r.cmd.op, "sync")
      <4>1. r.cmd.op \in Operations
        BY <1>2, CommandFacts DEF Active
      <4> QED BY <1>2, <4>1 DEF Rules, Belongs, Swallowed, Operations
    <3> QED BY <1>2, <2>1, <3>1, Lapses
  <2>3. job' = [job EXCEPT ![j] = r2]
    BY <1>1, <1>9, <2>1 DEF Become
  <2>4. States'
    <3>1. source' \in [Droplets -> Versions \cup {Mixed}]
      BY <1>1, <1>2, <1>4, <1>9 DEF States
    <3>2. faults' \in 0..MaxFaults
      BY <1>4, <1>9, DeployAssumption DEF States
    <3>3. job' = [k \in Jobs |-> job'[k]]
      BY <1>4, <2>3 DEF States
    <3> QED BY <1>5, <3>1, <3>2, <3>3
  <2>5. Blamed'
    BY <1>1, <1>2, <1>3, <2>2, <2>3, QuietStep
  <2> QED BY <1>1, <1>2, <1>3, <1>6, <1>7, <2>2, <2>3, <2>4, <2>5, Stepped
<1> QED BY <1>8, <1>9 DEF SyncSource

(* The override file has the tag of the job before a deploy builds, a      *)
(* rollback pulls, or anything is brought up.                              *)
LEMMA SetImageTagsStep ==
  ASSUME Inv, NEW j \in Jobs, SetImageTags(j)
  PROVE  Inv'
<1>1. PICK r : r = job[j]
  OBVIOUS
<1>2. /\ Active(r) /\ Head(r.steps) = "tag" /\ Rules(r.cmd, "tag", Past(r))
      /\ On(j) = Head(r.todo) /\ Head(r.todo) \in Droplets
      /\ \A y \in Past(r) : Belongs(r.cmd.op, y)
  BY <1>1, Begin DEF SetImageTags
<1>3. /\ faults' \in 0..MaxFaults /\ job' = [k \in Jobs |-> job'[k]]
      /\ \E r2 : /\ job' = [job EXCEPT ![j] = r2]
                 /\ Onward(r, r2, {"tag"}) \/ GivenUp(r, r2, "tag")
  BY <1>1, AfterDone DEF SetImageTags
<1>4. PICK r2 : /\ job' = [job EXCEPT ![j] = r2]
                /\ Onward(r, r2, {"tag"}) \/ GivenUp(r, r2, "tag")
  BY <1>3
<1>5. /\ source' = source /\ image' = image /\ running' = running
      /\ history' = history /\ schema' = schema /\ files' = files /\ nginx' = nginx /\ ran' = ran
      /\ override' = [override EXCEPT ![Head(r.todo)] = r.tag] /\ UNCHANGED ghosts
  BY <1>1, <1>2 DEF SetImageTags, edge
<1>6. r.tag \in Versions \cup {None}
  <2>1. /\ r.cmd.tag # Previous => r.tag = r.cmd.tag
        /\ r.cmd.tag = Previous => r.tag \in Versions
    BY <1>2 DEF Active, Working, Rules
  <2>2. r.cmd.tag \in Versions \cup {None, Previous}
    BY <1>2, CommandFacts DEF Active
  <2> QED BY <2>1, <2>2
<1>7. States
  BY DEF Inv
<1>8. States'
  <2>1. override' \in [Droplets -> Versions \cup {None}]
    BY <1>2, <1>5, <1>6, <1>7 DEF States
  <2> QED BY <1>3, <1>5, <1>7, <2>1 DEF States, Down
<1>9. Blamed'
  BY <1>1, <1>2, <1>4, <1>5, QuietStep
<1>10. HistoryRan'
  BY <1>5, SameHistory
<1>11. override'[Head(r.todo)] = r.tag
  BY <1>2, <1>5, <1>7 DEF States
<1>12. ASSUME ~overlapped PROVE \A y \in Past(r) \cup {"tag"} : Leaves(r, y)'
  <2> TAKE y \in Past(r) \cup {"tag"}
  <2>1. /\ y # "up" /\ ~(y = "build" /\ r.cmd.op = "deploy") /\ ~(y = "pull" /\ r.cmd.op = "rollback")
    BY <1>2 DEF Rules
  <2>2. y = "tag" \/ Leaves(r, y)
    BY <1>1, <1>2, <1>12, Behind
  <2>3. CASE y = "tag"
    BY <1>11, <2>3 DEF Leaves
  <2>4. CASE y # "tag"
    BY <1>5, <2>1, <2>2, <2>4, Undisturbed
  <2> QED BY <2>3, <2>4
<1> QED BY <1>1, <1>2, <1>4, <1>5, <1>8, <1>9, <1>10, <1>12, Stepped

(* Blame, of the jobs as they are after a step. *)
LEMMA Accused ==
  ASSUME \A d \in Droplets : running'[d] = Down => \E k \in Jobs : Guilty(job'[k], d),
         Loaded' = NoPair => \E k \in Jobs : Tampering(job'[k]),
         nginx' = NoPair => \/ \E d \in OfRole("edge") : running'[d] = Down
                            \/ \E k \in Jobs : Tampering(job'[k])
  PROVE  Blamed'
<1>1. \A k \in Jobs : \A d : Guilty(job[k], d)' <=> Guilty(job'[k], d)
  BY DEF Guilty
<1>2. \A k \in Jobs : Tampering(job[k])' <=> Tampering(job'[k])
  BY DEF Tampering, Past, Whole, Passed
<1> QED BY <1>1, <1>2 DEF Blamed, Loaded, Down, OfRole

(* The image of the override's tag is what was built from the files there. *)
LEMMA BuildStep ==
  ASSUME Inv, NEW j \in Jobs, Build(j)
  PROVE  Inv'
<1>1. PICK r : r = job[j]
  OBVIOUS
<1>2. /\ Active(r) /\ Head(r.steps) = "build" /\ Rules(r.cmd, "build", Past(r))
      /\ On(j) = Head(r.todo) /\ Head(r.todo) \in Droplets /\ At(j, "build")
      /\ \A y \in Past(r) : Belongs(r.cmd.op, y)
  BY <1>1, Begin DEF Build
<1>3. /\ faults' \in 0..MaxFaults /\ job' = [k \in Jobs |-> job'[k]]
      /\ \E r2 : /\ job' = [job EXCEPT ![j] = r2]
                 /\ Onward(r, r2, {"build"}) \/ GivenUp(r, r2, "build")
  BY <1>1, AfterDone DEF Build
<1>4. PICK r2 : /\ job' = [job EXCEPT ![j] = r2]
                /\ Onward(r, r2, {"build"}) \/ GivenUp(r, r2, "build")
  BY <1>3
<1>5. PICK d \in Droplets : d = Head(r.todo)
  BY <1>2
<1>6. /\ source' = source /\ override' = override /\ running' = running
      /\ history' = history /\ schema' = schema /\ files' = files /\ nginx' = nginx /\ ran' = ran
      /\ image' = [image EXCEPT ![d][override[d]] = source[d]] /\ UNCHANGED ghosts
  BY <1>2, <1>5 DEF Build, edge
<1>7. States
  BY DEF Inv
<1>8. override[d] \in Versions \cup {None} /\ source[d] \in Versions \cup {Mixed}
  BY <1>7 DEF States
<1>9. States'
  <2>1. image' \in [Droplets -> [Versions \cup {None} -> Versions \cup {Mixed, Absent}]]
    BY <1>6, <1>7, <1>8 DEF States
  <2> QED BY <1>3, <1>6, <1>7, <2>1 DEF States, Down
<1>10. Blamed'
  BY <1>1, <1>2, <1>4, <1>6, QuietStep
<1>11. HistoryRan'
  BY <1>6, SameHistory
<1>12. image'[d][override[d]] = source[d]
  BY <1>6, <1>7, <1>8 DEF States
<1>13. ASSUME ~overlapped PROVE \A y \in Past(r) \cup {"build"} : Leaves(r, y)'
  <2> TAKE y \in Past(r) \cup {"build"}
  <2>1. y # "up" /\ ~(y = "pull" /\ r.cmd.op = "rollback")
    BY <1>2 DEF Rules, Belongs
  <2>2. y = "build" \/ Leaves(r, y)
    BY <1>1, <1>2, <1>13, Behind
  <2>3. r.cmd.op = "deploy" /\ ~r.lapsed => source[d] = r.cmd.code
    <3>1. r.cmd.op = "deploy" => Leaves(r, "sync")
      BY <1>1, <1>2, <1>13, Behind DEF Rules
    <3> QED BY <1>5, <3>1 DEF Leaves
  <2>4. CASE y = "build"
    BY <1>5, <1>6, <1>12, <2>3, <2>4 DEF Leaves
  <2>5. CASE y # "build"
    BY <1>6, <2>1, <2>2, <2>5, Undisturbed
  <2> QED BY <2>4, <2>5
<1> QED BY <1>1, <1>2, <1>4, <1>6, <1>9, <1>10, <1>11, <1>13, Stepped

(* A rollback has the registry's image under its tag, or it has failed.    *)
LEMMA PullStep ==
  ASSUME Inv, NEW j \in Jobs, Pull(j)
  PROVE  Inv'
<1>1. PICK r : r = job[j]
  OBVIOUS
<1>2. /\ Active(r) /\ Head(r.steps) = "pull" /\ Rules(r.cmd, "pull", Past(r))
      /\ On(j) = Head(r.todo) /\ Head(r.todo) \in Droplets /\ At(j, "pull")
      /\ \A y \in Past(r) : Belongs(r.cmd.op, y)
  BY <1>1, Begin DEF Pull
<1>3. PICK d \in Droplets : d = Head(r.todo)
  BY <1>2
<1>4. PICK t : t = override[d]
  OBVIOUS
<1>5. /\ source' = source /\ override' = override /\ running' = running
      /\ history' = history /\ schema' = schema /\ files' = files /\ nginx' = nginx /\ ran' = ran
      /\ UNCHANGED ghosts
  BY DEF Pull, edge
<1>6. States
  BY DEF Inv
<1>7. t \in Versions \cup {None}
  BY <1>4, <1>6 DEF States
<1>8. ASSUME image' = [image EXCEPT ![d][t] = t] \/ (t = None /\ image' = image), Done(j)
      PROVE  Inv'
  <2>1. /\ faults' \in 0..MaxFaults /\ job' = [k \in Jobs |-> job'[k]]
        /\ \E r2 : /\ job' = [job EXCEPT ![j] = r2]
                   /\ Onward(r, r2, {"pull"}) \/ GivenUp(r, r2, "pull")
    BY <1>1, <1>2, <1>8, AfterDone
  <2>2. PICK r2 : /\ job' = [job EXCEPT ![j] = r2]
                  /\ Onward(r, r2, {"pull"}) \/ GivenUp(r, r2, "pull")
    BY <2>1
  <2>3. States'
    <3>1. image' \in [Droplets -> [Versions \cup {None} -> Versions \cup {Mixed, Absent}]]
      <4>1. image \in [Droplets -> [Versions \cup {None} -> Versions \cup {Mixed, Absent}]]
        BY <1>6 DEF States
      <4>2. t \in Versions \cup {Mixed, Absent}
        BY <1>7 DEF None, Mixed
      <4>3. CASE image' = [image EXCEPT ![d][t] = t]
        BY <1>7, <4>1, <4>2, <4>3
      <4> QED BY <1>8, <4>1, <4>3
    <3> QED BY <1>5, <1>6, <2>1, <3>1 DEF States, Down
  <2>4. Blamed'
    BY <1>1, <1>2, <1>5, <2>2, QuietStep
  <2>5. HistoryRan'
    BY <1>5, SameHistory
  <2>6. ASSUME ~overlapped PROVE \A y \in Past(r) \cup {"pull"} : Leaves(r, y)'
    <3> TAKE y \in Past(r) \cup {"pull"}
    <3>1. y # "up" /\ ~(y = "build" /\ r.cmd.op = "deploy")
      <4>1. r.cmd.op # "deploy"
        BY <1>2 DEF Rules, Belongs
      <4> QED BY <1>2, <4>1 DEF Rules
    <3>2. y = "pull" \/ Leaves(r, y)
      BY <1>1, <1>2, <2>6, Behind
    <3>3. ASSUME r.cmd.op = "rollback" PROVE image'[d][t] = t
      <4>1. Leaves(r, "tag") /\ (r.cmd.tag = Previous => "pick" \in Past(r))
        BY <1>1, <1>2, <2>6, <3>3, Behind DEF Rules
      <4>2. t = r.tag
        BY <1>3, <1>4, <3>3, <4>1 DEF Leaves
      <4>3. r.tag # None
        <5>1. /\ r.cmd.tag # Previous => r.tag = r.cmd.tag
              /\ r.cmd.tag = Previous => r.tag \in Versions
          BY <1>2, <4>1 DEF Active, Working
        <5>2. r.cmd.tag # None
          BY <1>2, <3>3, CommandFacts DEF Active
        <5> QED BY <5>1, <5>2 DEF Versions, None
      <4> QED BY <1>6, <1>7, <1>8, <4>2, <4>3 DEF States
    <3>4. CASE y = "pull"
      BY <1>3, <1>4, <1>5, <3>3, <3>4 DEF Leaves
    <3>5. CASE y # "pull"
      BY <1>5, <3>1, <3>2, <3>5, Undisturbed
    <3> QED BY <3>4, <3>5
  <2> QED BY <1>1, <1>2, <1>5, <2>2, <2>3, <2>4, <2>5, <2>6, Stepped
<1>9. ASSUME image' = image, Refused(j)
      PROVE  Inv'
  BY <1>2, <1>5, <1>9, AfterRefused DEF remote, edge
<1> QED BY <1>2, <1>3, <1>4, <1>8, <1>9 DEF Pull

(* compose up runs the image of the override's tag, and ends the guilt of  *)
(* a redeploy for the droplet.                                             *)
LEMMA UpStep ==
  ASSUME Inv, NEW j \in Jobs, Up(j)
  PROVE  Inv'
<1>1. PICK r : r = job[j]
  OBVIOUS
<1>2. /\ Active(r) /\ Head(r.steps) = "up" /\ Rules(r.cmd, "up", Past(r))
      /\ On(j) = Head(r.todo) /\ Head(r.todo) \in Droplets /\ At(j, "up")
      /\ \A y \in Past(r) : Belongs(r.cmd.op, y)
  BY <1>1, Begin DEF Up
<1>3. /\ faults' \in 0..MaxFaults /\ job' = [k \in Jobs |-> job'[k]]
      /\ \E r2 : /\ job' = [job EXCEPT ![j] = r2]
                 /\ Onward(r, r2, {"up"}) \/ GivenUp(r, r2, "up")
  BY <1>1, AfterDone DEF Up
<1>4. PICK r2 : /\ job' = [job EXCEPT ![j] = r2]
                /\ Onward(r, r2, {"up"}) \/ GivenUp(r, r2, "up")
  BY <1>3
<1>5. PICK d \in Droplets : d = Head(r.todo)
  BY <1>2
<1>6. PICK t : t = override[d]
  OBVIOUS
<1>7. PICK c \in Brought(d, t) : /\ image' = [image EXCEPT ![d][t] = c]
                                /\ running' = [running EXCEPT ![d] = <<t, c>>]
  BY <1>2, <1>5, <1>6 DEF Up
<1>8. /\ source' = source /\ override' = override /\ history' = history /\ schema' = schema
      /\ files' = files /\ ran' = [ran EXCEPT ![d] = @ \cup {t}] /\ UNCHANGED ghosts
      /\ nginx' = IF Role[d] = "edge" /\ nginx = NoPair THEN Loaded ELSE nginx
  BY <1>2, <1>5, <1>6 DEF Up
<1>9. States
  BY DEF Inv
<1>10. t \in Versions \cup {None} /\ c \in Versions \cup {Mixed}
  <2>1. t \in Versions \cup {None} /\ source[d] \in Versions \cup {Mixed}
    BY <1>6, <1>9 DEF States
  <2>2. image[d][t] \in Versions \cup {Mixed, Absent}
    BY <1>9, <2>1 DEF States
  <2> QED BY <2>1, <2>2, DeployAssumption DEF Brought
<1>11. c # Absent
  BY <1>10 DEF Versions, Mixed, Absent
<1>12. running'[d] = <<t, c>> /\ image'[d][t] = c /\ ran'[d] = ran[d] \cup {t}
       /\ \A e \in Droplets \ {d} : running'[e] = running[e] /\ ran'[e] = ran[e]
  <2>1. running = [e \in Droplets |-> running[e]]
    BY <1>9 DEF States
  <2>2. running'[d] = <<t, c>> /\ \A e \in Droplets \ {d} : running'[e] = running[e]
    BY <1>7, <2>1
  <2>3. image'[d][t] = c
    BY <1>7, <1>9, <1>10 DEF States
  <2>4. ran'[d] = ran[d] \cup {t} /\ \A e \in Droplets \ {d} : ran'[e] = ran[e]
    BY <1>8, <1>9 DEF States
  <2> QED BY <2>2, <2>3, <2>4
<1>13. running'[d] # Down
  BY <1>11, <1>12 DEF Down
<1>14. Loaded \in Pairs \cup {NoPair}
  BY <1>9 DEF States, Loaded
<1>15. States'
  <2>1. image' \in [Droplets -> [Versions \cup {None} -> Versions \cup {Mixed, Absent}]]
    BY <1>7, <1>9, <1>10 DEF States
  <2>2. running' = [e \in Droplets |-> running'[e]]
    BY <1>7, <1>9 DEF States
  <2>3. \A e \in Droplets : running'[e] # Down => running'[e][2] # Absent
    BY <1>9, <1>11, <1>12 DEF States
  <2>4. ran' \in [Droplets -> SUBSET (Versions \cup {None})]
    BY <1>8, <1>9, <1>10 DEF States
  <2>5. nginx' \in Pairs \cup {NoPair}
    BY <1>8, <1>9, <1>14 DEF States
  <2> QED BY <1>3, <1>8, <1>9, <2>1, <2>2, <2>3, <2>4, <2>5 DEF States, Down
<1>16. Blamed'
  <2>1. /\ \A e : e # d /\ Guilty(r, e) => Guilty(r2, e)
        /\ Tampering(r) => Tampering(r2)
    <3>1. CASE Onward(r, r2, {"up"})
      BY <1>2, <1>5, <3>1, AlikeItself, KeptOnward
    <3>2. CASE GivenUp(r, r2, "up")
      BY <1>2, <3>2, KeptGivenUp DEF Kept
    <3> QED BY <1>4, <3>1, <3>2
  <2>2. \A k \in Jobs : job'[k] = IF k = j THEN r2 ELSE job[k]
    BY <1>4, <1>9 DEF States
  <2>3. /\ \A k \in Jobs : \A e : e # d /\ Guilty(job[k], e) => Guilty(job'[k], e)
        /\ \A k \in Jobs : Tampering(job[k]) => Tampering(job'[k])
    BY <1>1, <2>1, <2>2
  <2>4. Loaded' = Loaded
    BY <1>8 DEF Loaded
  <2>5. Blamed
    BY DEF Inv
  <2>6. \A e \in Droplets : running'[e] = Down => \E k \in Jobs : Guilty(job'[k], e)
    BY <1>12, <1>13, <2>3, <2>5 DEF Blamed
  <2>7. Loaded' = NoPair => \E k \in Jobs : Tampering(job'[k])
    BY <2>3, <2>4, <2>5 DEF Blamed
  <2>8. nginx' = NoPair => \/ \E e \in OfRole("edge") : running'[e] = Down
                           \/ \E k \in Jobs : Tampering(job'[k])
    <3>1. CASE Role[d] = "edge" /\ nginx = NoPair
      BY <1>8, <2>4, <2>7, <3>1
    <3>2. CASE ~(Role[d] = "edge" /\ nginx = NoPair)
      <4> SUFFICES ASSUME nginx = NoPair, Role[d] # "edge"
                   PROVE  \/ \E e \in OfRole("edge") : running'[e] = Down
                          \/ \E k \in Jobs : Tampering(job'[k])
        BY <1>8, <3>2
      <4>1. CASE \E e \in OfRole("edge") : running[e] = Down
        BY <1>12, <4>1 DEF OfRole
      <4>2. CASE \E k \in Jobs : Tampering(job[k])
        BY <2>3, <4>2
      <4> QED BY <2>5, <4>1, <4>2 DEF Blamed
    <3> QED BY <3>1, <3>2
  <2> QED BY <2>6, <2>7, <2>8, Accused
<1>17. \A e \in Droplets : ran[e] \subseteq ran'[e]
  BY <1>12
<1>18. HistoryRan'
  BY <1>8, <1>17, SameHistory
<1>19. ASSUME ~overlapped PROVE \A y \in Past(r) \cup {"up"} : Leaves(r, y)'
  <2> TAKE y \in Past(r) \cup {"up"}
  <2>1. Belongs(r.cmd.op, y) /\ Belongs(r.cmd.op, "up") /\ r.cmd.op \in Operations
    BY <1>2, CommandFacts DEF Rules, Active
  <2>2. y \in {"git", "sync", "tag", "build", "up", "read", "save", "pick", "pull", "down", "wipe"}
        /\ r.cmd.op \in {"deploy", "redeploy", "rollback"}
    BY <2>1 DEF Belongs, Operations
  <2>3. y = "up" \/ Leaves(r, y)
    BY <1>1, <1>2, <1>19, Behind
  <2>4. CASE y = "up"
    <3>1. t \in ran'[d]
      BY <1>12
    <3> QED BY <1>5, <1>6, <1>8, <1>12, <1>13, <2>4, <3>1 DEF Leaves, Down
  <2>5. CASE y \in {"build", "pull"}
    <3>1. Leaves(r, y)
      BY <2>3, <2>5
    <3>2. CASE y = "build" /\ r.cmd.op = "deploy" /\ ~r.lapsed
      <4>1. image[d][t] = r.cmd.code
        BY <1>5, <1>6, <3>1, <3>2 DEF Leaves
      <4>2. r.cmd.code # Absent
        BY <1>2, CommandFacts DEF Active, Versions, Absent
      <4>3. c = r.cmd.code
        BY <1>7, <4>1, <4>2 DEF Brought
      <4> QED BY <1>5, <1>6, <1>8, <1>12, <3>2, <4>3 DEF Leaves
    <3>3. CASE y = "pull" /\ r.cmd.op = "rollback"
      <4>1. image[d][t] = t
        BY <1>5, <1>6, <3>1, <3>3 DEF Leaves
      <4>2. t # Absent
        BY <1>10 DEF Versions, None, Absent
      <4>3. c = t
        BY <1>7, <4>1, <4>2 DEF Brought
      <4> QED BY <1>5, <1>6, <1>8, <1>12, <3>3, <4>3 DEF Leaves
    <3> QED BY <2>5, <3>2, <3>3 DEF Leaves
  <2>6. CASE y \in {"git", "sync", "tag", "read", "save", "pick"}
    BY <1>8, <2>3, <2>6 DEF Leaves
  <2>7. CASE y \in {"down", "wipe"}
    BY <2>2, <2>7 DEF Leaves
  <2> QED BY <2>2, <2>4, <2>5, <2>6, <2>7
<1>20. ASSUME NEW e \in Droplets \ {Head(r.todo)}
       PROVE  running'[e] = running[e] /\ history'[e] = history[e]
  BY <1>5, <1>8, <1>12
<1> QED BY <1>1, <1>2, <1>4, <1>8, <1>15, <1>16, <1>17, <1>18, <1>19, <1>20, Stepped

(* Containers that are stopped by a command that is to stop them. *)
LEMMA Stopped ==
  ASSUME Inv, NEW j \in Jobs, NEW r, r = job[j], Active(r), r.cmd.op \in {"down", "redeploy"},
         NEW x, x \notin {"up", "check"}, NEW r2, Onward(r, r2, {x}) \/ GivenUp(r, r2, x),
         job' = [job EXCEPT ![j] = r2], NEW d, d = Head(r.todo),
         running' = [running EXCEPT ![d] = Down], files' = files,
         nginx' = IF Role[d] = "edge" THEN NoPair ELSE nginx
  PROVE  Blamed'
<1>1. Kept(r, r2) /\ States /\ Blamed /\ d \in Droplets
  BY QuietStep, StepRules DEF Inv
<1>2. Guilty(r2, d)
  <2>1. Guilty(r, d)
    BY StepRules DEF Guilty, Active, Working
  <2> QED BY <1>1, <2>1 DEF Kept
<1>3. \A k \in Jobs : job'[k] = IF k = j THEN r2 ELSE job[k]
  BY <1>1 DEF States
<1>4. /\ \A k \in Jobs : \A e : Guilty(job[k], e) => Guilty(job'[k], e)
      /\ \A k \in Jobs : Tampering(job[k]) => Tampering(job'[k])
  BY <1>1, <1>3 DEF Kept
<1>5. running'[d] = Down /\ \A e \in Droplets \ {d} : running'[e] = running[e]
  <2>1. running = [e \in Droplets |-> running[e]]
    BY <1>1 DEF States
  <2> QED BY <1>1, <2>1
<1>6. \A e \in Droplets : running'[e] = Down => \E k \in Jobs : Guilty(job'[k], e)
  <2> SUFFICES ASSUME NEW e \in Droplets, running'[e] = Down
               PROVE  \E k \in Jobs : Guilty(job'[k], e)
    OBVIOUS
  <2>1. CASE e = d
    BY <1>2, <1>3, <2>1
  <2>2. CASE e # d
    BY <1>1, <1>4, <1>5, <2>2 DEF Blamed
  <2> QED BY <2>1, <2>2
<1>7. Loaded' = NoPair => \E k \in Jobs : Tampering(job'[k])
  <2>1. Loaded' = Loaded
    BY DEF Loaded
  <2> QED BY <1>1, <1>4, <2>1 DEF Blamed
<1>8. nginx' = NoPair => \/ \E e \in OfRole("edge") : running'[e] = Down
                         \/ \E k \in Jobs : Tampering(job'[k])
  <2>1. CASE Role[d] = "edge"
    BY <1>1, <1>5, <2>1 DEF OfRole
  <2>2. CASE Role[d] # "edge"
    <3> SUFFICES ASSUME nginx = NoPair
                 PROVE  \/ \E e \in OfRole("edge") : running'[e] = Down
                        \/ \E k \in Jobs : Tampering(job'[k])
      BY <2>2
    <3>1. CASE \E e \in OfRole("edge") : running[e] = Down
      BY <1>5, <2>2, <3>1 DEF OfRole
    <3>2. CASE \E k \in Jobs : Tampering(job[k])
      BY <1>4, <3>2
    <3> QED BY <1>1, <3>1, <3>2 DEF Blamed
  <2> QED BY <2>1, <2>2
<1> QED BY <1>6, <1>7, <1>8, Accused

(* compose down: whoever stops a droplet is a "down" or a redeploy, and    *)
(* the redeploy is guilty of it until it has brought it up.                *)
LEMMA ComposeDownStep ==
  ASSUME Inv, NEW j \in Jobs, ComposeDown(j)
  PROVE  Inv'
<1>1. PICK r : r = job[j]
  OBVIOUS
<1>2. /\ Active(r) /\ Head(r.steps) = "down" /\ Rules(r.cmd, "down", Past(r))
      /\ On(j) = Head(r.todo) /\ Head(r.todo) \in Droplets /\ At(j, "down")
      /\ \A y \in Past(r) : Belongs(r.cmd.op, y)
  BY <1>1, Begin DEF ComposeDown
<1>3. /\ faults' \in 0..MaxFaults /\ job' = [k \in Jobs |-> job'[k]]
      /\ \E r2 : /\ job' = [job EXCEPT ![j] = r2]
                 /\ Onward(r, r2, {"down"}) \/ GivenUp(r, r2, "down")
  BY <1>1, AfterDone DEF ComposeDown
<1>4. PICK r2 : /\ job' = [job EXCEPT ![j] = r2]
                /\ Onward(r, r2, {"down"}) \/ GivenUp(r, r2, "down")
  BY <1>3
<1>5. PICK d \in Droplets : d = Head(r.todo)
  BY <1>2
<1>6. States
  BY DEF Inv
<1>7. /\ source' = source /\ override' = override /\ image' = image /\ history' = history
      /\ schema' = schema /\ files' = files /\ ran' = ran /\ UNCHANGED ghosts
      /\ running' = [running EXCEPT ![d] = Down]
      /\ nginx' = IF Role[d] = "edge" THEN NoPair ELSE nginx
  BY <1>2, <1>5 DEF ComposeDown
<1>8. running'[d] = Down /\ \A e \in Droplets \ {d} : running'[e] = running[e]
  <2>1. running = [e \in Droplets |-> running[e]]
    BY <1>6 DEF States
  <2> QED BY <1>7, <2>1
<1>9. States'
  <2>1. running' = [e \in Droplets |-> running'[e]]
    BY <1>6, <1>7 DEF States
  <2>2. \A e \in Droplets : running'[e] # Down => running'[e][2] # Absent
    BY <1>6, <1>8 DEF States
  <2>3. nginx' \in Pairs \cup {NoPair}
    BY <1>6, <1>7 DEF States
  <2> QED BY <1>3, <1>6, <1>7, <2>1, <2>2, <2>3 DEF States, Down
<1>10. Blamed'
  <2>1. r.cmd.op \in {"down", "redeploy"}
    <3>1. r.cmd.op \in Operations
      BY <1>2, CommandFacts DEF Active
    <3> QED BY <1>2, <3>1 DEF Rules, Belongs, Operations
  <2> QED BY <1>1, <1>2, <1>4, <1>5, <1>7, <2>1, Stopped
<1>11. HistoryRan'
  BY <1>7, SameHistory
<1>12. Past(r) = {} /\ Leaves(r, "down")'
  BY <1>2, <1>5, <1>8 DEF Rules, Leaves, Down
<1>13. ASSUME NEW e \in Droplets \ {Head(r.todo)}
       PROVE  running'[e] = running[e] /\ history'[e] = history[e]
  BY <1>5, <1>7, <1>8
<1> QED BY <1>1, <1>2, <1>4, <1>7, <1>9, <1>10, <1>11, <1>12, <1>13, Stepped

(* Removing the images stops the containers, on the account of the         *)
(* redeploy.                                                               *)
LEMMA RemoveImagesStep ==
  ASSUME Inv, NEW j \in Jobs, RemoveImages(j)
  PROVE  Inv'
<1>1. PICK r : r = job[j]
  OBVIOUS
<1>2. /\ Active(r) /\ Head(r.steps) = "wipe" /\ Rules(r.cmd, "wipe", Past(r))
      /\ On(j) = Head(r.todo) /\ Head(r.todo) \in Droplets /\ At(j, "wipe")
      /\ \A y \in Past(r) : Belongs(r.cmd.op, y)
  BY <1>1, Begin DEF RemoveImages
<1>3. /\ faults' \in 0..MaxFaults /\ job' = [k \in Jobs |-> job'[k]]
      /\ \E r2 : /\ job' = [job EXCEPT ![j] = r2]
                 /\ Onward(r, r2, {"wipe"}) \/ GivenUp(r, r2, "wipe")
  BY <1>1, AfterDone DEF RemoveImages
<1>4. PICK r2 : /\ job' = [job EXCEPT ![j] = r2]
                /\ Onward(r, r2, {"wipe"}) \/ GivenUp(r, r2, "wipe")
  BY <1>3
<1>5. PICK d \in Droplets : d = Head(r.todo)
  BY <1>2
<1>6. States
  BY DEF Inv
<1>7. /\ source' = source /\ override' = override /\ history' = history
      /\ schema' = (IF Role[d] = "platform" THEN 0 ELSE schema)
      /\ files' = files /\ ran' = ran /\ UNCHANGED ghosts
      /\ image' = [image EXCEPT ![d][override[d]] = Absent]
      /\ running' = [running EXCEPT ![d] = Down]
      /\ nginx' = IF Role[d] = "edge" THEN NoPair ELSE nginx
  BY <1>2, <1>5 DEF RemoveImages
<1>8. running'[d] = Down /\ \A e \in Droplets \ {d} : running'[e] = running[e]
  <2>1. running = [e \in Droplets |-> running[e]]
    BY <1>6 DEF States
  <2> QED BY <1>7, <2>1
<1>9. States'
  <2>1. running' = [e \in Droplets |-> running'[e]]
    BY <1>6, <1>7 DEF States
  <2>2. \A e \in Droplets : running'[e] # Down => running'[e][2] # Absent
    BY <1>6, <1>8 DEF States
  <2>3. nginx' \in Pairs \cup {NoPair}
    BY <1>6, <1>7 DEF States
  <2>4. schema' \in 0..MaxVersion
    BY <1>6, <1>7, DeployAssumption DEF States
  <2>5. image' \in [Droplets -> [Versions \cup {None} -> Versions \cup {Mixed, Absent}]]
    BY <1>6, <1>7 DEF States
  <2> QED BY <1>3, <1>6, <1>7, <2>1, <2>2, <2>3, <2>4, <2>5 DEF States, Down
<1>10. r.cmd.op = "redeploy"
  <2>1. r.cmd.op \in Operations
    BY <1>2, CommandFacts DEF Active
  <2> QED BY <1>2, <2>1 DEF Rules, Belongs, Operations
<1>11. Blamed'
  BY <1>1, <1>2, <1>4, <1>5, <1>7, <1>10, Stopped
<1>12. HistoryRan'
  BY <1>7, SameHistory
<1>13. Past(r) = {"down"} /\ Leaves(r, "down")' /\ Leaves(r, "wipe")'
  BY <1>2, <1>10 DEF Rules, Leaves
<1>14. ASSUME NEW e \in Droplets \ {Head(r.todo)}
       PROVE  running'[e] = running[e] /\ history'[e] = history[e]
  BY <1>5, <1>7, <1>8
<1> QED BY <1>1, <1>2, <1>4, <1>7, <1>9, <1>11, <1>12, <1>13, <1>14, Stepped

(* A restart that is carried out found the containers up.                  *)
LEMMA RestartStep ==
  ASSUME Inv, NEW j \in Jobs, Restart(j)
  PROVE  Inv'
<1>1. PICK r : r = job[j]
  OBVIOUS
<1>2. /\ Active(r) /\ Head(r.steps) = "restart" /\ Rules(r.cmd, "restart", Past(r))
      /\ On(j) = Head(r.todo) /\ Head(r.todo) \in Droplets /\ At(j, "restart")
      /\ \A y \in Past(r) : Belongs(r.cmd.op, y)
  BY <1>1, Begin DEF Restart
<1>3. PICK d \in Droplets : d = Head(r.todo)
  BY <1>2
<1>4. /\ source' = source /\ override' = override /\ image' = image /\ running' = running
      /\ history' = history /\ schema' = schema /\ files' = files /\ ran' = ran
      /\ UNCHANGED ghosts
      /\ nginx' = IF Role[d] = "edge" /\ running[d] # Down THEN Loaded ELSE nginx
  BY <1>2, <1>3 DEF Restart, remote
<1>5. States
  BY DEF Inv
<1>6. CASE running[d] # Down /\ Done(j)
  <2>1. /\ faults' \in 0..MaxFaults /\ job' = [k \in Jobs |-> job'[k]]
        /\ \E r2 : /\ job' = [job EXCEPT ![j] = r2]
                   /\ Onward(r, r2, {"restart"}) \/ GivenUp(r, r2, "restart")
    BY <1>1, <1>2, <1>6, AfterDone
  <2>2. PICK r2 : /\ job' = [job EXCEPT ![j] = r2]
                  /\ Onward(r, r2, {"restart"}) \/ GivenUp(r, r2, "restart")
    BY <2>1
  <2>3. States'
    <3>1. nginx' \in Pairs \cup {NoPair}
      BY <1>4, <1>5 DEF States, Loaded
    <3> QED BY <1>4, <1>5, <2>1, <3>1 DEF States, Down
  <2>4. Blamed'
    <3>1. Kept(r, r2) /\ Blamed
      BY <1>1, <1>2, <2>2, QuietStep DEF Inv
    <3>2. \A k \in Jobs : job'[k] = IF k = j THEN r2 ELSE job[k]
      BY <1>5, <2>2 DEF States
    <3>3. /\ \A k \in Jobs : \A e : Guilty(job[k], e) => Guilty(job'[k], e)
          /\ \A k \in Jobs : Tampering(job[k]) => Tampering(job'[k])
      BY <1>1, <3>1, <3>2 DEF Kept
    <3>4. Loaded' = Loaded
      BY <1>4 DEF Loaded
    <3>5. \A e \in Droplets : running'[e] = Down => \E k \in Jobs : Guilty(job'[k], e)
      BY <1>4, <3>1, <3>3 DEF Blamed
    <3>6. Loaded' = NoPair => \E k \in Jobs : Tampering(job'[k])
      BY <3>1, <3>3, <3>4 DEF Blamed
    <3>7. nginx' = NoPair => \/ \E e \in OfRole("edge") : running'[e] = Down
                             \/ \E k \in Jobs : Tampering(job'[k])
      BY <1>4, <3>1, <3>3, <3>4, <3>6 DEF Blamed
    <3> QED BY <3>5, <3>6, <3>7, Accused
  <2>5. HistoryRan'
    BY <1>4, SameHistory
  <2>6. Past(r) = {} /\ Leaves(r, "restart")'
    BY <1>2, <1>3, <1>4, <1>6 DEF Rules, Leaves, Down
  <2> QED BY <1>1, <1>2, <1>4, <2>2, <2>3, <2>4, <2>5, <2>6, Stepped
<1>7. CASE running[d] = Down /\ Refused(j)
  BY <1>2, <1>4, <1>7, AfterRefused DEF remote, edge
<1> QED BY <1>2, <1>3, <1>6, <1>7 DEF Restart

-------------------------------------------------------------------------------
(* The history. *)

(* q is tag alone; h is tag before rest; rest is seen without its kth tag. *)
Single(q, tag) == q \in Seq(Versions) /\ Len(q) = 1 /\ q[1] = tag
Lacks(h, tag) == \A i \in 1..Len(h) : h[i] # tag
Leads(h, tag, rest) ==
  /\ Short(h) /\ h # <<>> /\ h[1] = tag
  /\ \A i \in 1..Len(h) : h[i] = tag \/ \E k \in 1..Len(rest) : h[i] = rest[k]
Cut(rest, seen, k) ==
  /\ rest \in Seq(Versions) /\ Len(rest) = Len(seen) - 1
  /\ \A i \in 1..Len(rest) : rest[i] = IF i < k THEN seen[i] ELSE seen[i + 1]

(* A tag before those that are there. *)
LEMMA Pushed ==
  ASSUME NEW tag \in Versions, NEW rest \in Seq(Versions), Len(rest) < HistoryLimit,
         Distinct(rest), Lacks(rest, tag), NEW q, Single(q, tag)
  PROVE  Leads(q \o rest, tag, rest)
<1> DEFINE h == q \o rest
<1>1. /\ q \in Seq(Versions) /\ Len(q) = 1 /\ q[1] = tag
      /\ \A i \in 1..Len(rest) : rest[i] # tag
  BY DEF Single, Lacks
<1>2. Len(rest) \in Nat /\ HistoryLimit \in Nat
  BY DeployAssumption
<1>3. /\ q \o rest \in Seq(Versions) /\ Len(q \o rest) = Len(q) + Len(rest)
      /\ \A i \in 1..Len(q) + Len(rest) :
           (q \o rest)[i] = IF i <= Len(q) THEN q[i] ELSE rest[i - Len(q)]
  BY <1>1, ConcatProperties
<1>4. h = q \o rest
  OBVIOUS
<1> HIDE DEF h
<1>5. h \in Seq(Versions) /\ Len(h) = 1 + Len(rest)
  BY <1>1, <1>3, <1>4
<1>6. h[1] = tag
  BY <1>1, <1>2, <1>3, <1>4
<1>7. \A i \in 1..Len(h) : i # 1 => i - 1 \in 1..Len(rest) /\ h[i] = rest[i - 1]
  <2> SUFFICES ASSUME NEW i \in 1..Len(h), i # 1
               PROVE  i - 1 \in 1..Len(rest) /\ h[i] = rest[i - 1]
    OBVIOUS
  <2>1. i - 1 \in 1..Len(rest)
    BY <1>1, <1>2, <1>5
  <2>2. i \in 1..Len(q) + Len(rest) /\ ~(i <= Len(q))
    BY <1>1, <1>2, <1>5
  <2>3. h[i] = rest[i - Len(q)]
    BY <1>3, <1>4, <2>2
  <2> QED BY <1>1, <2>1, <2>3
<1>8. h # <<>>
  <2>1. Len(<<>>) = 0
    OBVIOUS
  <2> QED BY <1>2, <1>5, <2>1
<1>9. Distinct(h)
  <2> SUFFICES ASSUME NEW i \in 1..Len(h), NEW k \in 1..Len(h), h[i] = h[k] PROVE i = k
    BY DEF Distinct
  <2>1. CASE i = 1 \/ k = 1
    BY <1>1, <1>6, <1>7, <2>1
  <2>2. CASE i # 1 /\ k # 1
    <3>1. i - 1 = k - 1
      BY <1>7, <2>2 DEF Distinct
    <3> QED BY <3>1
  <2> QED BY <2>1, <2>2
<1>10. Len(h) <= HistoryLimit
  BY <1>2, <1>5
<1>11. \A i \in 1..Len(h) : h[i] = tag \/ \E k \in 1..Len(rest) : h[i] = rest[k]
  BY <1>6, <1>7
<1> QED BY <1>5, <1>6, <1>8, <1>9, <1>10, <1>11 DEF Short, Leads, h

(* A history of distinct tags without one of them. *)
LEMMA Without ==
  ASSUME NEW seen \in Seq(Versions), Distinct(seen), NEW k \in 1..Len(seen)
  PROVE  Cut(RemoveFirst(seen, seen[k]), seen, k)
<1> DEFINE rest == RemoveFirst(seen, seen[k])
           I == {i \in 1..Len(seen) : seen[i] = seen[k]}
           s == SubSeq(seen, 1, k - 1)
           t == SubSeq(seen, k + 1, Len(seen))
<1>1. Len(seen) \in Nat /\ k \in Nat /\ k >= 1 /\ k <= Len(seen)
  OBVIOUS
<1>2. I = {k}
  BY DEF Distinct
<1>3. Min(I) = k
  BY <1>1, <1>2 DEF Min
<1>4. rest = s \o t
  <2>1. SelectInSeq(seen, LAMBDA v : v = seen[k]) = k
    BY <1>2, <1>3 DEF SelectInSeq
  <2>2. rest = RemoveAt(seen, SelectInSeq(seen, LAMBDA v : v = seen[k]))
    BY <1>1 DEF RemoveFirst
  <2> QED BY <2>1, <2>2 DEF RemoveAt
<1>5. /\ s \in Seq(Versions) /\ Len(s) = k - 1
      /\ \A i \in 1..k - 1 : s[i] = seen[i]
  <2>1. /\ s \in Seq(Versions) /\ Len(s) = (IF 1 <= k - 1 THEN (k - 1) - 1 + 1 ELSE 0)
        /\ \A i \in 1..((k - 1) - 1 + 1) : s[i] = seen[1 + i - 1]
    <3>1. 1 \in 1..Len(seen) + 1 /\ k - 1 \in 0..Len(seen)
      BY <1>1
    <3> HIDE DEF s
    <3> QED BY <1>1, <3>1, SubSeqProperties DEF s
  <2> HIDE DEF s
  <2> QED BY <1>1, <2>1
<1>6. /\ t \in Seq(Versions) /\ Len(t) = Len(seen) - k
      /\ \A i \in 1..Len(seen) - k : t[i] = seen[k + i]
  <2>1. /\ t \in Seq(Versions)
        /\ Len(t) = (IF k + 1 <= Len(seen) THEN Len(seen) - (k + 1) + 1 ELSE 0)
        /\ \A i \in 1..(Len(seen) - (k + 1) + 1) : t[i] = seen[(k + 1) + i - 1]
    <3>1. k + 1 \in 1..Len(seen) + 1 /\ Len(seen) \in 0..Len(seen)
      BY <1>1
    <3> QED BY <1>1, <3>1, SubSeqProperties
  <2> HIDE DEF t
  <2> QED BY <1>1, <2>1
<1> HIDE DEF s, t, I, rest
<1>7. /\ s \o t \in Seq(Versions) /\ Len(s \o t) = Len(s) + Len(t)
      /\ \A i \in 1..Len(s) + Len(t) :
           (s \o t)[i] = IF i <= Len(s) THEN s[i] ELSE t[i - Len(s)]
  BY <1>5, <1>6, ConcatProperties
<1>8. rest \in Seq(Versions) /\ Len(rest) = Len(seen) - 1
  BY <1>1, <1>4, <1>5, <1>6, <1>7
<1>9. ASSUME NEW i \in 1..Len(rest)
      PROVE  rest[i] = IF i < k THEN seen[i] ELSE seen[i + 1]
  <2>1. i \in 1..Len(s) + Len(t)
    BY <1>1, <1>5, <1>6, <1>8
  <2>2. rest[i] = IF i <= Len(s) THEN s[i] ELSE t[i - Len(s)]
    BY <1>4, <1>7, <2>1
  <2>3. CASE i < k
    <3>1. i <= Len(s) /\ i \in 1..k - 1
      BY <1>1, <1>5, <2>3
    <3> QED BY <1>5, <2>2, <2>3, <3>1
  <2>4. CASE ~(i < k)
    <3>1. ~(i <= Len(s)) /\ i - (k - 1) \in 1..Len(seen) - k
      BY <1>1, <1>5, <1>8, <2>4
    <3>2. t[i - (k - 1)] = seen[k + (i - (k - 1))]
      BY <1>6, <3>1
    <3>3. k + (i - (k - 1)) = i + 1
      BY <1>1
    <3> QED BY <1>5, <2>2, <2>4, <3>1, <3>2, <3>3
  <2> QED BY <2>3, <2>4
<1> QED BY <1>8, <1>9 DEF Cut, rest

(* What save_deploy_history writes is short, each tag is in it once, and   *)
(* all but the newest were read.                                           *)
LEMMA NewestFacts ==
  ASSUME NEW tag \in Versions, NEW seen, Short(seen), NEW h, h = Newest(tag, seen)
  PROVE  /\ Short(h) /\ h # <<>> /\ h[1] = tag
         /\ \A i \in 1..Len(h) : h[i] = tag \/ \E k \in 1..Len(seen) : h[i] = seen[k]
<1>1. /\ seen \in Seq(Versions) /\ Len(seen) \in Nat /\ Len(seen) <= HistoryLimit
      /\ Distinct(seen) /\ HistoryLimit \in Nat /\ HistoryLimit > 0
      /\ DOMAIN seen = 1..Len(seen)
  BY DeployAssumption DEF Short
<1>0. PICK q : q = <<tag>> /\ Single(q, tag)
  <2>1. <<tag>> \in Seq(Versions)
    OBVIOUS
  <2>2. Len(<<tag>>) = 1 /\ <<tag>>[1] = tag
    OBVIOUS
  <2> QED BY <2>1, <2>2, Zenon DEF Single
<1>2. CASE tag \in Range(seen)
  <2>1. PICK k \in 1..Len(seen) : seen[k] = tag
    BY <1>1, <1>2 DEF Range
  <2>2. PICK rest : rest = RemoveFirst(seen, tag)
    OBVIOUS
  <2>3. /\ rest \in Seq(Versions) /\ Len(rest) = Len(seen) - 1
        /\ \A i \in 1..Len(rest) : rest[i] = IF i < k THEN seen[i] ELSE seen[i + 1]
    <3>1. rest = RemoveFirst(seen, seen[k])
      BY <2>1, <2>2
    <3>2. Cut(RemoveFirst(seen, seen[k]), seen, k)
      BY <1>1, Without, Zenon
    <3> QED BY <3>1, <3>2 DEF Cut
  <2>4. ASSUME NEW i \in 1..Len(rest)
        PROVE  \E m \in 1..Len(seen) : m # k /\ m = (IF i < k THEN i ELSE i + 1) /\ rest[i] = seen[m]
    <3>1. CASE i < k
      BY <1>1, <2>3, <3>1
    <3>2. CASE ~(i < k)
      <4>1. i + 1 \in 1..Len(seen) /\ i + 1 # k
        BY <1>1, <2>3, <3>2
      <4> QED BY <2>3, <3>2, <4>1
    <3> QED BY <3>1, <3>2
  <2>5. \A i \in 1..Len(rest) : rest[i] # tag
    BY <1>1, <2>1, <2>4 DEF Distinct
  <2>6. Distinct(rest)
    <3> SUFFICES ASSUME NEW i \in 1..Len(rest), NEW l \in 1..Len(rest), rest[i] = rest[l]
                 PROVE  i = l
      BY DEF Distinct
    <3>1. (IF i < k THEN i ELSE i + 1) = (IF l < k THEN l ELSE l + 1)
      BY <1>1, <2>4 DEF Distinct
    <3> QED BY <3>1
  <2>7. h = q \o rest
    BY <1>0, <1>2, <2>2 DEF Newest
  <2>8. Len(rest) < HistoryLimit
    BY <1>1, <2>3
  <2>9. /\ Short(h) /\ h # <<>> /\ h[1] = tag
        /\ \A i \in 1..Len(h) : h[i] = tag \/ \E m \in 1..Len(rest) : h[i] = rest[m]
    <3>1. Lacks(rest, tag)
      BY <2>5 DEF Lacks
    <3>2. rest \in Seq(Versions)
      BY <2>3
    <3>3. Leads(q \o rest, tag, rest)
      BY <1>0, <2>6, <2>8, <3>1, <3>2, Pushed, Zenon
    <3> QED BY <2>7, <3>3 DEF Leads
  <2> QED BY <2>4, <2>9
<1>3. CASE tag \notin Range(seen)
  <2>1. PICK n \in 0..Len(seen) : n = IF Len(seen) < HistoryLimit THEN Len(seen) ELSE HistoryLimit - 1
    <3>1. \A l, m \in Nat : l <= m /\ m > 0 => (IF l < m THEN l ELSE m - 1) \in 0..l
      OBVIOUS
    <3>2. (IF Len(seen) < HistoryLimit THEN Len(seen) ELSE HistoryLimit - 1) \in 0..Len(seen)
      BY <1>1, <3>1
    <3> QED BY <3>2
  <2>2. PICK rest : rest = SubSeq(seen, 1, n)
    OBVIOUS
  <2>3. rest \in Seq(Versions) /\ Len(rest) = n /\ \A i \in 1..n : rest[i] = seen[i]
    <3>1. 1 \in 1..Len(seen) + 1
      BY <1>1
    <3>2. /\ rest \in Seq(Versions) /\ Len(rest) = (IF 1 <= n THEN n - 1 + 1 ELSE 0)
          /\ \A i \in 1..(n - 1 + 1) : rest[i] = seen[1 + i - 1]
      BY <1>1, <2>2, <3>1, SubSeqProperties
    <3> QED BY <3>2
  <2>4. \A i \in 1..Len(rest) : i \in 1..Len(seen) /\ rest[i] = seen[i]
    BY <1>1, <2>3
  <2>5. \A i \in 1..Len(rest) : rest[i] # tag
    BY <1>1, <1>3, <2>4 DEF Range
  <2>6. Distinct(rest)
    BY <1>1, <2>4 DEF Distinct
  <2>7. h = q \o rest
    BY <1>0, <1>3, <2>1, <2>2 DEF Newest
  <2>8. Len(rest) < HistoryLimit
    <3>1. \A l, m \in Nat : l <= m /\ m > 0 => (IF l < m THEN l ELSE m - 1) < m
      OBVIOUS
    <3> QED BY <1>1, <2>1, <2>3, <3>1
  <2>9. /\ Short(h) /\ h # <<>> /\ h[1] = tag
        /\ \A i \in 1..Len(h) : h[i] = tag \/ \E m \in 1..Len(rest) : h[i] = rest[m]
    <3>1. Lacks(rest, tag)
      BY <2>5 DEF Lacks
    <3>2. rest \in Seq(Versions)
      BY <2>3
    <3>3. Leads(q \o rest, tag, rest)
      BY <1>0, <2>6, <2>8, <3>1, <3>2, Pushed, Zenon
    <3> QED BY <2>7, <3>3 DEF Leads
  <2> QED BY <2>4, <2>9
<1> QED BY <1>2, <1>3

(* What a job that was alone has read was brought up. *)
LEMMA SeenRan ==
  ASSUME Inv, NEW j \in Jobs, Active(job[j]), ~overlapped
  PROVE  \A i \in 1..Len(job[j].seen) : job[j].seen[i] \in ran[Head(job[j].todo)]
<1>1. j \in Underway
  BY DEF Underway, Active, Working
<1>2. InOrder(job[j])
  BY <1>1 DEF Inv, Solo
<1> QED BY <1>2 DEF InOrder

(* rollback --to previous: the second tag of a history is a version.       *)
LEMMA PickPreviousStep ==
  ASSUME Inv, NEW j \in Jobs, PickPrevious(j)
  PROVE  Inv'
<1>1. PICK r : r = job[j]
  OBVIOUS
<1>2. /\ Active(r) /\ Head(r.steps) = "pick" /\ Rules(r.cmd, "pick", Past(r))
      /\ On(j) = Head(r.todo) /\ Head(r.todo) \in Droplets /\ At(j, "pick")
      /\ \A y \in Past(r) : Belongs(r.cmd.op, y)
  BY <1>1, Begin DEF PickPrevious
<1>3. /\ source' = source /\ override' = override /\ image' = image /\ running' = running
      /\ history' = history /\ schema' = schema /\ files' = files /\ nginx' = nginx /\ ran' = ran
      /\ faults' = faults /\ UNCHANGED ghosts
  BY DEF PickPrevious, remote, edge
<1>4. PICK h : h = history[Head(r.todo)]
  OBVIOUS
<1>5. States
  BY DEF Inv
<1>6. ASSUME job' = [k \in Jobs |-> job'[k]] PROVE States'
  BY <1>3, <1>5, <1>6 DEF States, Down
<1>7. HistoryRan'
  BY <1>3, SameHistory
<1>8. Past(r) = {} /\ r.cmd.tag = Previous
  BY <1>2 DEF Rules
<1>9. CASE Become(j, Raise(r))
  <2>1. PICK r2 : r2 = Raise(r)
    OBVIOUS
  <2>2. Lost(r, r2) /\ job' = [job EXCEPT ![j] = r2]
    BY <1>2, <1>9, <2>1, Raises DEF Become
  <2>3. States'
    <3>1. job' = [k \in Jobs |-> job'[k]]
      BY <1>5, <2>2 DEF States
    <3> QED BY <1>6, <3>1
  <2>4. Blamed'
    BY <1>1, <1>2, <1>3, <2>2, QuietStep DEF GivenUp
  <2> QED BY <1>1, <1>2, <1>3, <1>7, <2>2, <2>3, <2>4, Dropped
<1>10. CASE Len(h) >= 2 /\ Become(j, NextStep([r EXCEPT !.tag = h[2]]))
  <2>1. h[2] \in Versions
    <3>1. h \in Seq(Versions) /\ Len(h) \in Nat
      BY <1>2, <1>4, <1>5 DEF States, Short
    <3>2. 2 \in 1..Len(h)
      BY <1>10, <3>1
    <3> QED BY <3>1, <3>2
  <2>2. PICK p : p = [r EXCEPT !.tag = h[2]]
    OBVIOUS
  <2>3. PICK r2 : r2 = NextStep(p)
    OBVIOUS
  <2>4. DOMAIN r = Fields /\ Short(r.seen) /\ r.cmd \in Commands /\ Working(r)
    BY <1>2 DEF Active
  <2>5. /\ DOMAIN p = Fields /\ p.cmd = r.cmd /\ p.todo = r.todo /\ p.steps = r.steps
        /\ p.tag = h[2] /\ p.seen = r.seen /\ p.failed = r.failed /\ p.lapsed = r.lapsed
    BY <2>2, <2>4 DEF Fields
  <2>6. Whole(p) = Whole(r) /\ Passed(p) = Passed(r) /\ Past(p) = Past(r)
    BY <2>5 DEF Whole, Passed, Past
  <2>7. Active(p)
    BY <1>8, <2>1, <2>4, <2>5, <2>6 DEF Active, Working
  <2>8. Alike(r, p)
    BY <2>5, <2>6, <2>7 DEF Alike
  <2>9. Onward(p, r2, {"pick"})
    BY <1>2, <2>1, <2>3, <2>5, <2>7, MoveOn
  <2>10. job' = [job EXCEPT ![j] = r2]
    BY <1>10, <2>2, <2>3 DEF Become
  <2>11. States'
    <3>1. job' = [k \in Jobs |-> job'[k]]
      BY <1>5, <2>10 DEF States
    <3> QED BY <1>6, <3>1
  <2>12. Blamed'
    <3>1. Kept(r, r2)
      BY <2>8, <2>9, KeptOnward DEF Kept
    <3>2. Blamed /\ job = [k \in Jobs |-> job[k]]
      BY DEF Inv, States
    <3> QED BY <1>1, <1>3, <2>10, <3>1, <3>2, Quiet
  <2>13. \A y \in Past(p) \cup {"pick"} : Leaves(p, y)'
    BY <1>8, <2>6 DEF Leaves
  <2>14. ~overlapped => \A i \in 1..Len(p.seen) : p.seen[i] \in ran'[Head(r.todo)]
    BY <1>1, <1>2, <1>3, <2>5, SeenRan
  <2> QED BY <1>1, <1>2, <1>3, <1>7, <2>8, <2>9, <2>10, <2>11, <2>12, <2>13, <2>14, Carried
<1> QED BY <1>1, <1>2, <1>4, <1>9, <1>10 DEF PickPrevious

(* The history a job that is alone has read is one of tags that were       *)
(* brought up.                                                             *)
LEMMA ReadHistoryStep ==
  ASSUME Inv, NEW j \in Jobs, ReadHistory(j)
  PROVE  Inv'
<1>1. PICK r : r = job[j]
  OBVIOUS
<1>2. /\ Active(r) /\ Head(r.steps) = "read" /\ Rules(r.cmd, "read", Past(r))
      /\ On(j) = Head(r.todo) /\ Head(r.todo) \in Droplets /\ At(j, "read")
      /\ \A y \in Past(r) : Belongs(r.cmd.op, y)
  BY <1>1, Begin DEF ReadHistory
<1>3. /\ source' = source /\ override' = override /\ image' = image /\ running' = running
      /\ history' = history /\ schema' = schema /\ files' = files /\ nginx' = nginx /\ ran' = ran
      /\ faults' = faults /\ UNCHANGED ghosts
  BY DEF ReadHistory, remote, edge
<1>4. PICK h : h = history[Head(r.todo)]
  OBVIOUS
<1>5. States /\ Short(h)
  BY <1>2, <1>4 DEF Inv, States
<1>6. PICK p : p = [r EXCEPT !.seen = h]
  OBVIOUS
<1>7. PICK r2 : r2 = NextStep(p)
  OBVIOUS
<1>8. DOMAIN r = Fields /\ r.cmd \in Commands /\ Working(r)
  BY <1>2 DEF Active
<1>9. /\ DOMAIN p = Fields /\ p.cmd = r.cmd /\ p.todo = r.todo /\ p.steps = r.steps
      /\ p.tag = r.tag /\ p.seen = h /\ p.failed = r.failed /\ p.lapsed = r.lapsed
  BY <1>6, <1>8 DEF Fields
<1>10. Whole(p) = Whole(r) /\ Passed(p) = Passed(r) /\ Past(p) = Past(r)
  BY <1>9 DEF Whole, Passed, Past
<1>11. Active(p)
  BY <1>5, <1>8, <1>9, <1>10 DEF Active, Working
<1>12. Alike(r, p)
  BY <1>9, <1>10, <1>11 DEF Alike
<1>13. Onward(p, r2, {"read"})
  BY <1>2, <1>7, <1>9, <1>11, MoveOn
<1>14. job' = [job EXCEPT ![j] = r2]
  BY <1>1, <1>2, <1>4, <1>6, <1>7 DEF ReadHistory, Become
<1>15. States'
  <2>1. job' = [k \in Jobs |-> job'[k]]
    BY <1>5, <1>14 DEF States
  <2> QED BY <1>3, <1>5, <2>1 DEF States, Down
<1>16. Blamed'
  <2>1. Kept(r, r2)
    BY <1>12, <1>13, KeptOnward DEF Kept
  <2>2. Blamed /\ job = [k \in Jobs |-> job[k]]
    BY DEF Inv, States
  <2> QED BY <1>1, <1>3, <1>14, <2>1, <2>2, Quiet
<1>17. HistoryRan'
  BY <1>3, SameHistory
<1>18. ASSUME ~overlapped
       PROVE  /\ \A y \in Past(p) \cup {"read"} : Leaves(p, y)'
              /\ \A i \in 1..Len(p.seen) : p.seen[i] \in ran'[Head(r.todo)]
  <2>1. ASSUME NEW y \in Past(p) \cup {"read"} PROVE Leaves(p, y)'
    <3>1. y = "read" \/ Leaves(r, y)
      BY <1>1, <1>2, <1>10, <1>18, Behind
    <3>2. Leaves(r, y)'
      BY <1>3, <3>1, Undisturbed
    <3>3. p.cmd = r.cmd /\ p.todo = r.todo /\ p.tag = r.tag /\ (r.lapsed => p.lapsed)
      BY <1>9
    <3> QED BY <3>2, <3>3, StillLeft
  <2>2. \A i \in 1..Len(h) : h[i] \in ran[Head(r.todo)]
    BY <1>1, <1>2, <1>4, <1>18, Behind
  <2> QED BY <1>3, <1>9, <2>1, <2>2
<1> QED BY <1>1, <1>2, <1>3, <1>12, <1>13, <1>14, <1>15, <1>16, <1>17, <1>18, Carried

(* What is saved is short and distinct whoever wrote in between, and was   *)
(* brought up there when the job was alone: it brought its own tag up      *)
(* before it saves.                                                        *)
LEMMA SaveHistoryStep ==
  ASSUME Inv, NEW j \in Jobs, SaveHistory(j)
  PROVE  Inv'
<1>1. PICK r : r = job[j]
  OBVIOUS
<1>2. /\ Active(r) /\ Head(r.steps) = "save" /\ Rules(r.cmd, "save", Past(r))
      /\ On(j) = Head(r.todo) /\ Head(r.todo) \in Droplets /\ At(j, "save")
      /\ \A y \in Past(r) : Belongs(r.cmd.op, y)
  BY <1>1, Begin DEF SaveHistory
<1>3. /\ faults' \in 0..MaxFaults /\ job' = [k \in Jobs |-> job'[k]]
      /\ \E r2 : /\ job' = [job EXCEPT ![j] = r2]
                 /\ Onward(r, r2, {"save"}) \/ GivenUp(r, r2, "save")
  BY <1>1, AfterDone DEF SaveHistory
<1>4. PICK r2 : /\ job' = [job EXCEPT ![j] = r2]
                /\ Onward(r, r2, {"save"}) \/ GivenUp(r, r2, "save")
  BY <1>3
<1>5. PICK d \in Droplets : d = Head(r.todo)
  BY <1>2
<1>6. States
  BY DEF Inv
<1>7. PICK h : h = Newest(r.tag, r.seen)
  OBVIOUS
<1>8. /\ source' = source /\ override' = override /\ image' = image /\ running' = running
      /\ schema' = schema /\ files' = files /\ nginx' = nginx /\ ran' = ran
      /\ history' = [history EXCEPT ![d] = h] /\ UNCHANGED ghosts
  BY <1>1, <1>2, <1>5, <1>7 DEF SaveHistory, edge
<1>9. r.tag \in Versions
  <2>1. /\ r.cmd.tag # Previous => r.tag = r.cmd.tag
        /\ r.cmd.tag = Previous => r.tag \in Versions
        /\ r.cmd.tag # None
    BY <1>2 DEF Active, Working, Rules
  <2>2. r.cmd.tag \in Versions \cup {None, Previous}
    BY <1>2, CommandFacts DEF Active
  <2> QED BY <2>1, <2>2
<1>10. /\ Short(h) /\ h # <<>> /\ h[1] = r.tag
       /\ \A i \in 1..Len(h) : h[i] = r.tag \/ \E k \in 1..Len(r.seen) : h[i] = r.seen[k]
  <2>1. Short(r.seen)
    BY <1>2 DEF Active
  <2> QED BY <1>7, <1>9, <2>1, NewestFacts
<1>11. history'[d] = h /\ \A e \in Droplets \ {d} : history'[e] = history[e]
  <2>1. history = [e \in Droplets |-> history[e]]
    BY <1>6 DEF States
  <2> QED BY <1>8, <2>1
<1>12. States'
  <2>1. history' = [e \in Droplets |-> history'[e]]
    BY <1>6, <1>8 DEF States
  <2>2. \A e \in Droplets : Short(history'[e])
    BY <1>6, <1>10, <1>11 DEF States
  <2> QED BY <1>3, <1>6, <1>8, <2>1, <2>2 DEF States, Down
<1>13. Blamed'
  BY <1>1, <1>2, <1>4, <1>8, QuietStep
<1>14. ASSUME ~overlapped PROVE r.tag \in ran[d]
  <2>1. {"tag", "up"} \subseteq Past(r) /\ r.cmd.op # "redeploy"
    BY <1>2 DEF Rules, Belongs
  <2>2. Leaves(r, "tag") /\ Leaves(r, "up")
    BY <1>1, <1>2, <1>14, <2>1, Behind
  <2> QED BY <1>5, <2>1, <2>2 DEF Leaves
<1>15. HistoryRan'
  <2> SUFFICES ASSUME ~overlapped, NEW e \in Droplets, NEW i \in 1..Len(history'[e])
               PROVE  history'[e][i] \in ran[e]
    BY <1>8 DEF HistoryRan, ghosts
  <2>1. CASE e = d
    <3>1. \A k \in 1..Len(r.seen) : r.seen[k] \in ran[d]
      BY <1>1, <1>2, <1>5, SeenRan
    <3> QED BY <1>10, <1>11, <1>14, <2>1, <3>1
  <2>2. CASE e # d
    BY <1>1, <1>2, <1>11, <2>2, Behind
  <2> QED BY <2>1, <2>2
<1>16. ASSUME ~overlapped PROVE \A y \in Past(r) \cup {"save"} : Leaves(r, y)'
  <2> TAKE y \in Past(r) \cup {"save"}
  <2>1. CASE y = "save"
    BY <1>5, <1>10, <1>11, <2>1 DEF Leaves
  <2>2. CASE y # "save"
    <3>1. Leaves(r, y)
      BY <1>1, <1>2, <1>16, <2>2, Behind
    <3> QED BY <1>8, <2>2, <3>1, Undisturbed
  <2> QED BY <2>1, <2>2
<1>17. ASSUME NEW e \in Droplets \ {Head(r.todo)}
       PROVE  running'[e] = running[e] /\ history'[e] = history[e]
  BY <1>5, <1>8, <1>11
<1> QED BY <1>1, <1>2, <1>4, <1>8, <1>12, <1>13, <1>15, <1>16, <1>17, Stepped

-------------------------------------------------------------------------------
(* The migrations and the certificates. *)

(* A step of alembic or psql that sets the schema to v. *)
LEMMA SchemaStep ==
  ASSUME Inv, NEW j \in Jobs, NEW r, r = job[j], NEW x, x \in {"current", "upgrade", "downgrade", "drop"},
         At(j, x), NEW v \in 0..MaxVersion, schema' = v, Done(j),
         UNCHANGED <<remote, edge, ghosts, ran>>,
         ~overlapped => \A y \in Past(r) \cup {x} : y = "upgrade" => running[Head(r.todo)][2] \in {v, Mixed}
  PROVE  Inv'
<1>1. /\ Active(r) /\ Head(r.steps) = x
  BY Begin
<1>2. /\ faults' \in 0..MaxFaults /\ job' = [k \in Jobs |-> job'[k]]
      /\ \E r2 : /\ job' = [job EXCEPT ![j] = r2]
                 /\ Onward(r, r2, {x}) \/ GivenUp(r, r2, x)
  BY AfterDone
<1>3. PICK r2 : /\ job' = [job EXCEPT ![j] = r2]
                /\ Onward(r, r2, {x}) \/ GivenUp(r, r2, x)
  BY <1>2
<1>4. /\ source' = source /\ override' = override /\ image' = image /\ running' = running
      /\ history' = history /\ files' = files /\ nginx' = nginx /\ ran' = ran
      /\ UNCHANGED ghosts
  BY DEF remote, edge
<1>5. States'
  <2>1. States
    BY DEF Inv
  <2> QED BY <1>2, <1>4, <2>1 DEF States, Down
<1>6. Blamed'
  BY <1>1, <1>3, <1>4, QuietStep
<1>7. HistoryRan'
  BY <1>4, SameHistory
<1>8. ASSUME ~overlapped PROVE \A y \in Past(r) \cup {x} : Leaves(r, y)'
  <2> TAKE y \in Past(r) \cup {x}
  <2>1. y \in {"current", "downgrade", "drop"} \/ y = "upgrade" \/ Leaves(r, y)
    BY <1>1, <1>8, Behind
  <2>2. CASE y \in {"current", "downgrade", "drop"}
    BY <2>2 DEF Leaves
  <2>3. CASE y = "upgrade"
    BY <1>4, <1>8, <2>3 DEF Leaves
  <2>4. CASE y # "upgrade" /\ Leaves(r, y)
    BY <1>4, <2>4, Undisturbed
  <2> QED BY <2>1, <2>2, <2>3, <2>4
<1> QED BY <1>1, <1>3, <1>4, <1>5, <1>6, <1>7, <1>8, Stepped

(* alembic. *)
LEMMA AlembicStep ==
  ASSUME Inv, NEW j \in Jobs, NEW r, r = job[j], NEW x, x \in {"current", "upgrade", "downgrade"},
         At(j, x), NEW revisions \in SUBSET (0..MaxVersion), Alembic(j, revisions),
         ~overlapped => \A v \in revisions : \A y \in Past(r) \cup {x} :
                          y = "upgrade" => running[Head(r.todo)][2] \in {v, Mixed}
  PROVE  Inv'
<1>1. UNCHANGED <<remote, edge, ghosts, ran>>
  BY DEF Alembic
<1>2. ASSUME NEW v \in revisions, schema' = v, Done(j) PROVE Inv'
  <2>1. v \in 0..MaxVersion
    OBVIOUS
  <2>2. x \in {"current", "upgrade", "downgrade", "drop"}
    OBVIOUS
  <2>3. ~overlapped => \A y \in Past(r) \cup {x} : y = "upgrade" => running[Head(r.todo)][2] \in {v, Mixed}
    OBVIOUS
  <2> QED BY <1>1, <1>2, <2>1, <2>2, <2>3, SchemaStep
<1>3. ASSUME schema' = schema, Refused(j) PROVE Inv'
  BY <1>1, <1>3, AfterRefused
<1> QED BY <1>2, <1>3 DEF Alembic

(* alembic current changes nothing.                                        *)
LEMMA CurrentStep ==
  ASSUME Inv, NEW j \in Jobs, Current(j)
  PROVE  Inv'
<1>1. PICK r : r = job[j]
  OBVIOUS
<1>2. Active(r) /\ At(j, "current") /\ \A y \in Past(r) : Belongs(r.cmd.op, y)
  BY <1>1, Begin DEF Current
<1>3. PICK revisions : revisions = IF Heads(On(j)) = {} THEN {} ELSE {schema}
  OBVIOUS
<1>4. revisions \in SUBSET (0..MaxVersion) /\ revisions \subseteq {schema}
  BY <1>3 DEF Inv, States
<1>5. ASSUME ~overlapped, NEW v \in revisions, NEW y \in Past(r) \cup {"current"}, y = "upgrade"
      PROVE  running[Head(r.todo)][2] \in {v, Mixed}
  <2>1. Leaves(r, "upgrade")
    BY <1>1, <1>2, <1>5, Behind
  <2> QED BY <1>4, <2>1 DEF Leaves
<1>6. Alembic(j, revisions)
  BY <1>3 DEF Current
<1> QED BY <1>1, <1>2, <1>4, <1>5, <1>6, AlembicStep

(* alembic upgrade leaves the schema at the newest revision of the code,   *)
(* or of one of its two versions.                                          *)
LEMMA UpgradeStep ==
  ASSUME Inv, NEW j \in Jobs, Upgrade(j)
  PROVE  Inv'
<1>1. PICK r : r = job[j]
  OBVIOUS
<1>2. Active(r) /\ At(j, "upgrade") /\ On(j) = Head(r.todo)
  BY <1>1, Begin DEF Upgrade
<1>3. PICK revisions : revisions = Heads(On(j))
  OBVIOUS
<1>4. revisions \in SUBSET (0..MaxVersion)
  BY <1>3, DeployAssumption DEF Heads, Versions
<1>5. ASSUME NEW v \in revisions PROVE running[Head(r.todo)][2] \in {v, Mixed}
  BY <1>2, <1>3 DEF Heads
<1>6. Alembic(j, revisions)
  BY <1>3 DEF Upgrade
<1> QED BY <1>1, <1>2, <1>4, <1>5, <1>6, AlembicStep

(* alembic downgrade: a downgrade promises nothing about the running code. *)
LEMMA DowngradeStep ==
  ASSUME Inv, NEW j \in Jobs, Downgrade(j)
  PROVE  Inv'
<1>1. PICK r : r = job[j]
  OBVIOUS
<1>2. /\ Active(r) /\ At(j, "downgrade") /\ Rules(r.cmd, "downgrade", Past(r))
      /\ \A y \in Past(r) : Belongs(r.cmd.op, y)
  BY <1>1, Begin DEF Downgrade
<1>3. PICK revisions : revisions = IF Heads(On(j)) = {} \/ schema = 0 THEN {} ELSE {schema - 1}
  OBVIOUS
<1>4. revisions \in SUBSET (0..MaxVersion)
  <2>1. schema \in 0..MaxVersion
    BY DEF Inv, States
  <2> QED BY <1>3, <2>1, DeployAssumption
<1>5. "upgrade" \notin Past(r) \cup {"downgrade"}
  <2>1. r.cmd.op \in Operations /\ Belongs(r.cmd.op, "downgrade")
    BY <1>2, CommandFacts DEF Active, Rules
  <2>2. r.cmd.op = "downgrade"
    BY <2>1 DEF Belongs, Operations
  <2> QED BY <1>2, <2>2 DEF Belongs
<1>6. Alembic(j, revisions)
  BY <1>3 DEF Downgrade
<1> QED BY <1>1, <1>2, <1>4, <1>5, <1>6, AlembicStep

(* Dropping the schema comes before the upgrade in every plan that has     *)
(* both.                                                                   *)
LEMMA DropSchemaStep ==
  ASSUME Inv, NEW j \in Jobs, DropSchema(j)
  PROVE  Inv'
<1>1. PICK r : r = job[j]
  OBVIOUS
<1>2. Active(r) /\ At(j, "drop") /\ Rules(r.cmd, "drop", Past(r))
  BY <1>1, Begin DEF DropSchema
<1>3. UNCHANGED <<remote, edge, ghosts, ran>>
  BY DEF DropSchema
<1>4. CASE schema' = 0 /\ Done(j)
  <2>1. 0 \in 0..MaxVersion
    BY DeployAssumption
  <2>2. \A y \in Past(r) \cup {"drop"} : y # "upgrade"
    BY <1>2 DEF Rules
  <2> QED BY <1>1, <1>2, <1>3, <1>4, <2>1, <2>2, SchemaStep
<1>5. CASE schema' = schema /\ Refused(j)
  BY <1>2, <1>3, <1>5, AfterRefused
<1> QED BY <1>4, <1>5 DEF DropSchema

(* A setup goes on only with a certificate and a key.                      *)
LEMMA GivenPairStep ==
  ASSUME Inv, NEW j \in Jobs, GivenPair(j)
  PROVE  Inv'
<1>1. PICK r : r = job[j]
  OBVIOUS
<1>2. /\ Active(r) /\ Head(r.steps) = "given" /\ Rules(r.cmd, "given", Past(r))
      /\ On(j) = Head(r.todo) /\ Head(r.todo) \in Droplets /\ At(j, "given")
      /\ \A y \in Past(r) : Belongs(r.cmd.op, y)
  BY <1>1, Begin DEF GivenPair
<1>3. /\ source' = source /\ override' = override /\ image' = image /\ running' = running
      /\ history' = history /\ schema' = schema /\ files' = files /\ nginx' = nginx /\ ran' = ran
      /\ faults' = faults /\ UNCHANGED ghosts
  BY DEF GivenPair, remote, edge
<1>4. States
  BY DEF Inv
<1>5. PICK r2 : /\ job' = [job EXCEPT ![j] = r2]
                /\ Onward(r, r2, {"given"}) \/ GivenUp(r, r2, "given")
  <2>1. CASE r.cmd.pair # NoPair /\ Become(j, NextStep(r))
    <3>1. PICK r2 : r2 = NextStep(r)
      OBVIOUS
    <3>2. Onward(r, r2, {"given"})
      BY <1>2, <2>1, <3>1, MoveOn
    <3> QED BY <2>1, <3>1, <3>2 DEF Become
  <2>2. CASE Become(j, Raise(r))
    <3>1. PICK r2 : r2 = Raise(r)
      OBVIOUS
    <3>2. Lost(r, r2)
      BY <1>2, <3>1, Raises
    <3> QED BY <2>2, <3>1, <3>2 DEF Become, GivenUp
  <2> QED BY <1>1, <2>1, <2>2 DEF GivenPair
<1>6. States'
  <2>1. job' = [k \in Jobs |-> job'[k]]
    BY <1>4, <1>5 DEF States
  <2> QED BY <1>3, <1>4, <2>1 DEF States, Down
<1>7. Blamed'
  BY <1>1, <1>2, <1>3, <1>5, QuietStep
<1>8. HistoryRan'
  BY <1>3, SameHistory
<1>9. Past(r) = {} /\ Leaves(r, "given")'
  BY <1>2 DEF Rules, Leaves
<1> QED BY <1>1, <1>2, <1>3, <1>5, <1>6, <1>7, <1>8, <1>9, Stepped

(* The pair a certificate or a key is uploaded from. *)
LEMMA Uploading ==
  ASSUME NEW r, Active(r), NEW x \in {"cert", "key"}, Rules(r.cmd, x, Past(r))
  PROVE  r.cmd.pair \in Pairs /\ r.cmd.op = "ssl" /\ Tampering(r)
<1>1. "given" \in Past(r) /\ "check" \notin Past(r) /\ Belongs(r.cmd.op, x)
  BY DEF Rules
<1>2. r.cmd \in Commands /\ r.todo # <<>>
  BY DEF Active, Working
<1>3. r.cmd.pair \in Pairs \cup {NoPair} /\ r.cmd.op \in Operations
  BY <1>2, CommandFacts
<1>4. r.cmd.pair # NoPair
  BY <1>1 DEF Active, Working
<1>5. r.cmd.op = "ssl"
  BY <1>1, <1>3 DEF Belongs, Operations
<1> QED BY <1>1, <1>2, <1>3, <1>4, <1>5 DEF Tampering

(* Files that are written by a setup that has not checked them yet. *)
LEMMA Written ==
  ASSUME Inv, NEW j \in Jobs, NEW r, r = job[j], Active(r), Tampering(r),
         NEW x, x \notin {"up", "check"}, NEW r2, Onward(r, r2, {x}) \/ GivenUp(r, r2, x),
         job' = [job EXCEPT ![j] = r2], running' = running, nginx' = nginx
  PROVE  Blamed'
<1>1. Kept(r, r2) /\ Blamed /\ States
  BY QuietStep DEF Inv
<1>2. \A k \in Jobs : job'[k] = IF k = j THEN r2 ELSE job[k]
  BY <1>1 DEF States
<1>3. Tampering(job'[j]) /\ \A k \in Jobs : \A e : Guilty(job[k], e) => Guilty(job'[k], e)
  BY <1>1, <1>2 DEF Kept
<1>4. \A e \in Droplets : running'[e] = Down => \E k \in Jobs : Guilty(job'[k], e)
  BY <1>1, <1>3 DEF Blamed
<1> QED BY <1>3, <1>4, Accused

(* The first file of the pair: from here the setup answers for files that  *)
(* do not match until it has checked them.                                 *)
LEMMA UploadCertStep ==
  ASSUME Inv, NEW j \in Jobs, UploadCert(j)
  PROVE  Inv'
<1>1. PICK r : r = job[j]
  OBVIOUS
<1>2. /\ Active(r) /\ Head(r.steps) = "cert" /\ Rules(r.cmd, "cert", Past(r))
      /\ On(j) = Head(r.todo) /\ Head(r.todo) \in Droplets /\ At(j, "cert")
      /\ \A y \in Past(r) : Belongs(r.cmd.op, y)
  BY <1>1, Begin DEF UploadCert
<1>3. /\ faults' \in 0..MaxFaults /\ job' = [k \in Jobs |-> job'[k]]
      /\ \E r2 : /\ job' = [job EXCEPT ![j] = r2]
                 /\ Onward(r, r2, {"cert"}) \/ GivenUp(r, r2, "cert")
  BY <1>1, AfterDone DEF UploadCert
<1>4. PICK r2 : /\ job' = [job EXCEPT ![j] = r2]
                /\ Onward(r, r2, {"cert"}) \/ GivenUp(r, r2, "cert")
  BY <1>3
<1>5. PICK d \in Droplets : d = Head(r.todo)
  BY <1>2
<1>6. States
  BY DEF Inv
<1>7. /\ source' = source /\ override' = override /\ image' = image /\ running' = running
      /\ history' = history /\ schema' = schema /\ nginx' = nginx /\ ran' = ran
      /\ files' = <<r.cmd.pair, files[2]>> /\ UNCHANGED ghosts
  BY <1>1 DEF UploadCert, remote
<1>8. r.cmd.pair \in Pairs /\ r.cmd.op = "ssl" /\ Tampering(r)
  BY <1>2, Uploading
<1>9. files'[1] = r.cmd.pair /\ files'[2] = files[2] /\ files' \in Pairs \X Pairs
  BY <1>6, <1>7, <1>8 DEF States
<1>10. States'
  BY <1>3, <1>6, <1>7, <1>9 DEF States, Down
<1>11. Blamed'
  BY <1>1, <1>2, <1>4, <1>7, <1>8, Written
<1>12. HistoryRan'
  BY <1>7, SameHistory
<1>13. ASSUME ~overlapped PROVE \A y \in Past(r) \cup {"cert"} : Leaves(r, y)'
  <2> TAKE y \in Past(r) \cup {"cert"}
  <2>1. y # "reload"
    BY <1>2 DEF Rules
  <2>2. y = "cert" \/ Leaves(r, y)
    BY <1>1, <1>2, <1>13, Behind
  <2>3. CASE y = "cert"
    BY <1>9, <2>3 DEF Leaves
  <2>4. CASE y = "key"
    BY <1>9, <2>2, <2>4 DEF Leaves
  <2>5. CASE y \notin {"cert", "key"}
    BY <1>7, <2>1, <2>2, <2>5, Undisturbed
  <2> QED BY <2>3, <2>4, <2>5
<1> QED BY <1>1, <1>2, <1>4, <1>7, <1>10, <1>11, <1>12, <1>13, Stepped

(* The second file of the pair.                                            *)
LEMMA UploadKeyStep ==
  ASSUME Inv, NEW j \in Jobs, UploadKey(j)
  PROVE  Inv'
<1>1. PICK r : r = job[j]
  OBVIOUS
<1>2. /\ Active(r) /\ Head(r.steps) = "key" /\ Rules(r.cmd, "key", Past(r))
      /\ On(j) = Head(r.todo) /\ Head(r.todo) \in Droplets /\ At(j, "key")
      /\ \A y \in Past(r) : Belongs(r.cmd.op, y)
  BY <1>1, Begin DEF UploadKey
<1>3. /\ faults' \in 0..MaxFaults /\ job' = [k \in Jobs |-> job'[k]]
      /\ \E r2 : /\ job' = [job EXCEPT ![j] = r2]
                 /\ Onward(r, r2, {"key"}) \/ GivenUp(r, r2, "key")
  BY <1>1, AfterDone DEF UploadKey
<1>4. PICK r2 : /\ job' = [job EXCEPT ![j] = r2]
                /\ Onward(r, r2, {"key"}) \/ GivenUp(r, r2, "key")
  BY <1>3
<1>5. PICK d \in Droplets : d = Head(r.todo)
  BY <1>2
<1>6. States
  BY DEF Inv
<1>7. /\ source' = source /\ override' = override /\ image' = image /\ running' = running
      /\ history' = history /\ schema' = schema /\ nginx' = nginx /\ ran' = ran
      /\ files' = <<files[1], r.cmd.pair>> /\ UNCHANGED ghosts
  BY <1>1 DEF UploadKey, remote
<1>8. r.cmd.pair \in Pairs /\ r.cmd.op = "ssl" /\ Tampering(r)
  BY <1>2, Uploading
<1>9. files'[2] = r.cmd.pair /\ files'[1] = files[1] /\ files' \in Pairs \X Pairs
  BY <1>6, <1>7, <1>8 DEF States
<1>10. States'
  BY <1>3, <1>6, <1>7, <1>9 DEF States, Down
<1>11. Blamed'
  BY <1>1, <1>2, <1>4, <1>7, <1>8, Written
<1>12. HistoryRan'
  BY <1>7, SameHistory
<1>13. ASSUME ~overlapped PROVE \A y \in Past(r) \cup {"key"} : Leaves(r, y)'
  <2> TAKE y \in Past(r) \cup {"key"}
  <2>1. y # "reload"
    BY <1>2 DEF Rules
  <2>2. y = "key" \/ Leaves(r, y)
    BY <1>1, <1>2, <1>13, Behind
  <2>3. CASE y = "key"
    BY <1>9, <2>3 DEF Leaves
  <2>4. CASE y = "cert"
    BY <1>9, <2>2, <2>4 DEF Leaves
  <2>5. CASE y \notin {"key", "cert"}
    BY <1>7, <2>1, <2>2, <2>5, Undisturbed
  <2> QED BY <2>3, <2>4, <2>5
<1> QED BY <1>1, <1>2, <1>4, <1>7, <1>10, <1>11, <1>12, <1>13, Stepped

(* The setup goes on with files that match and can be loaded, or fails and *)
(* keeps the blame.                                                        *)
LEMMA CheckPairStep ==
  ASSUME Inv, NEW j \in Jobs, CheckPair(j)
  PROVE  Inv'
<1>1. PICK r : r = job[j]
  OBVIOUS
<1>2. /\ Active(r) /\ Head(r.steps) = "check" /\ Rules(r.cmd, "check", Past(r))
      /\ On(j) = Head(r.todo) /\ Head(r.todo) \in Droplets /\ At(j, "check")
      /\ \A y \in Past(r) : Belongs(r.cmd.op, y)
  BY <1>1, Begin DEF CheckPair
<1>3. /\ source' = source /\ override' = override /\ image' = image /\ running' = running
      /\ history' = history /\ schema' = schema /\ files' = files /\ nginx' = nginx /\ ran' = ran
      /\ UNCHANGED ghosts
  BY DEF CheckPair, remote, edge
<1>4. States
  BY DEF Inv
<1>5. CASE Accepted(files) /\ Done(j)
  <2>1. /\ faults' \in 0..MaxFaults /\ job' = [k \in Jobs |-> job'[k]]
        /\ \E r2 : /\ job' = [job EXCEPT ![j] = r2]
                   /\ Onward(r, r2, {"check"}) \/ GivenUp(r, r2, "check")
    BY <1>1, <1>2, <1>5, AfterDone
  <2>2. PICK r2 : /\ job' = [job EXCEPT ![j] = r2]
                  /\ Onward(r, r2, {"check"}) \/ GivenUp(r, r2, "check")
    BY <2>1
  <2>3. States'
    BY <1>3, <1>4, <2>1 DEF States, Down
  <2>4. nginx # NoPair /\ files[1] = files[2] /\ files[1] # "junk" /\ Loaded # NoPair
    <3>1. files[1] \in Pairs
      BY <1>4 DEF States
    <3> QED BY <1>5, <3>1, DeployAssumption DEF Accepted, Loaded
  <2>5. Blamed'
    <3>1. \A d : Guilty(r, d) => Guilty(r2, d)
      <4>1. CASE Onward(r, r2, {"check"})
        BY <1>2, <4>1, AlikeItself, KeptOnward
      <4>2. CASE GivenUp(r, r2, "check")
        BY <1>2, <4>2, KeptGivenUp DEF Kept
      <4> QED BY <2>2, <4>1, <4>2
    <3>2. \A k \in Jobs : job'[k] = IF k = j THEN r2 ELSE job[k]
      BY <1>4, <2>2 DEF States
    <3>3. \A d \in Droplets : running'[d] = Down => \E k \in Jobs : Guilty(job'[k], d)
      BY <1>1, <1>3, <3>1, <3>2 DEF Inv, Blamed
    <3>4. Loaded' # NoPair /\ nginx' # NoPair
      BY <1>3, <2>4 DEF Loaded
    <3> QED BY <3>3, <3>4, Accused
  <2>6. HistoryRan'
    BY <1>3, SameHistory
  <2>7. ASSUME ~overlapped PROVE \A y \in Past(r) \cup {"check"} : Leaves(r, y)'
    <3> TAKE y \in Past(r) \cup {"check"}
    <3>1. CASE y = "check"
      <4>1. Leaves(r, "cert")
        BY <1>1, <1>2, <2>7, Behind DEF Rules
      <4> QED BY <2>4, <3>1, <4>1 DEF Leaves
    <3>2. CASE y # "check"
      <4>1. Leaves(r, y)
        BY <1>1, <1>2, <2>7, <3>2, Behind
      <4> QED BY <1>3, <4>1, Undisturbed
    <3> QED BY <3>1, <3>2
  <2> QED BY <1>1, <1>2, <1>3, <2>2, <2>3, <2>5, <2>6, <2>7, Stepped
<1>6. CASE Refused(j)
  BY <1>2, <1>3, <1>6, AfterRefused DEF remote, edge
<1> QED BY <1>5, <1>6 DEF CheckPair

(* nginx is restarted after the check, so it serves the pair that was      *)
(* given; files that others have broken since are on their account.        *)
LEMMA RestartNginxStep ==
  ASSUME Inv, NEW j \in Jobs, RestartNginx(j)
  PROVE  Inv'
<1>1. PICK r : r = job[j]
  OBVIOUS
<1>2. /\ Active(r) /\ Head(r.steps) = "reload" /\ Rules(r.cmd, "reload", Past(r))
      /\ On(j) = Head(r.todo) /\ Head(r.todo) \in Droplets /\ At(j, "reload")
      /\ \A y \in Past(r) : Belongs(r.cmd.op, y)
  BY <1>1, Begin DEF RestartNginx
<1>3. /\ faults' \in 0..MaxFaults /\ job' = [k \in Jobs |-> job'[k]]
      /\ \E r2 : /\ job' = [job EXCEPT ![j] = r2]
                 /\ Onward(r, r2, {"reload"}) \/ GivenUp(r, r2, "reload")
  BY <1>1, AfterDone DEF RestartNginx
<1>4. PICK r2 : /\ job' = [job EXCEPT ![j] = r2]
                /\ Onward(r, r2, {"reload"}) \/ GivenUp(r, r2, "reload")
  BY <1>3
<1>5. PICK d \in Droplets : d = Head(r.todo)
  BY <1>2
<1>6. States
  BY DEF Inv
<1>7. /\ source' = source /\ override' = override /\ image' = image /\ running' = running
      /\ history' = history /\ schema' = schema /\ files' = files /\ ran' = ran
      /\ nginx' = Loaded /\ UNCHANGED ghosts
  BY DEF RestartNginx, remote
<1>8. Loaded \in Pairs \cup {NoPair} /\ Loaded' = Loaded
  BY <1>6, <1>7 DEF States, Loaded
<1>9. States'
  BY <1>3, <1>6, <1>7, <1>8 DEF States, Down
<1>10. Blamed'
  <2>1. Kept(r, r2) /\ Blamed
    BY <1>1, <1>2, <1>4, QuietStep DEF Inv
  <2>2. \A k \in Jobs : job'[k] = IF k = j THEN r2 ELSE job[k]
    BY <1>4, <1>6 DEF States
  <2>3. /\ \A k \in Jobs : \A e : Guilty(job[k], e) => Guilty(job'[k], e)
        /\ \A k \in Jobs : Tampering(job[k]) => Tampering(job'[k])
    BY <1>1, <2>1, <2>2 DEF Kept
  <2>4. \A e \in Droplets : running'[e] = Down => \E k \in Jobs : Guilty(job'[k], e)
    BY <1>7, <2>1, <2>3 DEF Blamed
  <2>5. Loaded = NoPair => \E k \in Jobs : Tampering(job'[k])
    BY <2>1, <2>3 DEF Blamed
  <2> QED BY <1>7, <1>8, <2>4, <2>5, Accused
<1>11. HistoryRan'
  BY <1>7, SameHistory
<1>12. ASSUME ~overlapped PROVE \A y \in Past(r) \cup {"reload"} : Leaves(r, y)'
  <2> TAKE y \in Past(r) \cup {"reload"}
  <2>1. Leaves(r, "cert") /\ Leaves(r, "key") /\ Leaves(r, "check")
    BY <1>1, <1>2, <1>12, Behind DEF Rules
  <2>2. Loaded = r.cmd.pair
    BY <2>1 DEF Leaves, Loaded
  <2>3. CASE y = "reload"
    BY <1>7, <1>8, <2>2, <2>3 DEF Leaves
  <2>4. CASE y # "reload"
    <3>1. Leaves(r, y)
      BY <1>1, <1>2, <1>12, <2>4, Behind
    <3> QED BY <1>7, <2>4, <3>1, Undisturbed
  <2> QED BY <2>3, <2>4
<1> QED BY <1>1, <1>2, <1>4, <1>7, <1>9, <1>10, <1>11, <1>12, Stepped

(* nginx that comes up by itself serves the files that are there, and no   *)
(* job relies on it being down.                                            *)
LEMMA NginxComesBackStep ==
  ASSUME Inv, NginxComesBack
  PROVE  Inv'
<1>1. /\ source' = source /\ override' = override /\ image' = image /\ running' = running
      /\ history' = history /\ schema' = schema /\ files' = files /\ ran' = ran /\ job' = job
      /\ faults' = faults /\ latest' = latest /\ overlapped' = overlapped
      /\ nginx = NoPair /\ Loaded # NoPair /\ nginx' = Loaded
  BY DEF NginxComesBack, remote, ghosts
<1>2. Loaded \in Pairs \cup {NoPair} /\ Loaded' = Loaded /\ States
  BY <1>1 DEF Inv, States, Loaded
<1>3. States'
  BY <1>1, <1>2 DEF States, Down
<1>4. Blamed'
  <2>1. Blamed
    BY DEF Inv
  <2>2. \A e \in Droplets : running'[e] = Down => \E k \in Jobs : Guilty(job'[k], e)
    BY <1>1, <2>1 DEF Blamed
  <2> QED BY <1>1, <1>2, <2>2, Accused
<1>5. ASSUME NEW r, NEW x, Leaves(r, x) PROVE Leaves(r, x)'
  BY <1>1, <1>2, <1>5 DEF Leaves, Down
<1>6. ASSUME NEW r, NEW d, Holds(r, d) PROVE Holds(r, d)'
  BY <1>1, <1>2, <1>6 DEF Holds, Down
<1>7. ASSUME ~overlapped PROVE Solo'
  <2>1. Solo
    BY DEF Inv
  <2>2. Underway' = Underway
    BY <1>1 DEF Underway
  <2>3. \A r \in {job[j] : j \in Underway} : InOrder(r)'
    BY <1>1, <1>5, <1>7, <2>1 DEF Solo, InOrder
  <2>4. \A r \in {job[j] : j \in latest} :
          r.cmd \in Commands /\ (~r.failed => \A d \in Through(r) : Holds(r, d)')
    BY <1>6, <1>7, <2>1 DEF Solo
  <2>5. HistoryRan'
    BY <1>1, <1>7, <2>1 DEF Solo, HistoryRan
  <2> QED BY <1>1, <1>7, <2>1, <2>2, <2>3, <2>4, <2>5 DEF Solo
<1>8. Solo'
  BY <1>1, <1>7 DEF Solo
<1> QED BY <1>1, <1>3, <1>4, <1>8 DEF Inv

(* A new command has blame for nothing yet, and is the latest; a second    *)
(* one makes the two overlap.                                              *)
LEMMA StartStep ==
  ASSUME Inv, NEW j \in Jobs, Start(j)
  PROVE  Inv'
<1>1. PICK c \in Commands : Become(j, Enter([Idle EXCEPT !.cmd = c, !.todo = c.droplets]))
  BY DEF Start
<1>2. PICK r : r = [Idle EXCEPT !.cmd = c, !.todo = c.droplets]
  OBVIOUS
<1>3. PICK r2 : r2 = Enter(r)
  OBVIOUS
<1>4. /\ DOMAIN r = Fields /\ r.cmd = c /\ r.todo = c.droplets /\ r.seen = <<>>
      /\ r.failed = FALSE /\ r.lapsed = FALSE
  BY <1>2 DEF Idle, Fields
<1>5. c.droplets \in Seq(Droplets) /\ c.droplets # <<>>
  BY CommandFacts
<1>6. /\ Sane(r2) /\ Fresh(r2)
      /\ r2.cmd = c /\ r2.todo = c.droplets /\ r2.failed = FALSE /\ r2.lapsed = FALSE
  <2>1. Short(r.seen)
    <3>1. Len(<<>>) = 0 /\ <<>> \in Seq(Versions)
      OBVIOUS
    <3> QED BY <1>4, <3>1, DeployAssumption DEF Short, Distinct
  <2>2. /\ r.todo \in Seq(Droplets) /\ Len(r.todo) <= Len(r.cmd.droplets)
        /\ Elements(r.todo) \subseteq Elements(r.cmd.droplets) /\ r.cmd \in Commands
    BY <1>4, <1>5
  <2>3. /\ Sane(r2) /\ Fresh(r2)
        /\ r2.cmd = r.cmd /\ r2.todo = r.todo /\ r2.failed = r.failed /\ r2.lapsed = r.lapsed
    BY <1>3, <1>4, <2>1, <2>2, Entered
  <2> QED BY <1>4, <2>3
<1>7. job' = [job EXCEPT ![j] = r2]
  BY <1>1, <1>2, <1>3 DEF Become
<1>8. /\ source' = source /\ override' = override /\ image' = image /\ running' = running
      /\ history' = history /\ schema' = schema /\ files' = files /\ nginx' = nginx /\ ran' = ran
      /\ faults' = faults /\ latest' = {j} /\ overlapped' = (overlapped \/ Underway # {})
      /\ job[j] = Idle
  BY DEF Start, remote, edge
<1>9. States
  BY DEF Inv
<1>10. \A k \in Jobs : job'[k] = IF k = j THEN r2 ELSE job[k]
  BY <1>7, <1>9 DEF States
<1>11. States'
  <2>1. job' = [k \in Jobs |-> job'[k]]
    BY <1>7, <1>9 DEF States
  <2> QED BY <1>8, <1>9, <2>1 DEF States, Down
<1>12. \A q \in {job'[k] : k \in Jobs} : Sane(q)
  <2> SUFFICES ASSUME NEW k \in Jobs PROVE Sane(job'[k])
    OBVIOUS
  <2>1. job'[k] = r2 \/ job'[k] = job[k]
    BY <1>10
  <2> QED BY <1>6, <2>1 DEF Inv
<1>13. Blamed'
  <2>1. <<>> \notin Commands
    BY IdleHasNoCommand
  <2>2. Kept(job[j], r2)
    BY <1>8, <2>1 DEF Kept, Guilty, Tampering, Idle
  <2>3. Blamed /\ job = [k \in Jobs |-> job[k]]
    BY <1>9 DEF Inv, States
  <2> QED BY <1>7, <1>8, <2>2, <2>3, Quiet
<1>14. ASSUME ~overlapped, Underway = {} PROVE Solo'
  <2>1. Underway' \subseteq {j}
    BY <1>10, <1>14 DEF Underway
  <2>2. r2.todo # <<>> => InOrder(r2)'
    <3>1. Len(<<>>) = 0
      OBVIOUS
    <3> QED BY <1>6, <3>1 DEF InOrder, Fresh
  <2>3. ASSUME NEW q \in {job'[k] : k \in Underway'} PROVE InOrder(q)'
    <3>1. q = r2 /\ r2.todo # <<>>
      BY <1>10, <2>1, <2>3 DEF Underway
    <3> QED BY <2>2, <3>1
  <2>4. ASSUME NEW q \in {job'[k] : k \in latest'}
        PROVE  q.cmd \in Commands /\ Through(q) = {}
    <3>1. q = r2
      BY <1>8, <1>10, <2>4
    <3> QED BY <1>6, <3>1 DEF Through
  <2>5. HistoryRan'
    BY <1>8, <1>14 DEF Inv, Solo, HistoryRan
  <2> QED BY <1>8, <2>1, <2>3, <2>4, <2>5 DEF Solo
<1>15. Solo'
  BY <1>8, <1>14 DEF Solo
<1> QED BY <1>11, <1>12, <1>13, <1>15 DEF Inv

-------------------------------------------------------------------------------
(* The specification. *)

(* Version 1 everywhere, and no job yet. *)
LEMMA InitInv ==
  ASSUME Init
  PROVE  Inv
<1>1. 1 \in Versions /\ Len(<<1>>) = 1 /\ <<1>> \in Seq(Versions) /\ <<1>>[1] = 1
  <2>1. 1 \in Versions
    BY DeployAssumption DEF Versions
  <2> QED BY <2>1
<1>2. Len(<<>>) = 0 /\ <<>> \in Seq(Versions)
  OBVIOUS
<1>3. \A d \in Droplets : FirstTag(d) \in Versions \cup {None}
  BY <1>1 DEF FirstTag
<1>4. Short(<<1>>) /\ Short(<<>>)
  <2>1. Short(<<1>>)
    <3>1. PICK q : q = <<1>>
      OBVIOUS
    <3>2. q \in Seq(Versions) /\ Len(q) = 1 /\ q[1] = 1
      BY <1>1, <3>1
    <3>3. Short(q)
      BY <3>2, DeployAssumption DEF Short, Distinct
    <3> QED BY <3>1, <3>3
  <2>2. Short(<<>>)
    BY <1>2, DeployAssumption DEF Short, Distinct
  <2> QED BY <2>1, <2>2
<1>5. \A d \in Droplets : Short(history[d])
  <2> TAKE d \in Droplets
  <2>1. history[d] = <<1>> \/ history[d] = <<>>
    BY DEF Init
  <2> QED BY <1>4, <2>1
<1>6. States
  <2>1. source \in [Droplets -> Versions \cup {Mixed}] /\ override \in [Droplets -> Versions \cup {None}]
    BY <1>1, <1>3 DEF Init
  <2>2. image \in [Droplets -> [Versions \cup {None} -> Versions \cup {Mixed, Absent}]]
    BY <1>1 DEF Init
  <2>3. running = [d \in Droplets |-> running[d]]
    BY DEF Init
  <2>4. \A d \in Droplets : running[d] # Down => running[d][2] # Absent
    BY DEF Init, Absent
  <2>5. history = [d \in Droplets |-> history[d]]
    BY DEF Init
  <2>6. schema \in 0..MaxVersion /\ faults \in 0..MaxFaults
    BY DeployAssumption DEF Init
  <2>7. files \in Pairs \X Pairs /\ nginx \in Pairs \cup {NoPair}
    BY DeployAssumption DEF Init
  <2>8. ran \in [Droplets -> SUBSET (Versions \cup {None})]
    BY <1>3 DEF Init
  <2>9. job = [j \in Jobs |-> job[j]]
    BY DEF Init
  <2> QED BY <1>5, <2>1, <2>2, <2>3, <2>4, <2>5, <2>6, <2>7, <2>8, <2>9 DEF States
<1>7. \A j \in Jobs : job[j] = Idle
  BY DEF Init
<1>8. \A r \in {job[j] : j \in Jobs} : Sane(r)
  <2>1. Sane(Idle)
    <3>1. DOMAIN Idle = Fields /\ Idle.seen = <<>>
      BY DEF Idle, Fields
    <3> QED BY <1>4, <3>1 DEF Sane
  <2> QED BY <1>7, <2>1
<1>9. Blamed
  <2>1. \A d \in Droplets : running[d] # Down
    BY DEF Init, Down, Absent
  <2>2. nginx # NoPair /\ Loaded # NoPair
    BY DeployAssumption DEF Init, Loaded, NoPair
  <2> QED BY <2>1, <2>2 DEF Blamed
<1>10. Solo
  <2>1. Underway = {} /\ latest = {}
    BY <1>7 DEF Underway, Idle, Init
  <2>2. HistoryRan
    <3> SUFFICES ASSUME NEW d \in Droplets, NEW i \in 1..Len(history[d])
                 PROVE  history[d][i] \in ran[d]
      BY DEF HistoryRan
    <3>1. CASE d \in Tagged
      <4>1. PICK q : q = <<1>>
        OBVIOUS
      <4>2. Len(q) = 1 /\ q[1] = 1
        BY <1>1, <4>1
      <4>3. history[d] = q /\ ran[d] = {1}
        BY <3>1, <4>1 DEF Init, FirstTag
      <4>4. i \in 1..Len(q)
        BY <4>3
      <4>5. i = 1
        BY <4>2, <4>4
      <4> QED BY <4>2, <4>3, <4>5
    <3>2. CASE d \notin Tagged
      <4>1. history[d] = <<>>
        BY <3>2 DEF Init
      <4> QED BY <1>2, <4>1
    <3> QED BY <3>1, <3>2
  <2> QED BY <2>1, <2>2 DEF Solo
<1> QED BY <1>6, <1>8, <1>9, <1>10 DEF Inv

(* A step that changes nothing. *)
LEMMA Stutters ==
  ASSUME Inv, UNCHANGED vars
  PROVE  Inv'
<1>1. /\ source' = source /\ override' = override /\ image' = image /\ running' = running
      /\ history' = history /\ schema' = schema /\ files' = files /\ nginx' = nginx /\ ran' = ran
      /\ faults' = faults /\ latest' = latest /\ overlapped' = overlapped /\ job' = job
  BY DEF vars
<1>2. States'
  BY <1>1 DEF Inv, States, Down
<1>3. Blamed'
  <2>1. Blamed /\ Loaded' = Loaded
    BY <1>1 DEF Inv, Loaded
  <2>2. \A e \in Droplets : running'[e] = Down => \E k \in Jobs : Guilty(job'[k], e)
    BY <1>1, <2>1 DEF Blamed
  <2>3. Loaded' = NoPair => \E k \in Jobs : Tampering(job'[k])
    BY <1>1, <2>1 DEF Blamed
  <2>4. nginx' = NoPair => \/ \E d \in OfRole("edge") : running'[d] = Down
                           \/ \E k \in Jobs : Tampering(job'[k])
    BY <1>1, <2>1 DEF Blamed
  <2> QED BY <2>2, <2>3, <2>4, Accused
<1>4. ASSUME NEW r, NEW x, Leaves(r, x) PROVE Leaves(r, x)'
  BY <1>1, <1>4, Undisturbed
<1>5. ASSUME NEW r, NEW d, Holds(r, d) PROVE Holds(r, d)'
  BY <1>1, <1>5 DEF Holds, Down, Loaded
<1>6. ASSUME ~overlapped PROVE Solo'
  <2>1. Solo
    BY DEF Inv
  <2>2. Underway' = Underway
    BY <1>1 DEF Underway
  <2>3. \A r \in {job[j] : j \in Underway} : InOrder(r)'
    BY <1>1, <1>4, <1>6, <2>1 DEF Solo, InOrder
  <2>4. \A r \in {job[j] : j \in latest} :
          r.cmd \in Commands /\ (~r.failed => \A d \in Through(r) : Holds(r, d)')
    BY <1>5, <1>6, <2>1 DEF Solo
  <2>5. HistoryRan'
    BY <1>1, <1>6, <2>1 DEF Solo, HistoryRan
  <2> QED BY <1>1, <1>6, <2>1, <2>2, <2>3, <2>4, <2>5 DEF Solo
<1>7. Solo'
  BY <1>1, <1>6 DEF Solo
<1> QED BY <1>1, <1>2, <1>3, <1>7 DEF Inv

(* Every action keeps the invariant. *)
LEMMA NextInv ==
  ASSUME Inv, [Next]_vars
  PROVE  Inv'
<1>1. ASSUME NEW j \in Jobs,
             \/ Start(j) \/ StepFails(j) \/ Kill(j)
             \/ GitPull(j) \/ SyncSource(j) \/ SetImageTags(j) \/ Build(j) \/ Pull(j)
      PROVE  Inv'
  BY <1>1, StartStep, StepFailsStep, KillStep, GitPullStep, SyncSourceStep, SetImageTagsStep,
     BuildStep, PullStep
<1>2. ASSUME NEW j \in Jobs,
             \/ Up(j) \/ ComposeDown(j) \/ RemoveImages(j) \/ Restart(j)
             \/ PickPrevious(j) \/ ReadHistory(j) \/ SaveHistory(j)
      PROVE  Inv'
  BY <1>2, UpStep, ComposeDownStep, RemoveImagesStep, RestartStep, PickPreviousStep,
     ReadHistoryStep, SaveHistoryStep
<1>3. ASSUME NEW j \in Jobs,
             \/ Current(j) \/ Upgrade(j) \/ Downgrade(j) \/ DropSchema(j)
             \/ GivenPair(j) \/ UploadCert(j) \/ UploadKey(j) \/ CheckPair(j)
             \/ RestartNginx(j)
      PROVE  Inv'
  BY <1>3, CurrentStep, UpgradeStep, DowngradeStep, DropSchemaStep, GivenPairStep,
     UploadCertStep, UploadKeyStep, CheckPairStep, RestartNginxStep
<1>4. CASE NginxComesBack
  BY <1>4, NginxComesBackStep
<1>5. CASE UNCHANGED vars
  BY <1>5, Stutters
<1> QED BY <1>1, <1>2, <1>3, <1>4, <1>5 DEF Next

(* The invariant holds in every reachable state.                           *)
THEOREM Inductive == Spec => []Inv
<1>1. Init => Inv
  BY InitInv
<1>2. Inv /\ [Next]_vars => Inv'
  BY NextInv
<1> QED BY <1>1, <1>2, PTL DEF Spec

(* Droplets, images, certificates and jobs are what their records say, and *)
(* a job without steps has no droplet left.                                *)
THEOREM TypeCorrect == Spec => []TypeOK
<1>1. Inv => TypeOK
  <2> SUFFICES ASSUME Inv PROVE TypeOK
    OBVIOUS
  <2>1. States
    BY DEF Inv
  <2>2. history \in [Droplets -> Seq(Versions)]
    BY <2>1 DEF States, Short
  <2>3. \A j \in Jobs : job[j].todo = <<>> <=> job[j].steps = <<>>
    <3> TAKE j \in Jobs
    <3>1. Sane(job[j])
      BY DEF Inv
    <3> QED BY <3>1 DEF Sane, Idle, Working
  <2> QED BY <2>1, <2>2, <2>3 DEF States, TypeOK
<1> QED BY <1>1, Inductive, PTL

(* However commands fail, are lost or are killed, the tags in a droplet's  *)
(* history are distinct and not too many, and, unless two jobs have met,   *)
(* each of them was brought up there.                                      *)
THEOREM HistoryUsable == Spec => []HistoryIsUsable
<1>1. Inv => HistoryIsUsable
  BY DEF Inv, Solo, HistoryRan, States, Short, Distinct, HistoryIsUsable, HistoryIsShortAndDistinct
<1> QED BY <1>1, Inductive, PTL

(* What a command that was alone and has ended holds on its droplets. *)
LEMMA AtTheEnd ==
  ASSUME Inv, NEW j \in Jobs, Reported(j), NEW i \in 1..Len(job[j].cmd.droplets)
  PROVE  /\ job[j].cmd \in Commands
         /\ \A r \in {job[j]} : Holds(r, r.cmd.droplets[i])
<1>1. PICK r : r = job[j]
  OBVIOUS
<1>2. ~overlapped /\ latest = {j} /\ r.todo = <<>> /\ ~r.failed
  BY <1>1 DEF Reported, Ended
<1>3. r.cmd \in Commands /\ \A d \in Through(r) : Holds(r, d)
  BY <1>1, <1>2 DEF Inv, Solo
<1>4. Elements(r.todo) = {}
  <2>1. Len(<<>>) = 0
    OBVIOUS
  <2> QED BY <1>2, <2>1 DEF Elements
<1>5. r.cmd.droplets[i] \in Through(r)
  BY <1>1, <1>4 DEF Through, Elements
<1> QED BY <1>1, <1>3, <1>5

(* A command that ends without a failure, and that no other has met, has   *)
(* done what it says on every one of its droplets.                         *)
THEOREM ReportTrue == Spec => []ReportIsTrue
<1>1. Inv => ReportIsTrue
  <2> SUFFICES ASSUME Inv, NEW j \in Jobs, Reported(j), NEW i \in 1..Len(job[j].cmd.droplets)
               PROVE  LET c == job[j].cmd
                          d == c.droplets[i]
                      IN /\ c.op \in {"deploy", "redeploy", "rollback", "restart"} => running[d] # Down
                         /\ c.op = "deploy" /\ c.tag # None => running[d][1] = c.tag /\ history[d][1] = c.tag
                         /\ c.op = "rollback" => running[d][1] = history[d][1]
                         /\ c.op = "down" => running[d] = Down
                         /\ c.op \in {"apply", "reset"} => schema = running[d][2] \/ running[d][2] = Mixed
                         /\ c.op = "ssl" => nginx = c.pair /\ SslCheck
    BY DEF ReportIsTrue
  <2>1. \A r \in {job[j]} : Holds(r, r.cmd.droplets[i])
    BY AtTheEnd
  <2> QED BY <2>1 DEF Holds, SslCheck
<1> QED BY <1>1, Inductive, PTL

(* A deploy with no failed step runs the code it was given, and a rollback *)
(* the image that was published under the tag.                             *)
THEOREM ImagesRight == Spec => []ImagesAreTheRightOnes
<1>1. Inv => ImagesAreTheRightOnes
  <2> SUFFICES ASSUME Inv, NEW j \in Jobs, Reported(j), NEW i \in 1..Len(job[j].cmd.droplets)
               PROVE  LET c == job[j].cmd
                          d == c.droplets[i]
                      IN /\ c.op = "deploy" /\ ~job[j].lapsed /\ Role[d] # "platform" =>
                              running[d][2] = c.code
                         /\ c.op = "rollback" => running[d][1] = running[d][2]
    BY DEF ImagesAreTheRightOnes, DeployRunsTheCheckout, RollbackRunsTheRegistry
  <2>1. \A r \in {job[j]} : Holds(r, r.cmd.droplets[i])
    BY AtTheEnd
  <2> QED BY <2>1 DEF Holds
<1> QED BY <1>1, Inductive, PTL

(* When no job is under way, who is guilty of a droplet, or has tampered   *)
(* with the certificates, has ended.                                       *)
LEMMA GuiltyHasEnded ==
  ASSUME Underway = {}, NEW j \in Jobs, NEW d, Guilty(job[j], d)
  PROVE  /\ j \in Ended
         /\ \E i \in 1..Len(job[j].cmd.droplets) : job[j].cmd.droplets[i] = d
         /\ job[j].failed \/ job[j].cmd.op = "down"
<1>1. job[j].todo = <<>>
  BY DEF Underway
<1>2. job[j].cmd \in Commands /\ d \in Elements(job[j].cmd.droplets)
  BY DEF Guilty
<1>3. job[j] # Idle
  BY <1>2, IdleHasNoCommand DEF Idle
<1>4. \E i \in 1..Len(job[j].cmd.droplets) : job[j].cmd.droplets[i] = d
  BY <1>2 DEF Elements
<1>5. job[j].failed \/ job[j].cmd.op = "down"
  BY <1>1 DEF Guilty
<1> QED BY <1>1, <1>3, <1>4, <1>5 DEF Ended

(* The one edge is the droplet of every setup.                             *)
LEMMA TampererHasEnded ==
  ASSUME Underway = {}, NEW j \in Jobs, Tampering(job[j]), NEW d \in Droplets, Role[d] = "edge"
  PROVE  /\ j \in Ended
         /\ \E i \in 1..Len(job[j].cmd.droplets) : job[j].cmd.droplets[i] = d
         /\ job[j].failed
<1>1. job[j].todo = <<>>
  BY DEF Underway
<1>2. job[j].cmd \in Commands /\ job[j].cmd.op = "ssl" /\ job[j].failed
  BY <1>1 DEF Tampering
<1>3. job[j] # Idle
  BY <1>2, IdleHasNoCommand DEF Idle
<1>4. PICK s : s = job[j].cmd.droplets
  OBVIOUS
<1>5. s \in Seq(Droplets) /\ Len(s) = 1 /\ Role[s[1]] = "edge"
  BY <1>2, <1>4, CommandFacts
<1>6. s[1] \in Droplets /\ 1 \in 1..Len(s)
  <2>1. \A q \in Seq(Droplets) : \A i \in 1..Len(q) : q[i] \in Droplets
    OBVIOUS
  <2>2. 1 \in 1..Len(s)
    BY <1>5
  <2> QED BY <1>5, <2>1, <2>2
<1>7. s[1] = d
  BY <1>5, <1>6, DeployAssumption
<1> QED BY <1>1, <1>2, <1>3, <1>4, <1>6, <1>7 DEF Ended

(* Between two commands the smoke tests of a droplet fail only on account  *)
(* of a command that was to stop it, that failed there or was killed.      *)
THEOREM DownReported == Spec => []DownIsReported
<1>1. Inv => DownIsReported
  <2> SUFFICES ASSUME Inv, Underway = {}, NEW d \in Droplets, ~Passes(d)
               PROVE  \E j \in Ended : \E i \in 1..Len(job[j].cmd.droplets) :
                        /\ job[j].cmd.droplets[i] \in
                             {d} \cup (IF Role[d] = "vertical" THEN OfRole("platform") ELSE {})
                        /\ job[j].failed \/ job[j].cmd.op = "down"
    BY DEF DownIsReported
  <2>1. Blamed /\ Role[d] \in {"platform", "edge", "vertical"}
    BY DeployAssumption DEF Inv
  <2> DEFINE Answers(j, e) == /\ j \in Ended
                              /\ \E i \in 1..Len(job[j].cmd.droplets) : job[j].cmd.droplets[i] = e
                              /\ job[j].failed \/ job[j].cmd.op = "down"
  <2>2. \A e \in Droplets : running[e] = Down => \E j \in Jobs : Answers(j, e)
    <3> TAKE e \in Droplets
    <3> HAVE running[e] = Down
    <3>1. PICK j \in Jobs : Guilty(job[j], e)
      BY <2>1 DEF Blamed
    <3>2. Answers(j, e)
      BY <3>1, GuiltyHasEnded
    <3> QED BY <3>2
  <2>3. (\E j \in Jobs : Tampering(job[j])) /\ Role[d] = "edge" => \E j \in Jobs : Answers(j, d)
    <3> HAVE (\E j \in Jobs : Tampering(job[j])) /\ Role[d] = "edge"
    <3>1. PICK j \in Jobs : Tampering(job[j])
      OBVIOUS
    <3>2. Answers(j, d)
      BY <3>1, TampererHasEnded
    <3> QED BY <3>2
  <2>4. CASE \E j \in Jobs : Answers(j, d)
    BY <2>4
  <2>5. CASE Role[d] = "platform"
    <3>1. running[d] = Down
      BY <2>5 DEF Passes, SmokePlatform
    <3> QED BY <2>2, <2>4, <3>1
  <2>6. CASE Role[d] = "edge"
    <3>1. running[d] = Down \/ nginx = NoPair \/ Loaded = NoPair
      BY <2>6 DEF Passes, SmokeEdge
    <3>2. \A e \in OfRole("edge") : e = d
      BY <2>6, DeployAssumption DEF OfRole
    <3>3. running[d] = Down \/ \E j \in Jobs : Tampering(job[j])
      BY <2>1, <3>1, <3>2 DEF Blamed
    <3> QED BY <2>2, <2>3, <2>4, <2>6, <3>3
  <2>7. CASE Role[d] = "vertical"
    <3>1. running[d] = Down \/ \E e \in OfRole("platform") : running[e] = Down
      BY <2>7 DEF Passes, SmokeVertical, DatabaseIsUp
    <3>2. CASE running[d] = Down
      BY <2>2, <2>4, <3>2
    <3>3. CASE \E e \in OfRole("platform") : running[e] = Down
      <4>1. PICK e \in OfRole("platform") : running[e] = Down
        BY <3>3
      <4>2. PICK j \in Jobs : Answers(j, e)
        BY <2>2, <4>1 DEF OfRole
      <4> QED BY <2>7, <4>1, <4>2
    <3> QED BY <3>1, <3>2, <3>3
  <2> QED BY <2>1, <2>5, <2>6, <2>7
<1> QED BY <1>1, Inductive, PTL
================
