------------------------ MODULE Administrator_proofs ------------------------
(* What the proofs of the lifecycles share: sequences of steps that come in  *)
(* a fixed order, and what each operation on the host changes.               *)
EXTENDS Administrator, Integers, TLAPS

(* What a sequence of steps still does.                                      *)
Ahead(steps) == {steps[i].do : i \in DOMAIN steps}

(* Each kind of step at most once, and in the order of its rank.             *)
InOrder(steps, rank) ==
    \A i, j \in DOMAIN steps : i < j => rank[steps[i].do] < rank[steps[j].do]

-----------------------------------------------------------------------------
(* Taking the first step off leaves the others, all of a higher rank.        *)
LEMMA TailAhead ==
    ASSUME NEW S, NEW steps \in Seq(S), steps # <<>>,
           NEW D, NEW rank \in [D -> Nat], Ahead(steps) \subseteq D, InOrder(steps, rank)
    PROVE  /\ Tail(steps) \in Seq(S) /\ Head(steps) \in S /\ 1 \in DOMAIN steps
           /\ Head(steps) = steps[1]
           /\ DOMAIN Tail(steps) = 1..(Len(steps) - 1)
           /\ \A i \in DOMAIN Tail(steps) : /\ i + 1 \in DOMAIN steps
                                            /\ Tail(steps)[i] = steps[i + 1]
           /\ Head(steps).do \in Ahead(steps)
           /\ Ahead(Tail(steps)) = Ahead(steps) \ {Head(steps).do}
           /\ \A d \in Ahead(Tail(steps)) : rank[Head(steps).do] < rank[d]
           /\ InOrder(Tail(steps), rank)
<1>1. /\ Tail(steps) \in Seq(S) /\ Head(steps) \in S /\ 1 \in DOMAIN steps
      /\ Head(steps) = steps[1]
      /\ DOMAIN Tail(steps) = 1..(Len(steps) - 1) /\ DOMAIN steps = 1..Len(steps)
      /\ Len(steps) \in Nat
      /\ \A i \in DOMAIN Tail(steps) : /\ i + 1 \in DOMAIN steps
                                       /\ Tail(steps)[i] = steps[i + 1]
  OBVIOUS
<1>2. InOrder(Tail(steps), rank)
  BY <1>1 DEF InOrder
<1>3. \A d \in Ahead(Tail(steps)) : rank[Head(steps).do] < rank[d]
  BY <1>1 DEF InOrder, Ahead
<1>4. Head(steps).do \in Ahead(steps)
  BY <1>1 DEF Ahead
<1>5. Ahead(steps) = Ahead(Tail(steps)) \cup {Head(steps).do}
  <2>1. ASSUME NEW i \in DOMAIN steps, i # 1 PROVE steps[i].do \in Ahead(Tail(steps))
    <3>1. i - 1 \in DOMAIN Tail(steps) /\ Tail(steps)[i - 1] = steps[i]
      BY <1>1, <2>1
    <3> QED
      BY <3>1 DEF Ahead
  <2>2. Ahead(Tail(steps)) \subseteq Ahead(steps)
    BY <1>1 DEF Ahead
  <2> QED
    BY <2>1, <2>2, <1>1, <1>4 DEF Ahead
<1>6. Head(steps).do \notin Ahead(Tail(steps))
  <2>1. rank[Head(steps).do] \in Nat
    BY <1>4
  <2> QED
    BY <2>1, <1>3
<1> QED
  BY <1>1, <1>2, <1>3, <1>4, <1>5, <1>6

(* Two sequences in order, the second of higher ranks, are one in order.     *)
LEMMA ConcatAhead ==
    ASSUME NEW S, NEW s \in Seq(S), NEW t \in Seq(S),
           NEW rank, InOrder(s, rank), InOrder(t, rank),
           \A d \in Ahead(s) : \A e \in Ahead(t) : rank[d] < rank[e]
    PROVE  /\ s \o t \in Seq(S)
           /\ Ahead(s \o t) = Ahead(s) \cup Ahead(t)
           /\ InOrder(s \o t, rank)
           /\ \A i \in DOMAIN (s \o t) :
                 \/ \E j \in DOMAIN s : (s \o t)[i] = s[j]
                 \/ \E j \in DOMAIN t : (s \o t)[i] = t[j]
<1>1. /\ s \o t \in Seq(S)
      /\ DOMAIN (s \o t) = 1..(Len(s) + Len(t)) /\ DOMAIN s = 1..Len(s) /\ DOMAIN t = 1..Len(t)
      /\ Len(s) \in Nat /\ Len(t) \in Nat
      /\ \A i \in DOMAIN s : i \in DOMAIN (s \o t) /\ (s \o t)[i] = s[i]
      /\ \A i \in DOMAIN t : Len(s) + i \in DOMAIN (s \o t) /\ (s \o t)[Len(s) + i] = t[i]
  OBVIOUS
<1>2. ASSUME NEW i \in DOMAIN (s \o t)
      PROVE  \/ i \in DOMAIN s /\ (s \o t)[i] = s[i]
             \/ i - Len(s) \in DOMAIN t /\ (s \o t)[i] = t[i - Len(s)]
  BY <1>1
<1>3. Ahead(s \o t) = Ahead(s) \cup Ahead(t)
  <2>1. Ahead(s) \subseteq Ahead(s \o t) /\ Ahead(t) \subseteq Ahead(s \o t)
    BY <1>1 DEF Ahead
  <2>2. Ahead(s \o t) \subseteq Ahead(s) \cup Ahead(t)
    BY <1>2 DEF Ahead
  <2> QED
    BY <2>1, <2>2
<1>4. ASSUME NEW i \in DOMAIN (s \o t), NEW j \in DOMAIN (s \o t), i < j
      PROVE  rank[(s \o t)[i].do] < rank[(s \o t)[j].do]
  <2>1. CASE j \in DOMAIN s
    BY <1>1, <1>4, <2>1 DEF InOrder
  <2>2. CASE i \notin DOMAIN s
    <3>1. i - Len(s) \in DOMAIN t /\ j - Len(s) \in DOMAIN t /\ i - Len(s) < j - Len(s)
      BY <1>1, <1>4, <2>2
    <3> QED
      BY <1>1, <1>4, <2>2, <3>1 DEF InOrder
  <2>3. CASE i \in DOMAIN s /\ j \notin DOMAIN s
    BY <1>1, <1>2, <1>4, <2>3 DEF Ahead
  <2> QED
    BY <2>1, <2>2, <2>3
<1> QED
  BY <1>1, <1>2, <1>3, <1>4 DEF InOrder

-----------------------------------------------------------------------------
(* Scripts: sequences of names of steps.                                     *)

(* What a script does, and that it does it in the order of the ranks.        *)
NamesOf(script) == {script[i] : i \in DOMAIN script}
Ascending(script, rank) == \A i, j \in DOMAIN script : i < j => rank[script[i]] < rank[script[j]]

(* A script put after another, of lower ranks.                               *)
LEMMA ConcatNames ==
    ASSUME NEW D, NEW s \in Seq(D), NEW t \in Seq(D),
           NEW rank, Ascending(s, rank), Ascending(t, rank),
           \A d \in NamesOf(s) : \A e \in NamesOf(t) : rank[d] < rank[e]
    PROVE  /\ s \o t \in Seq(D)
           /\ NamesOf(s \o t) = NamesOf(s) \cup NamesOf(t)
           /\ Ascending(s \o t, rank)
<1>1. /\ s \o t \in Seq(D)
      /\ DOMAIN (s \o t) = 1..(Len(s) + Len(t)) /\ DOMAIN s = 1..Len(s) /\ DOMAIN t = 1..Len(t)
      /\ Len(s) \in Nat /\ Len(t) \in Nat
      /\ \A i \in DOMAIN s : i \in DOMAIN (s \o t) /\ (s \o t)[i] = s[i]
      /\ \A i \in DOMAIN t : Len(s) + i \in DOMAIN (s \o t) /\ (s \o t)[Len(s) + i] = t[i]
  OBVIOUS
<1>2. ASSUME NEW i \in DOMAIN (s \o t)
      PROVE  \/ i \in DOMAIN s /\ (s \o t)[i] = s[i]
             \/ i - Len(s) \in DOMAIN t /\ (s \o t)[i] = t[i - Len(s)]
  BY <1>1
<1>3. NamesOf(s \o t) = NamesOf(s) \cup NamesOf(t)
  <2>1. NamesOf(s) \subseteq NamesOf(s \o t) /\ NamesOf(t) \subseteq NamesOf(s \o t)
    BY <1>1 DEF NamesOf
  <2>2. NamesOf(s \o t) \subseteq NamesOf(s) \cup NamesOf(t)
    BY <1>2 DEF NamesOf
  <2> QED
    BY <2>1, <2>2
<1>4. ASSUME NEW i \in DOMAIN (s \o t), NEW j \in DOMAIN (s \o t), i < j
      PROVE  rank[(s \o t)[i]] < rank[(s \o t)[j]]
  <2>1. CASE j \in DOMAIN s
    BY <1>1, <1>4, <2>1 DEF Ascending
  <2>2. CASE i \notin DOMAIN s
    <3>1. i - Len(s) \in DOMAIN t /\ j - Len(s) \in DOMAIN t /\ i - Len(s) < j - Len(s)
      BY <1>1, <1>4, <2>2
    <3> QED
      BY <1>1, <1>4, <2>2, <3>1 DEF Ascending
  <2>3. CASE i \in DOMAIN s /\ j \notin DOMAIN s
    BY <1>1, <1>2, <1>4, <2>3 DEF NamesOf
  <2> QED
    BY <2>1, <2>2, <2>3
<1> QED
  BY <1>1, <1>3, <1>4 DEF Ascending

(* A script of names in D that does `acts`, in the order of the ranks.       *)
Script(names, D, acts, rank) ==
    names \in Seq(D) /\ NamesOf(names) = acts /\ Ascending(names, rank)

(* Steps in S that do `acts`, in the order of the ranks.                     *)
Plan(steps, S, acts, rank) ==
    steps \in Seq(S) /\ Ahead(steps) = acts /\ InOrder(steps, rank)

(* Scripts and plans are put together from parts whose ranks ascend.         *)
LEMMA ConcatScripts ==
    ASSUME NEW D, NEW rank, NEW A, NEW B, NEW s, NEW t,
           Script(s, D, A, rank), Script(t, D, B, rank),
           \A d \in A : \A e \in B : rank[d] < rank[e]
    PROVE  Script(s \o t, D, A \cup B, rank)
  BY ConcatNames DEF Script

(* The same for the steps of an operation.                                   *)
LEMMA ConcatPlans ==
    ASSUME NEW S, NEW rank, NEW A, NEW B, NEW s, NEW t,
           Plan(s, S, A, rank), Plan(t, S, B, rank),
           \A d \in A : \A e \in B : rank[d] < rank[e]
    PROVE  Plan(s \o t, S, A \cup B, rank)
  BY ConcatAhead DEF Plan

(* The steps of a plan are what it does.                                     *)
LEMMA PlanElements ==
    ASSUME NEW S, NEW rank, NEW A, NEW steps, Plan(steps, S, A, rank), NEW T, S \subseteq T
    PROVE  /\ steps \in Seq(T) /\ InOrder(steps, rank)
           /\ \A i \in DOMAIN steps : steps[i] \in S /\ steps[i].do \in A
           /\ steps = <<>> <=> A = {}
<1>1. /\ steps \in Seq(S) /\ Ahead(steps) = A /\ InOrder(steps, rank)
      /\ Len(steps) \in Nat /\ DOMAIN steps = 1..Len(steps)
      /\ \A i \in DOMAIN steps : steps[i] \in S
  BY DEF Plan
<1>2. steps \in Seq(T)
  <2>1. steps \in [1..Len(steps) -> T]
    BY <1>1
  <2> QED
    BY <1>1, <2>1
<1>3. \A i \in DOMAIN steps : steps[i].do \in A
  BY <1>1 DEF Ahead
<1>4. ASSUME steps # <<>> PROVE A # {}
  <2>1. 1 \in DOMAIN steps
    BY <1>1, <1>4
  <2> QED
    BY <2>1, <1>3
<1>5. ASSUME steps = <<>> PROVE A = {}
  BY <1>1, <1>5 DEF Ahead
<1> QED
  BY <1>1, <1>2, <1>3, <1>4, <1>5

(* As long as steps are left, the first is one of them.                      *)
LEMMA FirstAhead ==
    ASSUME NEW S, NEW steps \in Seq(S), steps # <<>>
    PROVE  1 \in DOMAIN steps /\ steps[1] \in S /\ steps[1].do \in Ahead(steps)
<1>1. 1 \in DOMAIN steps
  OBVIOUS
<1> QED
  BY <1>1 DEF Ahead

(* A script of a single optional part.                                       *)
LEMMA IfScript ==
    ASSUME NEW D, NEW names, NEW A, NEW rank, Script(names, D, A, rank), NEW c \in BOOLEAN
    PROVE  Script(If(c, names), D, IF c THEN A ELSE {}, rank)
  BY DEF If, Script, NamesOf, Ascending

(* Running a script is doing its steps in its order.                         *)
LEMMA ScriptSteps ==
    ASSUME NEW D, NEW script, NEW A, NEW rank, Script(script, D, A, rank),
           NEW S, NEW steps \in [DOMAIN script -> S],
           \A i \in DOMAIN script : steps[i].do = script[i]
    PROVE  Plan(steps, S, A, rank)
<1>1. steps \in Seq(S)
  <2>1. Len(script) \in Nat /\ DOMAIN script = 1..Len(script)
    BY DEF Script
  <2> QED
    BY <2>1
<1> QED
  BY <1>1 DEF Ahead, NamesOf, InOrder, Ascending, Plan, Script

-----------------------------------------------------------------------------
(* Which of the service files a package ships.                               *)
LEMMA Shipped ==
    ASSUME NEW h \in Host
    PROVE  /\ HasUnit(h) <=> h.files # None /\ h.init \in {"auto", "systemd"}
           /\ Ships(h, "tmpfiles.conf") <=> h.files # None /\ h.init \in {"auto", "systemd"}
           /\ Ships(h, "sysv-init") <=> h.files # None /\ h.init \in {"auto", "sysv"}
           /\ Ships(h, "upstart.conf") <=> h.files # None /\ h.init = "upstart"
  BY DEF HasUnit, Ships, ServiceFiles, Uses, Host, InitSystem

(* What the commands of the init systems, and of the snippets, leave is a    *)
(* machine again.                                                            *)
LEMMA Commands ==
    ASSUME NEW h \in Host
    PROVE  /\ MakeAccount(h) \in Host /\ MakeLogdir(h) \in Host /\ Reload(h) \in Host
           /\ Stop(h) \in Host /\ Delete(h) \in Host
           /\ StartUnit(h) \in Host /\ StartScript(h) \in Host /\ StartJob(h) \in Host
           /\ \A policy : \A shipped \in BOOLEAN : Preset(h, policy, shipped) \in Host
           /\ \A v \in Version, init \in InitSystem : Unpack(h, v, init) \in Host
<1>1. MakeAccount(h) \in Host /\ MakeLogdir(h) \in Host
  BY DEF Host, MakeAccount, MakeLogdir
<1>2. Reload(h) \in Host
  BY DEF Host, Reload
<1>3. Stop(h) \in Host /\ Delete(h) \in Host
  BY DEF Host, Stop, Delete
<1>4. StartUnit(h) \in Host
  <2> DEFINE read == [h EXCEPT !.loaded = IF h.loaded = None THEN h.files ELSE h.loaded]
             v == IF read.loaded = h.files THEN h.files ELSE "mixed"
  <2>1. read \in Host
    BY DEF Host
  <2>2. [read EXCEPT !.running = v] \in Host
    <3>1. v \in Version \cup {None, "mixed"}
      BY DEF Host
    <3> HIDE DEF v, read
    <3> QED
      BY <2>1, <3>1 DEF Host
  <2>3. StartUnit(h) \in {h, read, [read EXCEPT !.running = v]}
    BY DEF StartUnit
  <2> QED
    BY <2>1, <2>2, <2>3
<1>5. StartScript(h) \in Host
  <2>1. [h EXCEPT !.running = h.files, !.logdir = TRUE] \in Host
    BY DEF Host
  <2> QED
    BY <2>1 DEF StartScript
<1>6. StartJob(h) \in Host
  BY DEF Host, StartJob
<1>7. ASSUME NEW policy, NEW shipped \in BOOLEAN PROVE Preset(h, policy, shipped) \in Host
  <2> DEFINE enabled == policy = "none" /\ shipped
  <2>1. enabled \in BOOLEAN
    OBVIOUS
  <2> HIDE DEF enabled
  <2>2. [h EXCEPT !.enabled = enabled] \in Host
    BY <2>1 DEF Host
  <2> QED
    BY <2>2 DEF Preset, enabled
<1>8. ASSUME NEW v \in Version, NEW init \in InitSystem PROVE Unpack(h, v, init) \in Host
  BY DEF Host, Unpack
<1> QED
  BY <1>1, <1>2, <1>3, <1>4, <1>5, <1>6, <1>7, <1>8

(* The same of those put together from others.                               *)
LEMMA Services ==
    ASSUME NEW h \in Host
    PROVE  /\ RestartUnit(h) \in Host /\ TryRestartUnit(h) \in Host
           /\ StartService(h) \in Host /\ Boot(h) \in Host
<1>1. RestartUnit(h) \in Host /\ TryRestartUnit(h) \in Host
  <2>1. Stop(h) \in Host
    BY Commands
  <2>2. StartUnit(Stop(h)) \in Host
    BY <2>1, Commands
  <2> QED
    BY <2>2 DEF RestartUnit, TryRestartUnit
<1>2. ASSUME NEW k \in Host PROVE StartService(k) \in Host
  <2>1. k.os \in {"systemd", "sysv", "upstart"}
    BY DEF Host
  <2>2. StartUnit(k) \in Host /\ StartScript(k) \in Host /\ StartJob(k) \in Host
    BY Commands
  <2> QED
    BY <2>1, <2>2 DEF StartService
<1>3. Boot(h) \in Host
  <2> DEFINE k == [Stop(h) EXCEPT !.logdir =
                     @ \/ (h.os = "systemd" /\ h.account /\ Ships(h, "tmpfiles.conf"))]
  <2>1. k \in Host
    BY DEF Host, Stop
  <2> HIDE DEF k
  <2>2. Reload(k) \in Host
    BY <2>1, Commands
  <2>3. StartService(Reload(k)) \in Host
    BY <2>2, <1>2
  <2> QED
    BY <2>2, <2>3 DEF Boot, k
<1> QED
  BY <1>1, <1>2, <1>3

(* Seeing what runs only takes back that the service is stopped.             *)
LEMMA SeenDecides ==
    ASSUME admin \in Decisions, NEW h
    PROVE  /\ Seen(h) \in Decisions
           /\ Seen(h).disabled = admin.disabled /\ Seen(h).masked = admin.masked
           /\ Seen(h).off = admin.off
           /\ Seen(h).stopped <=> admin.stopped /\ h.running = None
           /\ admin = NoDecision => Seen(h) = NoDecision
<1>1. /\ Seen(h) \in Decisions
      /\ Seen(h).disabled = admin.disabled /\ Seen(h).masked = admin.masked
      /\ Seen(h).off = admin.off
      /\ Seen(h).stopped <=> admin.stopped /\ h.running = None
  BY DEF Seen, Decisions
<1>2. ASSUME admin = NoDecision PROVE Seen(h) = NoDecision
  <2>1. \A a, b \in Decisions :
            a.disabled = b.disabled /\ a.masked = b.masked /\ a.off = b.off
            /\ a.stopped = b.stopped => a = b
    BY DEF Decisions
  <2>2. NoDecision \in Decisions /\ Seen(h).stopped = FALSE
    BY <1>1, <1>2 DEF NoDecision, Decisions
  <2> QED
    BY <1>1, <1>2, <2>1, <2>2 DEF NoDecision
<1> QED
  BY <1>1, <1>2

(* Whatever the administrator does, the machine and the decisions keep their *)
(* types, and the package manager's plans are not touched.                   *)
LEMMA AdministerTypes ==
    ASSUME host \in Host, admin \in Decisions, Administer
    PROVE  host' \in Host /\ admin' \in Decisions /\ todo' = todo
<1>1. ASSUME NEW h \in Host PROVE Seen(h) \in Decisions /\ SeenByHand(h) \in Decisions
  BY DEF Seen, SeenByHand, Decisions
<1>2. todo' = todo
  BY DEF Administer
<1>3. ASSUME NEW now \in BOOLEAN, Disable(now) PROVE host' \in Host /\ admin' \in Decisions
  <2> DEFINE h == IF host.os = "systemd" THEN [host EXCEPT !.enabled = FALSE]
                  ELSE [host EXCEPT !.rc = "off"]
  <2>1. h \in Host
    BY DEF Host
  <2>2. host' \in {h, Stop(h)}
    BY <1>3 DEF Disable
  <2>3. host' \in Host
    BY <2>1, <2>2, Commands
  <2>4. admin' \in Decisions
    BY <1>3 DEF Disable, Decisions
  <2> QED
    BY <2>3, <2>4
<1>4. ASSUME Enable PROVE host' \in Host /\ admin' \in Decisions
  <2>1. host' \in {[host EXCEPT !.enabled = TRUE], [host EXCEPT !.rc = "on"]}
    BY <1>4 DEF Enable
  <2>2. /\ [host EXCEPT !.enabled = TRUE] \in Host
        /\ [host EXCEPT !.rc = "on"] \in Host
    <3>1. [host EXCEPT !.enabled = TRUE] \in Host
      BY DEF Host
    <3>2. [host EXCEPT !.rc = "on"] \in Host
      BY DEF Host
    <3> QED
      BY <3>1, <3>2
  <2>3. host' \in Host
    BY <2>1, <2>2
  <2>4. admin' \in Decisions
    BY <1>4 DEF Enable, Decisions
  <2> QED
    BY <2>3, <2>4
<1>5. ASSUME StopByHand PROVE host' \in Host /\ admin' \in Decisions
  BY <1>5, Commands DEF StopByHand, Decisions
<1>6. ASSUME StartByHand PROVE host' \in Host /\ admin' \in Decisions
  BY <1>6, <1>1, Services DEF StartByHand
<1>7. ASSUME Mask PROVE host' \in Host /\ admin' \in Decisions
  BY <1>7 DEF Mask, Decisions, Host, Stop
<1>8. ASSUME Unmask PROVE host' \in Host /\ admin' \in Decisions
  BY <1>8 DEF Unmask, Decisions, Host
<1>9. ASSUME DeleteDefaults PROVE host' \in Host /\ admin' \in Decisions
  BY <1>9 DEF DeleteDefaults, Decisions, Host
<1>10. ASSUME Reboot PROVE host' \in Host /\ admin' \in Decisions
  BY <1>10, <1>1, Services DEF Reboot
<1> QED
  BY <1>2, <1>3, <1>4, <1>5, <1>6, <1>7, <1>8, <1>9, <1>10 DEF Administer

(* All that is the same but for what runs, what systemd has loaded and the   *)
(* log directory.                                                            *)
SameBeside(k, h) ==
    /\ k.os = h.os /\ k.files = h.files /\ k.init = h.init /\ k.enabled = h.enabled
    /\ k.rc = h.rc /\ k.mask = h.mask /\ k.account = h.account /\ k.defaults = h.defaults

(* Starting the service, or the machine, changes what runs and what systemd  *)
(* has loaded, and makes a log directory: nothing else.                      *)
LEMMA ServiceChanges ==
    ASSUME NEW h \in Host, NEW k, k \in {StartService(h), Boot(h)}
    PROVE  SameBeside(k, h)
<1>1. ASSUME NEW g \in Host, NEW s, s = StartService(g)
      PROVE  SameBeside(s, g)
  <2>1. s \in {StartUnit(g), StartScript(g), StartJob(g)}
    BY <1>1 DEF StartService, Host
  <2>2. CASE s = StartUnit(g)
    BY <2>2 DEF StartUnit, Host, SameBeside
  <2>3. CASE s = StartScript(g)
    BY <2>3 DEF StartScript, Host, SameBeside
  <2>4. CASE s = StartJob(g)
    BY <2>4 DEF StartJob, Host, SameBeside
  <2> QED
    BY <2>1, <2>2, <2>3, <2>4
<1>2. ASSUME k = Boot(h) PROVE SameBeside(k, h)
  <2> DEFINE g == [Stop(h) EXCEPT !.logdir =
                     @ \/ (h.os = "systemd" /\ h.account /\ Ships(h, "tmpfiles.conf"))]
             fresh == Reload(g)
  <2>1. g \in Host /\ SameBeside(g, h)
    BY DEF Host, Stop, SameBeside
  <2>2. k \in {fresh, StartService(fresh)}
    BY <1>2 DEF Boot
  <2> HIDE DEF g
  <2>3. fresh \in Host /\ SameBeside(fresh, g)
    BY <2>1, Commands DEF Reload, Host, SameBeside
  <2> HIDE DEF fresh
  <2>4. SameBeside(k, fresh)
    BY <2>2, <2>3, <1>1 DEF SameBeside
  <2> QED
    BY <2>1, <2>3, <2>4 DEF SameBeside
<1> QED
  BY <1>1, <1>2

(* Nothing the administrator does touches the package's files.               *)
LEMMA AdministerKeepsFiles ==
    ASSUME host \in Host, Administer
    PROVE  host'.files = host.files /\ host'.init = host.init /\ host'.os = host.os
<1>2. ASSUME NEW now \in BOOLEAN, Disable(now)
      PROVE  host'.files = host.files /\ host'.init = host.init /\ host'.os = host.os
  BY <1>2 DEF Disable, Host, Stop
<1>3. CASE Enable \/ Mask \/ Unmask \/ DeleteDefaults \/ StopByHand
  BY <1>3 DEF Enable, Mask, Unmask, DeleteDefaults, StopByHand, Stop, Host
<1>4. CASE StartByHand \/ Reboot
  <2>1. host' \in {StartService(host), Boot(host)}
    BY <1>4 DEF StartByHand, Reboot
  <2> QED
    BY <2>1, ServiceChanges DEF SameBeside
<1> QED
  BY <1>2, <1>3, <1>4 DEF Administer

(* The administrator's own acts agree with what was decided.                 *)
LEMMA AdministerDecides ==
    ASSUME host \in Host, admin \in Decisions, Administer,
           admin.disabled => ~Enabled(host), admin.off => host.running = None
    PROVE  (admin'.disabled => ~Enabled(host')) /\ (admin'.off => host'.running = None)
<1> USE DEF Decisions
<1>1. ASSUME NEW h \in Host
      PROVE  /\ SeenByHand(h).disabled = admin.disabled
             /\ SeenByHand(h).off => h.running = None
  BY DEF SeenByHand, Seen
<1>2. ASSUME NEW now \in BOOLEAN, Disable(now)
      PROVE  (admin'.disabled => ~Enabled(host')) /\ (admin'.off => host'.running = None)
  BY <1>2 DEF Disable, Host, Stop, Enabled
<1>3. CASE Enable
  BY <1>3 DEF Enable, Host, Enabled
<1>4. CASE StopByHand \/ Mask \/ Unmask \/ DeleteDefaults
  <2>1. CASE StopByHand
    BY <2>1 DEF StopByHand, Stop, Host, Enabled, Ships
  <2>2. CASE Mask
    BY <2>2 DEF Mask, Stop, Host, Enabled, Ships
  <2>3. CASE Unmask
    BY <2>3 DEF Unmask, Host, Enabled, Ships
  <2>4. CASE DeleteDefaults
    BY <2>4 DEF DeleteDefaults, Host, Enabled, Ships
  <2> QED
    BY <1>4, <2>1, <2>2, <2>3, <2>4
<1>5. CASE StartByHand
  <2>1. host' = StartService(host)
    BY <1>5 DEF StartByHand
  <2>2. host' \in Host
    BY <2>1, Services
  <2>3. Enabled(host') = Enabled(host)
    BY <2>1, ServiceChanges DEF Enabled, Ships, SameBeside
  <2> QED
    BY <1>1, <1>5, <2>2, <2>3 DEF StartByHand
<1>6. CASE Reboot
  <2>1. host' \in Host
    BY <1>6, Services DEF Reboot
  <2>2. Enabled(host') = Enabled(host)
    BY <1>6, ServiceChanges DEF Reboot, Enabled, Ships, SameBeside
  <2> QED
    BY <1>1, <1>6, <2>1, <2>2 DEF Reboot
<1> QED
  BY <1>2, <1>3, <1>4, <1>5, <1>6 DEF Administer

(* Where systemd has read the unit of the files that are there, starting it  *)
(* runs those files, if it runs anything.                                    *)
Current(h) == h.loaded = h.files /\ h.running \in {None, h.files}
(* A masked unit does not run.                                               *)
MaskedIsDown(h) == h.mask # "none" => h.running = None
(* An enabled unit runs, or was stopped, as it is when masked.               *)
UpOrStopped(h, a) ==
    /\ h.enabled /\ h.mask # "none" => a.stopped
    /\ h.enabled /\ ~a.stopped => h.running # None
(* Everything the unit needs to start.                                       *)
Equipped(h) == HasUnit(h) /\ h.account /\ h.logdir /\ h.defaults = "present"

(* What `systemctl start` does.                                              *)
LEMMA StartUnitChanges ==
    ASSUME NEW h \in Host, NEW k, k = StartUnit(h)
    PROVE  /\ k \in Host /\ SameBeside(k, h) /\ k.logdir = h.logdir
           /\ k.loaded # h.loaded => h.loaded = None /\ k.loaded = h.files
           /\ k.running # h.running => h.running = None /\ h.mask = "none" /\ HasUnit(h)
           /\ h.loaded = h.files => k.loaded = h.files /\ k.running \in {h.running, h.files}
           /\ h.running = None /\ h.mask = "none" /\ Equipped(h) => k.running # None
<1>1. CASE h.running = None /\ h.mask = "none" /\ HasUnit(h)
  <2>1. h.files # None
    BY <1>1 DEF HasUnit, Ships
  <2> DEFINE read == [h EXCEPT !.loaded = IF @ = None THEN h.files ELSE @]
  <2>2. k = IF h.account /\ h.logdir /\ h.defaults = "present"
            THEN [read EXCEPT !.running = IF read.loaded = h.files THEN h.files ELSE "mixed"]
            ELSE read
    BY <1>1 DEF StartUnit
  <2>3. k \in Host
    BY Commands
  <2> QED
    BY <1>1, <2>1, <2>2, <2>3, NoneAssumption DEF Host, Equipped, SameBeside
<1>2. CASE ~(h.running = None /\ h.mask = "none" /\ HasUnit(h))
  <2>1. k = h
    BY <1>2 DEF StartUnit
  <2> QED
    BY <1>2, <2>1 DEF Host, Equipped, SameBeside
<1> QED
  BY <1>1, <1>2

(* Whether a unit is there follows from the files.                           *)
LEMMA SameUnit ==
    ASSUME NEW h, NEW k, SameBeside(k, h)
    PROVE  (HasUnit(k) <=> HasUnit(h)) /\ \A t : Ships(k, t) <=> Ships(h, t)
  BY DEF SameBeside, HasUnit, Ships

(* What a reboot does under systemd: it reads the units anew and starts what *)
(* is enabled, which tmpfiles.d has made a log directory for.                *)
LEMMA BootChanges ==
    ASSUME NEW h \in Host, h.os = "systemd", NEW k, k = Boot(h)
    PROVE  /\ k \in Host /\ SameBeside(k, h)
           /\ h.logdir => k.logdir
           /\ HasUnit(h) => Current(k)
           /\ k.running # None => HasUnit(h) /\ h.enabled /\ h.mask = "none"
           /\ h.enabled /\ h.mask = "none" /\ HasUnit(h) /\ h.account /\ h.defaults = "present"
                 => k.running # None
<1> DEFINE g == [Stop(h) EXCEPT !.logdir =
                   @ \/ (h.os = "systemd" /\ h.account /\ Ships(h, "tmpfiles.conf"))]
           fresh == Reload(g)
<1>1. g \in Host /\ SameBeside(g, h) /\ g.running = None
  BY DEF Host, Stop, SameBeside
<1>2. g.logdir <=> h.logdir \/ (h.account /\ Ships(h, "tmpfiles.conf"))
  BY DEF Host, Stop
<1>3. k = IF h.enabled /\ h.mask = "none" THEN StartUnit(fresh) ELSE fresh
  BY DEF Boot, StartsAtBoot, StartService, Reload, Stop, Host
<1> HIDE DEF g
<1>4. /\ fresh \in Host /\ SameBeside(fresh, g) /\ fresh.running = None /\ fresh.logdir = g.logdir
      /\ fresh.loaded = IF HasUnit(g) THEN g.files ELSE None
  <2>1. g.os = "systemd"
    BY <1>1 DEF SameBeside
  <2> QED
    BY <1>1, <2>1, Commands DEF Reload, Host, SameBeside
<1>5. /\ HasUnit(g) <=> HasUnit(h)
      /\ HasUnit(fresh) <=> HasUnit(h)
      /\ HasUnit(h) => (Ships(h, "tmpfiles.conf") /\ fresh.loaded = fresh.files)
  <2>1. /\ HasUnit(g) <=> HasUnit(h)
        /\ HasUnit(fresh) <=> HasUnit(g)
    BY <1>1, <1>4, SameUnit
  <2>2. HasUnit(h) => Ships(h, "tmpfiles.conf")
    BY Shipped
  <2> QED
    BY <2>1, <2>2, <1>4 DEF SameBeside
<1> HIDE DEF fresh
<1>6. /\ k \in Host /\ SameBeside(k, fresh) /\ k.logdir = fresh.logdir
      /\ k.running # None => h.enabled /\ h.mask = "none" /\ HasUnit(h)
      /\ HasUnit(h) => Current(k)
      /\ h.enabled /\ h.mask = "none" /\ fresh.mask = "none" /\ Equipped(fresh) => k.running # None
  <2>1. CASE h.enabled /\ h.mask = "none"
    <3>1. k = StartUnit(fresh)
      BY <1>3, <2>1
    <3>2. k \in Host /\ SameBeside(k, fresh) /\ k.logdir = fresh.logdir
      BY <3>1, <1>4, StartUnitChanges
    <3>3. /\ k.running # None => HasUnit(fresh)
          /\ fresh.loaded = fresh.files => k.loaded = fresh.files /\ k.running \in {None, fresh.files}
          /\ fresh.mask = "none" /\ Equipped(fresh) => k.running # None
      BY <3>1, <1>4, StartUnitChanges
    <3> QED
      BY <3>2, <3>3, <2>1, <1>5 DEF Current, SameBeside
  <2>2. CASE ~(h.enabled /\ h.mask = "none")
    BY <2>2, <1>3, <1>4, <1>5 DEF Current, SameBeside
  <2> QED
    BY <2>1, <2>2
<1>7. SameBeside(k, h)
  BY <1>1, <1>4, <1>6 DEF SameBeside
<1>8. h.enabled /\ h.mask = "none" /\ HasUnit(h) /\ h.account /\ h.defaults = "present"
         => fresh.mask = "none" /\ Equipped(fresh)
  BY <1>1, <1>2, <1>4, <1>5 DEF Equipped, SameBeside
<1> QED
  BY <1>2, <1>4, <1>5, <1>6, <1>7, <1>8

(* Under systemd, what the administrator does keeps a unit ready and what is *)
(* decided true; it starts nothing that is not enabled or asked for.         *)
LEMMA AdministerOnSystemd ==
    ASSUME host \in Host, host.os = "systemd", admin \in Decisions, Administer
    PROVE  /\ host'.account = host.account /\ host'.rc = host.rc
           /\ host.logdir => host'.logdir
           /\ host'.defaults # host.defaults => "delete-defaults" \in AdminActs
           /\ host'.mask \in {host.mask, "admin"} \/ (host.mask = "admin" /\ host'.mask = "none")
           /\ HasUnit(host) /\ host.loaded = host.files => host'.loaded = host.files
           /\ HasUnit(host) /\ Current(host) => Current(host')
           /\ host'.enabled => host.enabled \/ (HasUnit(host) /\ ~Removing)
           /\ host'.running \in {None, host.running} \/ (HasUnit(host) /\ ~Removing)
           /\ MaskedIsDown(host) => MaskedIsDown(host')
           /\ Equipped(host) /\ MaskedIsDown(host) /\ UpOrStopped(host, admin)
              /\ "delete-defaults" \notin AdminActs
                 => UpOrStopped(host', admin')
<1> DEFINE Kept ==
           /\ host'.account = host.account /\ host'.rc = host.rc
           /\ host.logdir => host'.logdir
           /\ host'.defaults # host.defaults => "delete-defaults" \in AdminActs
           /\ host'.mask \in {host.mask, "admin"} \/ (host.mask = "admin" /\ host'.mask = "none")
    Loaded == /\ HasUnit(host) /\ host.loaded = host.files => host'.loaded = host.files
              /\ HasUnit(host) /\ Current(host) => Current(host')
    Off == /\ host'.enabled => host.enabled \/ (HasUnit(host) /\ ~Removing)
           /\ host'.running \in {None, host.running} \/ (HasUnit(host) /\ ~Removing)
           /\ MaskedIsDown(host) => MaskedIsDown(host')
    Up == Equipped(host) /\ MaskedIsDown(host) /\ UpOrStopped(host, admin)
          /\ "delete-defaults" \notin AdminActs => UpOrStopped(host', admin')
<1> USE DEF Decisions, Current, MaskedIsDown, UpOrStopped
<1>1. ASSUME NEW now \in BOOLEAN, Disable(now) PROVE Kept /\ Loaded /\ Off /\ Up
  BY <1>1 DEF Disable, Host, Stop, Enabled
<1>2. ASSUME Enable PROVE Kept /\ Loaded /\ Off /\ Up
  BY <1>2 DEF Enable, Host
<1>3. ASSUME StopByHand PROVE Kept /\ Loaded /\ Off /\ Up
  BY <1>3 DEF StopByHand, Host, Stop
<1>4. ASSUME StartByHand PROVE Kept /\ Loaded /\ Off /\ Up
  <2>1. /\ host' = StartUnit(host) /\ ~Removing /\ admin' = SeenByHand(host')
        /\ host' # host
    BY <1>4 DEF StartByHand, StartService
  <2>2. HasUnit(host)
    BY <2>1 DEF StartUnit
  <2>3. admin'.stopped <=> admin.stopped /\ host'.running = None
    BY <2>1 DEF SeenByHand, Seen
  <2>4. /\ SameBeside(host', host) /\ host'.logdir = host.logdir
        /\ host'.running # host.running => host.running = None /\ host.mask = "none"
        /\ host.loaded = host.files => host'.loaded = host.files /\ host'.running \in {host.running, host.files}
    BY <2>1, StartUnitChanges
  <2>5. Kept
    BY <2>4 DEF SameBeside
  <2>6. Loaded
    BY <2>4 DEF SameBeside
  <2>7. Off
    BY <2>1, <2>2, <2>4 DEF SameBeside
  <2>8. Up
    BY <2>3, <2>4 DEF SameBeside
  <2> QED
    BY <2>5, <2>6, <2>7, <2>8
<1>5. ASSUME Mask PROVE Kept /\ Loaded /\ Off /\ Up
  BY <1>5 DEF Mask, Host, Stop
<1>6. ASSUME Unmask PROVE Kept /\ Loaded /\ Off /\ Up
  BY <1>6 DEF Unmask, Host
<1>7. ASSUME DeleteDefaults PROVE Kept /\ Loaded /\ Off /\ Up
  BY <1>7 DEF DeleteDefaults, Does, Host
<1>8. ASSUME Reboot PROVE Kept /\ Loaded /\ Off /\ Up
  <2>1. host' = Boot(host) /\ ~Removing /\ admin' = SeenByHand(host')
    BY <1>8 DEF Reboot, Idle, Removing
  <2>2. admin'.stopped <=> admin.stopped /\ host'.running = None
    BY <2>1 DEF SeenByHand, Seen
  <2>3. /\ SameBeside(host', host) /\ (host.logdir => host'.logdir)
        /\ HasUnit(host) => Current(host')
        /\ host'.running # None => HasUnit(host) /\ host.enabled /\ host.mask = "none"
        /\ host.enabled /\ host.mask = "none" /\ Equipped(host) => host'.running # None
    BY <2>1, BootChanges DEF Equipped
  <2>4. Kept
    BY <2>3 DEF SameBeside
  <2>5. Loaded
    BY <2>3 DEF SameBeside
  <2>6. Off
    BY <2>1, <2>3 DEF SameBeside
  <2>7. Up
    BY <2>2, <2>3 DEF SameBeside
  <2> QED
    BY <2>4, <2>5, <2>6, <2>7
<1> QED
  BY <1>1, <1>2, <1>3, <1>4, <1>5, <1>6, <1>7, <1>8 DEF Administer

(* `systemctl try-restart`, where the unit is there and has been read, runs  *)
(* the files that are there, if it runs anything.                            *)
LEMMA TryRestartChanges ==
    ASSUME NEW h \in Host, NEW k, k = TryRestartUnit(h)
    PROVE  /\ k \in Host /\ SameBeside(k, h) /\ k.logdir = h.logdir
           /\ h.running = None => k.running = None
           /\ h.loaded = h.files => k.loaded = h.files
           /\ h.loaded = h.files /\ HasUnit(h) /\ MaskedIsDown(h) => k.running \in {None, h.files}
           /\ h.mask # "none" => k.running = h.running
           /\ h.running # None /\ h.mask = "none" /\ Equipped(h) => k.running # None
<1>1. Stop(h) \in Host /\ SameBeside(Stop(h), h) /\ Stop(h).logdir = h.logdir
      /\ Stop(h).loaded = h.loaded /\ Stop(h).running = None
  BY DEF Stop, Host, SameBeside
<1>2. CASE h.running # None /\ h.mask = "none" /\ HasUnit(h)
  <2>1. k = StartUnit(Stop(h))
    BY <1>2 DEF TryRestartUnit, RestartUnit
  <2>2. /\ k \in Host /\ SameBeside(k, Stop(h)) /\ k.logdir = Stop(h).logdir
        /\ Stop(h).loaded = Stop(h).files
              => k.loaded = Stop(h).files /\ k.running \in {Stop(h).running, Stop(h).files}
        /\ Stop(h).running = None /\ Stop(h).mask = "none" /\ Equipped(Stop(h)) => k.running # None
    BY <1>1, <2>1, StartUnitChanges
  <2>3. Equipped(h) => Equipped(Stop(h))
    BY <1>1, SameUnit DEF SameBeside, Equipped
  <2> QED
    BY <1>1, <1>2, <2>2, <2>3 DEF SameBeside
<1>3. CASE ~(h.running # None /\ h.mask = "none" /\ HasUnit(h))
  <2>1. k = h
    BY <1>3 DEF TryRestartUnit, RestartUnit
  <2> QED
    BY <1>3, <2>1 DEF SameBeside, MaskedIsDown, Equipped
<1> QED
  BY <1>2, <1>3

(* Under another init system, what the administrator does leaves the         *)
(* account and systemd's links alone; without runlevel links nothing is      *)
(* made of them, and no System V script runs.                                *)
LEMMA AdministerElsewhere ==
    ASSUME host \in Host, host.os # "systemd", admin \in Decisions, Administer
    PROVE  /\ host'.account = host.account /\ host'.enabled = host.enabled
           /\ host.rc = "none" => host'.rc = "none"
           /\ (admin.disabled => host.rc # "on") => (admin'.disabled => host'.rc # "on")
           /\ host.os = "sysv" /\ host.rc # "on" /\ host.running = None => host'.running = None
<1> DEFINE Kept ==
           /\ host'.account = host.account /\ host'.enabled = host.enabled
           /\ host.rc = "none" => host'.rc = "none"
           /\ (admin.disabled => host.rc # "on") => (admin'.disabled => host'.rc # "on")
           /\ host.os = "sysv" /\ host.rc # "on" /\ host.running = None => host'.running = None
<1>1. ASSUME NEW now \in BOOLEAN, Disable(now) PROVE Kept
  <2>1. /\ host' \in {[host EXCEPT !.rc = "off"], Stop([host EXCEPT !.rc = "off"])}
        /\ host.rc = "on"
    BY <1>1 DEF Disable, Enabled
  <2> QED
    BY <2>1 DEF Stop, Host
<1>2. CASE Enable
  <2>1. /\ host' = [host EXCEPT !.rc = "on"] /\ host.rc = "off"
        /\ admin' = [admin EXCEPT !.disabled = FALSE, !.stopped = host.running = None]
    BY <1>2 DEF Enable
  <2>2. ~admin'.disabled
    BY <2>1 DEF Decisions
  <2> QED
    BY <2>1, <2>2 DEF Host
<1>3. CASE StopByHand
  BY <1>3 DEF StopByHand, Stop, Host, Decisions
<1>4. ASSUME NEW h \in Host, NEW k, h.os # "systemd", k = StartService(h)
      PROVE  /\ SameBeside(k, h)
             /\ h.os = "sysv" /\ h.rc # "on" => k.running = h.running
  BY <1>4, ServiceChanges DEF StartService, StartScript, Host
<1>5. CASE StartByHand
  <2>1. host' = StartService(host) /\ admin' = SeenByHand(host')
    BY <1>5 DEF StartByHand
  <2>2. admin'.disabled = admin.disabled
    BY <2>1 DEF SeenByHand, Seen, Decisions
  <2> QED
    BY <1>4, <2>1, <2>2 DEF SameBeside
<1>6. CASE Mask
  BY <1>6 DEF Mask
<1>7. CASE Unmask
  BY <1>7 DEF Unmask, Host, Decisions
<1>8. CASE DeleteDefaults
  BY <1>8 DEF DeleteDefaults, Host, Decisions
<1>9. CASE Reboot
  <2> DEFINE g == [Stop(host) EXCEPT !.logdir =
                     @ \/ (host.os = "systemd" /\ host.account /\ Ships(host, "tmpfiles.conf"))]
  <2>1. host' = Boot(host) /\ admin' = SeenByHand(host')
    BY <1>9 DEF Reboot
  <2>2. admin'.disabled = admin.disabled
    BY <2>1 DEF SeenByHand, Seen, Decisions
  <2>3. g \in Host /\ SameBeside(g, host) /\ g.running = None
    BY DEF Stop, Host, SameBeside
  <2>4. host' = IF StartsAtBoot(host) THEN StartService(Reload(g)) ELSE Reload(g)
    BY <2>1 DEF Boot
  <2> HIDE DEF g
  <2>5. Reload(g) = g
    BY <2>3 DEF Reload, SameBeside
  <2>6. SameBeside(host', host) /\ (host.os = "sysv" /\ host.rc # "on" => host'.running = None)
    BY <1>4, <2>3, <2>4, <2>5 DEF SameBeside
  <2> QED
    BY <2>2, <2>6 DEF SameBeside
<1> QED
  BY <1>1, <1>2, <1>3, <1>5, <1>6, <1>7, <1>8, <1>9 DEF Administer
=============================================================================
