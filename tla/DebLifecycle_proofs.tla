------------------------- MODULE DebLifecycle_proofs -------------------------
(* What DebLifecycle promises, for any versions, builds, init systems and    *)
(* administrator: an invariant of every operation of dpkg, step by step,     *)
(* called off or stopped anywhere.                                           *)
EXTENDS DebLifecycle, Administrator_proofs

(* The steps, in the order in which they come in any operation.              *)
PrermDoings == {"prerm-systemd-restart", "prerm-sysv", "prerm-upstart"}
PostrmDoings == {"postrm-systemd", "postrm-sysv", "postrm-purge", "postrm-systemd-reload"}
Doings == PrermDoings \cup PostrmDoings \cup PostinstDoings \cup DpkgSteps
Rank == [d \in Doings |->
    CASE d = "prerm-systemd-restart" -> 1 [] d = "prerm-sysv" -> 2 [] d = "prerm-upstart" -> 3
      [] d = "unpack" -> 4 [] d = "delete" -> 5
      [] d = "postrm-systemd" -> 6 [] d = "postrm-sysv" -> 7 [] d = "postrm-purge" -> 8
      [] d = "postrm-systemd-reload" -> 9
      [] d = "postinst-npm-install" -> 10 [] d = "postinst-account" -> 11
      [] d = "postinst-logdir" -> 12 [] d = "postinst-systemd-enable" -> 13
      [] d = "postinst-systemd-restart" -> 14 [] d = "postinst-sysv" -> 15
      [] d = "postinst-upstart" -> 16
      [] d = "deconfigured" -> 17 [] d = "status" -> 17]

Words == Restoring \cup Status
         \cup {"upgrade", "deconfigure", "remove", "purge", "abort-install"}
Steps == [do : Doings, arg : Words \cup Version, second : BOOLEAN]

-----------------------------------------------------------------------------
(* The inductive invariant.                                                  *)

Still(d) == d \in Ahead(todo)

(* What the record will say when the operation is done, as its last step has *)
(* it; when there is none, what it says.                                     *)
Goal == IF todo = <<>> THEN dpkg.status ELSE todo[Len(todo)].arg
Gone == {"not-installed", "config-files"}
Unpacked == {"installed", "half-configured"}

(* Whether it makes up for a version skipped: postinst is given $2.          *)
Clearing == todo # <<>> /\ todo[Len(todo)].second

(* The steps an operation with that goal may consist of.                     *)
Fit(goal, clears) ==
    {s \in Steps :
        /\ s.do \in PostinstDoings =>
              /\ s.arg \in Restoring /\ goal \in Unpacked
              /\ s.arg = "configure" => /\ s.second <=> dpkg.configured # None
                                        /\ s.second <=> clears
              /\ s.arg # "configure" =>
                    ~clears /\ (goal = "installed" => skipped \/ dpkg.configured # None)
              /\ s.arg \in {"abort-upgrade", "abort-deconfigure"} => s.second
        /\ s.do \in PrermDoings => /\ s.arg \in {"upgrade", "deconfigure", "remove"}
                                   /\ s.arg = "remove" <=> goal = "config-files"
        /\ s.do \in PostrmDoings =>
              /\ s.arg \in {"upgrade", "remove", "purge", "abort-upgrade", "abort-install"}
              /\ s.arg = "remove" => goal = "config-files"
              /\ s.arg = "purge" => goal = "not-installed"
              /\ goal = "not-installed" => s.arg = "purge" \/ dpkg.status = "not-installed"
              /\ goal # "half-configured"
        /\ s.do = "unpack" => s.arg \in Version /\ goal = "installed"
        /\ s.do = "delete" => s.arg = "remove" /\ goal = "config-files"
        /\ s.do = "deconfigured" => s.arg = "half-configured"
        /\ s.do = "status" => s.arg \in Status
        /\ s.do \in {"status", "deconfigured"} /\ s.second => goal = "installed"}

(* An operation's steps come in a fixed order and end with the record.       *)
Shape ==
    /\ todo \in Seq(Steps) /\ InOrder(todo, Rank)
    /\ todo # <<>> => todo[Len(todo)].do \in {"status", "deconfigured"}
    /\ \A i \in DOMAIN todo : todo[i] \in Fit(Goal, Clearing)
    /\ Still("deconfigured") => dpkg.status = "installed"
    /\ Still("delete") => dpkg.status \in Unpacked

(* The record lags behind the files only until the operation is done.        *)
Record ==
    /\ Goal \in Status
    /\ Still("unpack") \/ Still("delete") => (host.files = None <=> dpkg.status \in Gone)
    /\ ~Still("unpack") /\ ~Still("delete") => (host.files = None <=> Goal \in Gone)
    /\ host.files # None => host.init = built[host.files] /\ dpkg.version = host.files
    /\ dpkg.status # "not-installed" => dpkg.version \in Version
    /\ Goal \in {"half-configured", "config-files"} => dpkg.status # "not-installed"
    /\ Goal = "not-installed" => dpkg.status \in Gone
    /\ dpkg.status = "installed" => dpkg.configured # None
    /\ dpkg.status = "not-installed" => dpkg.configured = None
    /\ Still("unpack") /\ host.files # None => skipped \/ dpkg.configured # None

(* What the packages ship.                                                   *)
WithService == \A v \in Version : built[v] # "none"
WithoutService == \A v \in Version : built[v] = "none"
WithUnit == \A v \in Version : Uses("systemd", built[v])
WithoutUnit == \A v \in Version : ~Uses("systemd", built[v])
WithScript == \A v \in Version : Uses("sysv", built[v])
WithoutScript == \A v \in Version : ~Uses("sysv", built[v])

(* Whether this machine can run a package with that `init`.                  *)
CanRun(init) == \/ host.os = "systemd" /\ Uses("systemd", init)
                \/ host.os # "systemd" /\ Uses("sysv", init)
                \/ host.os = "upstart" /\ init = "upstart"
Runnable == \A v \in Version : CanRun(built[v])
NotRunnable == \A v \in Version : ~CanRun(built[v])

(* No decision is overruled, until a purge forgets the unit.                 *)
Purging == todo # <<>> /\ Goal = "not-installed"
Decided ==
    /\ admin.masked => host.mask = "admin"
    /\ admin.disabled =>
          IF host.os = "systemd" THEN ~host.enabled /\ (recorded \/ Purging)
          ELSE host.rc # "on" /\ (host.rc = "none" => Purging) /\ ~WithoutScript
    /\ admin.disabled => dpkg.status # "not-installed" \/ host.files # None
    /\ SameInit /\ admin.disabled /\ admin.off => host.running = None

(* What nothing ever makes on this machine, and what a purge takes away:     *)
(* the unit's links and mask,                                                *)
Forgotten(d) == (Goal = "not-installed" /\ ~Still(d))
                \/ (dpkg.status = "not-installed" /\ host.files = None)
Links ==
    /\ WithoutUnit \/ Forgotten("postrm-systemd") =>
          ~recorded /\ ~host.enabled /\ host.mask # "own"
    /\ WithoutUnit => ~Still("postrm-systemd")

(* the runlevel links,                                                       *)
RunLevels ==
    /\ WithoutScript \/ Forgotten("postrm-sysv") => host.rc = "none"
    /\ WithoutScript => ~Still("postinst-sysv")

(* and the account with its directory.                                       *)
Account ==
    /\ WithoutService \/ Forgotten("postrm-purge") => ~host.account /\ ~host.logdir
    /\ WithoutService => ~Still("postinst-account")

(* The snippet that stops the service here, before its files go.             *)
Stops(d) == \/ d = "prerm-systemd-restart" /\ host.os = "systemd"
            \/ d = "prerm-sysv" /\ host.os # "systemd"
            \/ d = "prerm-upstart" /\ host.os = "upstart"
Stopped ==
    /\ host.files = None => host.running = None
    /\ Still("delete") /\ (\A d \in Ahead(todo) : ~Stops(d)) => host.running = None

(* No postinst is told that a removal was called off.                        *)
Told == \A i \in DOMAIN todo :
            todo[i].do \in PostinstDoings => todo[i].arg # "abort-remove"

(* Under systemd: what is still to be done for a step that was done,         *)
Pending ==
    /\ Still("unpack") => Still("postinst-systemd-enable")
    /\ Still("postinst-systemd-enable") => Still("postinst-systemd-restart")
    /\ Still("unpack") => Still("postinst-account") /\ Still("postinst-logdir")
    /\ Still("unpack") /\ host.files # None => Still("postrm-systemd-reload")
    /\ Still("delete") => Still("postrm-systemd-reload")
    /\ Still("postrm-systemd-reload") /\ Goal = "installed" =>
          /\ Still("postinst-systemd-restart") /\ Told
          /\ skipped \/ dpkg.configured # None

(* what was replaced is not in use: a restart is to come, or will when the   *)
(* package is configured, unless a version was skipped,                      *)
UpToDate == host.running \in {None, host.files}
Fresh ==
    /\ Still("unpack") \/ Still("delete") \/ ~Still("postrm-systemd-reload")
          => host.loaded \in {None, host.files}
    /\ \/ UpToDate
       \/ skipped /\ (Clearing => Still("postinst-systemd-restart"))
       \/ /\ dpkg.configured # None
          /\ Goal = "installed" => Still("postinst-systemd-restart") /\ Told

(* a mask is in force,                                                       *)
Masked ==
    /\ MaskedIsDown(host)
    /\ host.mask = "admin" => admin.stopped
    /\ host.mask = "own" =>
          host.files = None \/ Goal # "installed" \/ Still("postinst-systemd-enable")

(* what the unit needs is there,                                             *)
Unskipped == ~skipped \/ Clearing
Ready ==
    /\ dpkg.configured # None /\ ~skipped /\ Goal # "not-installed"
          => host.account /\ host.logdir
    /\ Goal = "installed" /\ Unskipped /\ ~Still("postinst-account") => host.account
    /\ Goal = "installed" /\ Unskipped /\ ~Still("postinst-logdir") => host.logdir

(* and an enabled service runs unless somebody stopped it.                   *)
Up(h, a) == h.enabled /\ h.mask # "admin" /\ ~a.stopped /\ h.defaults = "present"
               => h.running # None
Runs == Goal = "installed" /\ Unskipped /\ ~Still("postinst-systemd-restart") => Up(host, admin)

IInv ==
    /\ TypeOK /\ Shape /\ Record /\ Decided
    /\ WithUnit \/ WithoutUnit => Links
    /\ WithScript \/ WithoutScript => RunLevels
    /\ WithService \/ WithoutService => Account
    /\ Runnable => Stopped
    /\ NotRunnable => host.running = None
    /\ host.os = "systemd" /\ WithUnit => Pending /\ Fresh /\ Masked /\ Ready /\ Runs

-----------------------------------------------------------------------------
(* The scripts.                                                              *)

(* The rank of each step, and of each script's.                              *)
LEMMA RankValues ==
    /\ Rank \in [Doings -> Nat]
    /\ Rank["prerm-systemd-restart"] = 1 /\ Rank["prerm-sysv"] = 2 /\ Rank["prerm-upstart"] = 3
    /\ Rank["unpack"] = 4 /\ Rank["delete"] = 5
    /\ Rank["postrm-systemd"] = 6 /\ Rank["postrm-sysv"] = 7 /\ Rank["postrm-purge"] = 8
    /\ Rank["postrm-systemd-reload"] = 9
    /\ Rank["postinst-npm-install"] = 10 /\ Rank["postinst-account"] = 11
    /\ Rank["postinst-logdir"] = 12 /\ Rank["postinst-systemd-enable"] = 13
    /\ Rank["postinst-systemd-restart"] = 14 /\ Rank["postinst-sysv"] = 15
    /\ Rank["postinst-upstart"] = 16
    /\ Rank["deconfigured"] = 17 /\ Rank["status"] = 17
  BY DEF Rank, Doings, PrermDoings, PostrmDoings, PostinstDoings, DpkgSteps

(* Where each kind of step comes.                                            *)
LEMMA RankBounds ==
    /\ \A d \in Doings : Rank[d] \in 1..17
    /\ \A d \in PrermDoings : Rank[d] <= 3
    /\ \A d \in PostrmDoings : 6 <= Rank[d] /\ Rank[d] <= 9
    /\ \A d \in PostinstDoings : 10 <= Rank[d] /\ Rank[d] <= 16
  BY RankValues DEF Doings, PrermDoings, PostrmDoings, PostinstDoings, DpkgSteps

(* What each script does for a package with that `init`.                     *)
IfSo(c, acts) == IF c THEN acts ELSE {}
PostinstActs(init) ==
    {"postinst-npm-install"}
    \cup IfSo(init # "none", {"postinst-account", "postinst-logdir"})
    \cup IfSo(Uses("systemd", init), {"postinst-systemd-enable", "postinst-systemd-restart"})
    \cup IfSo(Uses("sysv", init), {"postinst-sysv"})
    \cup IfSo(init = "upstart", {"postinst-upstart"})
PrermActs(init) ==
    IfSo(Uses("systemd", init), {"prerm-systemd-restart"})
    \cup IfSo(Uses("sysv", init), {"prerm-sysv"})
    \cup IfSo(init = "upstart", {"prerm-upstart"})
PostrmActs(init) ==
    IfSo(Uses("systemd", init), {"postrm-systemd"})
    \cup IfSo(Uses("sysv", init), {"postrm-sysv"})
    \cup IfSo(init # "none", {"postrm-purge"})
    \cup IfSo(Uses("systemd", init), {"postrm-systemd-reload"})

(* A snippet, or two in their order, that are there on a condition.          *)
LEMMA OneSnippet ==
    ASSUME NEW d \in Doings, NEW c \in BOOLEAN
    PROVE  Script(If(c, <<d>>), Doings, IfSo(c, {d}), Rank)
<1>1. Script(<<d>>, Doings, {d}, Rank)
  BY DEF Script, NamesOf, Ascending
<1> QED
  BY <1>1, IfScript DEF IfSo

(* The same for two.                                                         *)
LEMMA TwoSnippets ==
    ASSUME NEW d \in Doings, NEW e \in Doings, Rank[d] < Rank[e], NEW c \in BOOLEAN
    PROVE  Script(If(c, <<d, e>>), Doings, IfSo(c, {d, e}), Rank)
<1>1. Script(<<d, e>>, Doings, {d, e}, Rank)
  <2>1. <<d, e>> \in Seq(Doings) /\ DOMAIN <<d, e>> = 1..2
    OBVIOUS
  <2> QED
    BY <2>1 DEF Script, NamesOf, Ascending
<1> QED
  BY <1>1, IfScript DEF IfSo

(* Each script is one of those snippets, in the order of their ranks.        *)
LEMMA PostinstScript ==
    ASSUME NEW init \in InitSystem
    PROVE  Script(DebPostinst(init, "npm-install"), Doings, PostinstActs(init), Rank)
<1> DEFINE service == init # "none"
           unit == Uses("systemd", init)
           script == Uses("sysv", init)
           job == init = "upstart"
           a == If(TRUE, <<"postinst-npm-install">>)
           b == If(service, <<"postinst-account", "postinst-logdir">>)
           c == If(unit, <<"postinst-systemd-enable", "postinst-systemd-restart">>)
           d == If(script, <<"postinst-sysv">>)
           e == If(job, <<"postinst-upstart">>)
           bs == IfSo(service, {"postinst-account", "postinst-logdir"})
           cs == IfSo(unit, {"postinst-systemd-enable", "postinst-systemd-restart"})
           ds == IfSo(script, {"postinst-sysv"})
           es == IfSo(job, {"postinst-upstart"})
<1>1. service \in BOOLEAN /\ unit \in BOOLEAN /\ script \in BOOLEAN /\ job \in BOOLEAN
  BY DEF Uses
<1>2. DebPostinst(init, "npm-install") = a \o b \o c \o d \o e
  BY DEF DebPostinst, ServiceOnly
<1>3. PostinstActs(init) = {"postinst-npm-install"} \cup bs \cup cs \cup ds \cup es
  BY DEF PostinstActs
<1> HIDE DEF service, unit, script, job
<1>4. Script(a, Doings, {"postinst-npm-install"}, Rank)
  BY OneSnippet DEF Doings, PostinstDoings, IfSo
<1>5. Script(b, Doings, bs, Rank) /\ Script(c, Doings, cs, Rank)
  BY <1>1, TwoSnippets, RankValues DEF Doings, PostinstDoings
<1>6. Script(d, Doings, ds, Rank) /\ Script(e, Doings, es, Rank)
  BY <1>1, OneSnippet DEF Doings, PostinstDoings
<1>7. /\ bs \subseteq {"postinst-account", "postinst-logdir"}
      /\ cs \subseteq {"postinst-systemd-enable", "postinst-systemd-restart"}
      /\ ds \subseteq {"postinst-sysv"} /\ es \subseteq {"postinst-upstart"}
  BY DEF IfSo
<1> HIDE DEF a, b, c, d, e, bs, cs, ds, es
<1>8. Script(a \o b, Doings, {"postinst-npm-install"} \cup bs, Rank)
  <2>1. \A x \in {"postinst-npm-install"} : \A y \in bs : Rank[x] < Rank[y]
    BY <1>7, RankValues
  <2> QED
    BY <1>4, <1>5, <2>1, ConcatScripts
<1>9. Script(a \o b \o c, Doings, {"postinst-npm-install"} \cup bs \cup cs, Rank)
  <2>1. \A x \in {"postinst-npm-install"} \cup bs : \A y \in cs : Rank[x] < Rank[y]
    BY <1>7, RankValues
  <2> QED
    BY <1>5, <1>8, <2>1, ConcatScripts
<1>10. Script(a \o b \o c \o d, Doings, {"postinst-npm-install"} \cup bs \cup cs \cup ds, Rank)
  <2>1. \A x \in {"postinst-npm-install"} \cup bs \cup cs : \A y \in ds : Rank[x] < Rank[y]
    BY <1>7, RankValues
  <2> QED
    BY <1>6, <1>9, <2>1, ConcatScripts
<1>11. Script(a \o b \o c \o d \o e, Doings,
              {"postinst-npm-install"} \cup bs \cup cs \cup ds \cup es, Rank)
  <2>1. \A x \in {"postinst-npm-install"} \cup bs \cup cs \cup ds : \A y \in es : Rank[x] < Rank[y]
    BY <1>7, RankValues
  <2> QED
    BY <1>6, <1>10, <2>1, ConcatScripts
<1> QED
  BY <1>2, <1>3, <1>11

(* What stops the service.                                                   *)
LEMMA PrermScript ==
    ASSUME NEW init \in InitSystem
    PROVE  Script(DebPrerm(init), Doings, PrermActs(init), Rank)
<1> DEFINE unit == Uses("systemd", init)
           script == Uses("sysv", init)
           job == init = "upstart"
           a == If(unit, <<"prerm-systemd-restart">>)
           b == If(script, <<"prerm-sysv">>)
           c == If(job, <<"prerm-upstart">>)
           us == IfSo(unit, {"prerm-systemd-restart"})
           bs == IfSo(script, {"prerm-sysv"})
           cs == IfSo(job, {"prerm-upstart"})
<1>1. unit \in BOOLEAN /\ script \in BOOLEAN /\ job \in BOOLEAN
  BY DEF Uses
<1>2. DebPrerm(init) = a \o b \o c /\ PrermActs(init) = us \cup bs \cup cs
  BY DEF DebPrerm, PrermActs
<1> HIDE DEF unit, script, job
<1>3. Script(a, Doings, us, Rank) /\ Script(b, Doings, bs, Rank) /\ Script(c, Doings, cs, Rank)
  BY <1>1, OneSnippet DEF Doings, PrermDoings
<1>4. /\ us \subseteq {"prerm-systemd-restart"} /\ bs \subseteq {"prerm-sysv"}
      /\ cs \subseteq {"prerm-upstart"}
  BY DEF IfSo
<1> HIDE DEF a, b, c, us, bs, cs
<1>5. Script(a \o b, Doings, us \cup bs, Rank)
  <2>1. \A x \in us : \A y \in bs : Rank[x] < Rank[y]
    BY <1>4, RankValues
  <2> QED
    BY <1>3, <2>1, ConcatScripts
<1>6. Script(a \o b \o c, Doings, us \cup bs \cup cs, Rank)
  <2>1. \A x \in us \cup bs : \A y \in cs : Rank[x] < Rank[y]
    BY <1>4, RankValues
  <2> QED
    BY <1>3, <1>5, <2>1, ConcatScripts
<1> QED
  BY <1>2, <1>6

(* What cleans up.                                                           *)
LEMMA PostrmScript ==
    ASSUME NEW init \in InitSystem
    PROVE  Script(DebPostrm(init), Doings, PostrmActs(init), Rank)
<1> DEFINE service == init # "none"
           unit == Uses("systemd", init)
           script == Uses("sysv", init)
           a == If(unit, <<"postrm-systemd">>)
           b == If(script, <<"postrm-sysv">>)
           c == If(service, <<"postrm-purge">>)
           d == If(unit, <<"postrm-systemd-reload">>)
           us == IfSo(unit, {"postrm-systemd"})
           bs == IfSo(script, {"postrm-sysv"})
           cs == IfSo(service, {"postrm-purge"})
           ds == IfSo(unit, {"postrm-systemd-reload"})
<1>1. unit \in BOOLEAN /\ script \in BOOLEAN /\ service \in BOOLEAN
  BY DEF Uses
<1>2. DebPostrm(init) = a \o b \o c \o d /\ PostrmActs(init) = us \cup bs \cup cs \cup ds
  BY DEF DebPostrm, PostrmActs, ServiceOnly
<1> HIDE DEF unit, script, service
<1>3. /\ Script(a, Doings, us, Rank) /\ Script(b, Doings, bs, Rank)
      /\ Script(c, Doings, cs, Rank) /\ Script(d, Doings, ds, Rank)
  BY <1>1, OneSnippet DEF Doings, PostrmDoings
<1>4. /\ us \subseteq {"postrm-systemd"} /\ bs \subseteq {"postrm-sysv"}
      /\ cs \subseteq {"postrm-purge"} /\ ds \subseteq {"postrm-systemd-reload"}
  BY DEF IfSo
<1> HIDE DEF a, b, c, d, us, bs, cs, ds
<1>5. Script(a \o b, Doings, us \cup bs, Rank)
  <2>1. \A x \in us : \A y \in bs : Rank[x] < Rank[y]
    BY <1>4, RankValues
  <2> QED
    BY <1>3, <2>1, ConcatScripts
<1>6. Script(a \o b \o c, Doings, us \cup bs \cup cs, Rank)
  <2>1. \A x \in us \cup bs : \A y \in cs : Rank[x] < Rank[y]
    BY <1>4, RankValues
  <2> QED
    BY <1>3, <1>5, <2>1, ConcatScripts
<1>7. Script(a \o b \o c \o d, Doings, us \cup bs \cup cs \cup ds, Rank)
  <2>1. \A x \in us \cup bs \cup cs : \A y \in ds : Rank[x] < Rank[y]
    BY <1>4, RankValues
  <2> QED
    BY <1>3, <1>6, <2>1, ConcatScripts
<1> QED
  BY <1>2, <1>7

(* The kinds of what each script does.                                       *)
LEMMA ActKinds ==
    ASSUME NEW init
    PROVE  /\ PostinstActs(init) \subseteq PostinstDoings
           /\ PrermActs(init) \subseteq PrermDoings
           /\ PostrmActs(init) \subseteq PostrmDoings
  BY DEF PostinstActs, PrermActs, PostrmActs, IfSo, PostinstDoings, PrermDoings, PostrmDoings

-----------------------------------------------------------------------------
(* The steps of the operations.                                              *)

(* A sequence of steps and its last one.                                     *)
Ending(steps, e) == steps # <<>> /\ steps[Len(steps)] = e

(* What comes before does not change the last step.                          *)
LEMMA EndsWith ==
    ASSUME NEW S, NEW s \in Seq(S), NEW t \in Seq(S), NEW e, Ending(t, e)
    PROVE  Ending(s \o t, e)
<1>1. Len(t) \in Nat /\ Len(t) > 0 /\ Len(s) \in Nat
  BY DEF Ending
<1>2. /\ Len(s \o t) = Len(s) + Len(t)
      /\ (s \o t)[Len(s) + Len(t)] = t[Len(t)]
  BY <1>1
<1> QED
  BY <1>1, <1>2 DEF Ending

(* Running a script is doing its steps in its order.                         *)
LEMMA ScriptPlan ==
    ASSUME NEW script, NEW acts, Script(script, Doings, acts, Rank), NEW arg, NEW second,
           NEW S, \A d \in acts : Step(d, arg, second) \in S
    PROVE  Plan(RunScript(script, arg, second), S, acts, Rank)
<1>1. \A i \in DOMAIN script : Step(script[i], arg, second) \in S
  BY DEF Script, NamesOf
<1>2. RunScript(script, arg, second) = [i \in DOMAIN script |-> Step(script[i], arg, second)]
  BY DEF RunScript
<1>3. RunScript(script, arg, second) \in [DOMAIN script -> S]
  BY <1>1, <1>2
<1>4. \A i \in DOMAIN script : RunScript(script, arg, second)[i].do = script[i]
  BY <1>2 DEF Step
<1> QED
  BY <1>3, <1>4, ScriptSteps

(* So is a step of dpkg's own,                                               *)
LEMMA DpkgPlan ==
    ASSUME NEW do, NEW arg, NEW second, NEW S, Step(do, arg, second) \in S
    PROVE  /\ Plan(<<Step(do, arg, second)>>, S, {do}, Rank)
           /\ Ending(<<Step(do, arg, second)>>, Step(do, arg, second))
<1> DEFINE x == Step(do, arg, second)
<1>1. x.do = do /\ x \in S
  BY DEF Step
<1> HIDE DEF x
<1>2. <<x>> \in Seq(S) /\ DOMAIN <<x>> = {1} /\ Len(<<x>>) = 1 /\ <<x>>[1] = x /\ <<x>> # <<>>
  BY <1>1
<1>3. Plan(<<x>>, S, {do}, Rank)
  BY <1>1, <1>2 DEF Ahead, InOrder, Plan
<1>4. Ending(<<x>>, x)
  BY <1>2 DEF Ending
<1> QED
  BY <1>3, <1>4 DEF x

(* The steps that fit, of an operation of which no script is told that a     *)
(* removal was called off.                                                   *)
Called(goal, clears, told) ==
    {s \in Fit(goal, clears) : told /\ s.do \in PostinstDoings => s.arg # "abort-remove"}

(* Each script, called as dpkg calls it: postinst,                           *)
LEMMA PostinstPlan ==
    ASSUME TypeOK, NEW v \in Version, NEW goal \in Unpacked, NEW arg \in Restoring,
           NEW second \in BOOLEAN, NEW clears \in BOOLEAN, NEW told,
           arg = "configure" => (second <=> dpkg.configured # None) /\ (second <=> clears),
           arg # "configure" =>
              ~clears /\ (goal = "installed" => skipped \/ dpkg.configured # None),
           arg \in {"abort-upgrade", "abort-deconfigure"} => second,
           told => arg # "abort-remove"
    PROVE  Plan(Postinst(v, arg, second), Called(goal, clears, told), PostinstActs(built[v]), Rank)
<1>1. built[v] \in InitSystem
  BY BuildsAssumption DEF TypeOK
<1>2. \A d \in PostinstActs(built[v]) : Step(d, arg, second) \in Called(goal, clears, told)
  <2>1. \A d \in PostinstDoings : Step(d, arg, second) \in Called(goal, clears, told)
    BY DEF Step, Called, Fit, Steps, Words, Doings, PostinstDoings, PrermDoings, PostrmDoings
  <2> QED
    BY <2>1, ActKinds
<1> QED
  BY <1>1, <1>2, PostinstScript, ScriptPlan DEF Postinst

(* The script that stops the service.                                        *)
LEMMA PrermPlan ==
    ASSUME TypeOK, NEW v \in Version, NEW arg \in {"upgrade", "deconfigure", "remove"},
           NEW goal, NEW clears, NEW told, arg = "remove" <=> goal = "config-files"
    PROVE  Plan(Prerm(v, arg), Called(goal, clears, told), PrermActs(built[v]), Rank)
<1>1. built[v] \in InitSystem
  BY BuildsAssumption DEF TypeOK
<1>2. \A d \in PrermActs(built[v]) : Step(d, arg, FALSE) \in Called(goal, clears, told)
  <2>1. \A d \in PrermDoings : Step(d, arg, FALSE) \in Called(goal, clears, told)
    BY DEF Step, Called, Fit, Steps, Words, Doings, PostinstDoings, PrermDoings, PostrmDoings
  <2> QED
    BY <2>1, ActKinds
<1> QED
  BY <1>1, <1>2, PrermScript, ScriptPlan DEF Prerm

(* The script that cleans up.                                                *)
LEMMA PostrmPlan ==
    ASSUME TypeOK, NEW v \in Version, NEW goal, NEW clears, NEW told,
           NEW arg \in {"upgrade", "remove", "purge", "abort-upgrade", "abort-install"},
           arg = "remove" => goal = "config-files", arg = "purge" => goal = "not-installed",
           goal = "not-installed" => arg = "purge" \/ dpkg.status = "not-installed",
           goal # "half-configured"
    PROVE  Plan(Postrm(v, arg), Called(goal, clears, told), PostrmActs(built[v]), Rank)
<1>1. built[v] \in InitSystem
  BY BuildsAssumption DEF TypeOK
<1>2. \A d \in PostrmActs(built[v]) : Step(d, arg, FALSE) \in Called(goal, clears, told)
  <2>1. arg \in Words
    BY DEF Words, Restoring
  <2>2. \A d \in PostrmDoings : Step(d, arg, FALSE) \in Called(goal, clears, told)
    BY <2>1 DEF Step, Called, Fit, Steps, Doings, PostinstDoings, PrermDoings, PostrmDoings
  <2> QED
    BY <2>2, ActKinds
<1> QED
  BY <1>1, <1>2, PostrmScript, ScriptPlan DEF Postrm

(* Two plans one after the other.                                            *)
LEMMA Followed ==
    ASSUME NEW S, NEW A, NEW B, NEW s, NEW t, NEW n \in Nat,
           A \subseteq Doings, B \subseteq Doings,
           Plan(s, S, A, Rank), Plan(t, S, B, Rank),
           \A d \in A : Rank[d] <= n, \A d \in B : Rank[d] > n
    PROVE  Plan(s \o t, S, A \cup B, Rank)
<1>1. \A d \in Doings : Rank[d] \in Nat
  BY RankValues
<1>2. \A d \in A : \A f \in B : Rank[d] < Rank[f]
  BY <1>1
<1> QED
  BY <1>2, ConcatPlans

(* The steps of an operation with that goal, and what they do.               *)
Planned(steps, goal, clears, told, acts) ==
    /\ Plan(steps, Called(goal, clears, told), acts, Rank)
    /\ \E do \in {"status", "deconfigured"} : Ending(steps, Step(do, goal, clears))

(* What comes before an operation's last steps.                              *)
LEMMA Prefixed ==
    ASSUME NEW goal, NEW clears, NEW told, NEW A, NEW B, NEW s, NEW t, NEW n \in Nat,
           A \subseteq Doings, B \subseteq Doings,
           Plan(s, Called(goal, clears, told), A, Rank), Planned(t, goal, clears, told, B),
           \A d \in A : Rank[d] <= n, \A d \in B : Rank[d] > n
    PROVE  Planned(s \o t, goal, clears, told, A \cup B)
<1> DEFINE S == Called(goal, clears, told)
<1>1. PICK do \in {"status", "deconfigured"} : Ending(t, Step(do, goal, clears))
  BY DEF Planned
<1>2. Plan(s, S, A, Rank) /\ Plan(t, S, B, Rank)
  BY DEF Planned
<1> HIDE DEF S
<1>3. Plan(s \o t, S, A \cup B, Rank)
  BY <1>2, Followed
<1>4. Ending(s \o t, Step(do, goal, clears))
  BY <1>1, <1>2, EndsWith DEF Plan
<1> QED
  BY <1>3, <1>4 DEF Planned, S

(* The last step.                                                            *)
LEMMA LastPlan ==
    ASSUME NEW told
    PROVE  /\ \A g \in Status : Planned(Dpkg("status", g), g, FALSE, told, {"status"})
           /\ \A clears \in BOOLEAN : Planned(<<Step("status", "installed", clears)>>,
                                              "installed", clears, told, {"status"})
           /\ Planned(Dpkg("deconfigured", "half-configured"), "half-configured", FALSE, told,
                      {"deconfigured"})
<1>1. ASSUME NEW g \in Status, NEW clears \in BOOLEAN, clears => g = "installed"
      PROVE  Planned(<<Step("status", g, clears)>>, g, clears, told, {"status"})
  <2>1. Step("status", g, clears) \in Fit(g, clears)
    BY <1>1
       DEF Step, Fit, Steps, Words, Doings, DpkgSteps, PostinstDoings, PrermDoings, PostrmDoings
  <2>2. Step("status", g, clears) \in Called(g, clears, told)
    BY <2>1 DEF Called, Step, PostinstDoings
  <2> QED
    BY <2>2, DpkgPlan DEF Planned
<1>2. Planned(Dpkg("deconfigured", "half-configured"), "half-configured", FALSE, told,
              {"deconfigured"})
  <2>1. Step("deconfigured", "half-configured", FALSE) \in Fit("half-configured", FALSE)
    BY DEF Step, Fit, Steps, Words, Status, Doings, DpkgSteps, PostinstDoings, PrermDoings,
           PostrmDoings
  <2>2. Step("deconfigured", "half-configured", FALSE) \in Called("half-configured", FALSE, told)
    BY <2>1 DEF Called, Step, PostinstDoings
  <2> QED
    BY <2>2, DpkgPlan DEF Planned, Dpkg
<1>3. "installed" \in Status
  BY DEF Status
<1> QED
  BY <1>1, <1>2, <1>3 DEF Dpkg

(* Putting files in place and taking them away.                              *)
LEMMA FilesPlan ==
    ASSUME NEW clears, NEW told
    PROVE  /\ \A v \in Version :
                 Plan(Dpkg("unpack", v), Called("installed", clears, told), {"unpack"}, Rank)
           /\ Plan(Dpkg("delete", "remove"), Called("config-files", clears, told), {"delete"}, Rank)
<1>1. /\ \A v \in Version : Step("unpack", v, FALSE) \in Fit("installed", clears)
      /\ Step("delete", "remove", FALSE) \in Fit("config-files", clears)
  BY DEF Step, Fit, Steps, Words, Doings, DpkgSteps, PostinstDoings, PrermDoings, PostrmDoings
<1>2. /\ \A v \in Version : Step("unpack", v, FALSE) \in Called("installed", clears, told)
      /\ Step("delete", "remove", FALSE) \in Called("config-files", clears, told)
  BY <1>1 DEF Called, Step, PostinstDoings
<1> QED
  BY <1>2, DpkgPlan DEF Dpkg

(* All the scripts of an operation, with their ranks.                        *)
LEMMA ActRanks ==
    ASSUME NEW init
    PROVE  /\ PostinstActs(init) \subseteq Doings /\ PrermActs(init) \subseteq Doings
           /\ PostrmActs(init) \subseteq Doings
           /\ \A d \in PostinstActs(init) : 10 <= Rank[d] /\ Rank[d] <= 16
           /\ \A d \in PrermActs(init) : Rank[d] <= 3
           /\ \A d \in PostrmActs(init) : 6 <= Rank[d] /\ Rank[d] <= 9
           /\ {"unpack", "delete", "status", "deconfigured"} \subseteq Doings
  BY ActKinds, RankBounds DEF Doings, DpkgSteps

(* Configuring, also after something else.                                   *)
LEMMA PlanConfigure ==
    ASSUME TypeOK, NEW v \in Version
    PROVE  Planned(Configure(v), "installed", dpkg.configured # None, TRUE,
                   PostinstActs(built[v]) \cup {"status"})
<1> DEFINE second == dpkg.configured # None
           A == PostinstActs(built[v])
           s == Postinst(v, "configure", second)
           t == <<Step("status", "installed", second)>>
<1>1. Configure(v) = s \o t
  BY DEF Configure
<1> HIDE DEF second
<1>2. second \in BOOLEAN /\ (second <=> dpkg.configured # None)
  BY DEF second
<1>3. Plan(s, Called("installed", second, TRUE), A, Rank)
  BY <1>2, PostinstPlan DEF Restoring, Unpacked
<1>4. Planned(t, "installed", second, TRUE, {"status"})
  BY <1>2, LastPlan
<1>5. /\ A \subseteq Doings /\ {"status"} \subseteq Doings
      /\ \A d \in A : Rank[d] <= 16
      /\ \A d \in {"status"} : Rank[d] > 16
  BY ActRanks, RankValues
<1> HIDE DEF A, s, t
<1>6. Planned(s \o t, "installed", second, TRUE, A \cup {"status"})
  BY <1>3, <1>4, <1>5, Prefixed
<1> QED
  BY <1>1, <1>6 DEF A, second

(* Putting the first version in place.                                       *)
LEMMA PlanInstall ==
    ASSUME TypeOK, NEW v \in Version
    PROVE  Planned(Dpkg("unpack", v) \o Configure(v), "installed", dpkg.configured # None, TRUE,
                   {"unpack"} \cup (PostinstActs(built[v]) \cup {"status"}))
<1> DEFINE B == PostinstActs(built[v]) \cup {"status"}
           clears == dpkg.configured # None
           a == Dpkg("unpack", v)
<1>1. Plan(a, Called("installed", clears, TRUE), {"unpack"}, Rank)
      /\ Planned(Configure(v), "installed", clears, TRUE, B)
  BY FilesPlan, PlanConfigure
<1>2. /\ {"unpack"} \subseteq Doings /\ B \subseteq Doings
      /\ \A d \in {"unpack"} : Rank[d] <= 5
      /\ \A d \in B : Rank[d] > 5
  BY ActRanks, RankValues, RankBounds
<1> HIDE DEF B, clears, a
<1>3. Planned(a \o Configure(v), "installed", clears, TRUE, {"unpack"} \cup B)
  BY <1>1, <1>2, Prefixed
<1> QED
  BY <1>3 DEF B, clears, a

(* Putting another in its place.                                             *)
LEMMA PlanUpgrade ==
    ASSUME TypeOK, NEW u \in Version, NEW v \in Version
    PROVE  Planned(Prerm(u, "upgrade") \o Dpkg("unpack", v) \o Postrm(u, "upgrade") \o Configure(v),
                   "installed", dpkg.configured # None, TRUE,
                   PrermActs(built[u]) \cup {"unpack"} \cup PostrmActs(built[u])
                   \cup (PostinstActs(built[v]) \cup {"status"}))
<1> DEFINE A == PrermActs(built[u])
           B == PostrmActs(built[u])
           C == PostinstActs(built[v]) \cup {"status"}
           clears == dpkg.configured # None
           S == Called("installed", clears, TRUE)
           a == Prerm(u, "upgrade")
           b == Postrm(u, "upgrade")
           c == Dpkg("unpack", v)
<1>1. Plan(a, S, A, Rank)
  BY PrermPlan
<1>2. Plan(b, S, B, Rank)
  BY PostrmPlan
<1>3. Plan(c, S, {"unpack"}, Rank) /\ Planned(Configure(v), "installed", clears, TRUE, C)
  BY FilesPlan, PlanConfigure
<1>4. /\ A \subseteq Doings /\ \A d \in A : Rank[d] <= 3
      /\ {"unpack"} \subseteq Doings /\ \A d \in {"unpack"} : Rank[d] > 3
      /\ A \cup {"unpack"} \subseteq Doings /\ \A d \in A \cup {"unpack"} : Rank[d] <= 5
      /\ B \subseteq Doings /\ \A d \in B : Rank[d] > 5
      /\ A \cup {"unpack"} \cup B \subseteq Doings
      /\ \A d \in A \cup {"unpack"} \cup B : Rank[d] <= 9
      /\ C \subseteq Doings /\ \A d \in C : Rank[d] > 9
  <2>1. /\ A \subseteq Doings /\ \A d \in A : Rank[d] <= 3
        /\ B \subseteq Doings /\ \A d \in B : 6 <= Rank[d] /\ Rank[d] <= 9
        /\ C \subseteq Doings /\ \A d \in C : Rank[d] >= 10
        /\ {"unpack"} \subseteq Doings /\ Rank["unpack"] = 4
    BY ActRanks, RankValues
  <2>2. \A d \in Doings : Rank[d] \in Nat
    BY RankValues
  <2> HIDE DEF A, B, C
  <2> QED
    BY <2>1, <2>2
<1> HIDE DEF A, B, C, S, a, b, c, clears
<1>5. Plan(a \o c, S, A \cup {"unpack"}, Rank)
  BY <1>1, <1>3, <1>4, Followed
<1>6. Plan(a \o c \o b, S, A \cup {"unpack"} \cup B, Rank)
  BY <1>2, <1>5, <1>4, Followed
<1>7. Planned(a \o c \o b \o Configure(v), "installed", clears, TRUE,
              A \cup {"unpack"} \cup B \cup C)
  BY <1>3, <1>6, <1>4, Prefixed DEF S
<1> QED
  BY <1>7 DEF A, B, C, a, b, c, clears

(* Leaving it unconfigured for a while.                                      *)
LEMMA PlanDeconfigure ==
    ASSUME TypeOK, NEW u \in Version
    PROVE  Planned(Prerm(u, "deconfigure") \o Dpkg("deconfigured", "half-configured"),
                   "half-configured", FALSE, TRUE, PrermActs(built[u]) \cup {"deconfigured"})
<1> DEFINE A == PrermActs(built[u])
           a == Prerm(u, "deconfigure")
           b == Dpkg("deconfigured", "half-configured")
<1>1. Plan(a, Called("half-configured", FALSE, TRUE), A, Rank)
  BY PrermPlan
<1>2. Planned(b, "half-configured", FALSE, TRUE, {"deconfigured"})
  BY LastPlan
<1>3. /\ A \subseteq Doings /\ {"deconfigured"} \subseteq Doings
      /\ \A d \in A : Rank[d] <= 3
      /\ \A d \in {"deconfigured"} : Rank[d] > 3
  BY ActRanks, RankValues
<1> HIDE DEF A, a, b
<1>4. Planned(a \o b, "half-configured", FALSE, TRUE, A \cup {"deconfigured"})
  BY <1>1, <1>2, <1>3, Prefixed
<1> QED
  BY <1>4 DEF A, a, b

(* Taking it away.                                                           *)
LEMMA PlanRemove ==
    ASSUME TypeOK, NEW u \in Version
    PROVE  Planned(Prerm(u, "remove") \o Dpkg("delete", "remove")
                   \o Postrm(u, "remove") \o Dpkg("status", "config-files"),
                   "config-files", FALSE, TRUE,
                   PrermActs(built[u]) \cup {"delete"} \cup PostrmActs(built[u]) \cup {"status"})
<1> DEFINE A == PrermActs(built[u])
           B == PostrmActs(built[u])
           S == Called("config-files", FALSE, TRUE)
           a == Prerm(u, "remove")
           b == Postrm(u, "remove")
           c == Dpkg("delete", "remove")
           e == Dpkg("status", "config-files")
<1>1. Plan(a, S, A, Rank)
  BY PrermPlan
<1>2. Plan(b, S, B, Rank)
  BY PostrmPlan
<1>3. Plan(c, S, {"delete"}, Rank) /\ Planned(e, "config-files", FALSE, TRUE, {"status"})
  BY FilesPlan, LastPlan DEF Status
<1>4. /\ A \subseteq Doings /\ \A d \in A : Rank[d] <= 3
      /\ {"delete"} \subseteq Doings /\ \A d \in {"delete"} : Rank[d] > 3
      /\ A \cup {"delete"} \subseteq Doings /\ \A d \in A \cup {"delete"} : Rank[d] <= 5
      /\ B \subseteq Doings /\ \A d \in B : Rank[d] > 5
      /\ A \cup {"delete"} \cup B \subseteq Doings
      /\ \A d \in A \cup {"delete"} \cup B : Rank[d] <= 9
      /\ {"status"} \subseteq Doings /\ \A d \in {"status"} : Rank[d] > 9
  <2>1. /\ A \subseteq Doings /\ \A d \in A : Rank[d] <= 3
        /\ B \subseteq Doings /\ \A d \in B : 6 <= Rank[d] /\ Rank[d] <= 9
        /\ {"delete", "status"} \subseteq Doings /\ Rank["delete"] = 5 /\ Rank["status"] = 17
    BY ActRanks, RankValues
  <2>2. \A d \in Doings : Rank[d] \in Nat
    BY RankValues
  <2> HIDE DEF A, B
  <2> QED
    BY <2>1, <2>2
<1> HIDE DEF A, B, S, a, b, c, e
<1>5. Plan(a \o c, S, A \cup {"delete"}, Rank)
  BY <1>1, <1>3, <1>4, Followed
<1>6. Plan(a \o c \o b, S, A \cup {"delete"} \cup B, Rank)
  BY <1>2, <1>5, <1>4, Followed
<1>7. Planned(a \o c \o b \o e, "config-files", FALSE, TRUE,
              A \cup {"delete"} \cup B \cup {"status"})
  BY <1>3, <1>6, <1>4, Prefixed DEF S
<1> QED
  BY <1>7 DEF A, B, a, b, c, e

(* Purging what is left, and calling off an installation.                    *)
LEMMA PlanPostrm ==
    ASSUME TypeOK, NEW v \in Version, NEW arg \in {"purge", "abort-install"}, NEW goal \in Gone,
           arg = "purge" => goal = "not-installed",
           arg = "abort-install" => goal = dpkg.status
    PROVE  Planned(Postrm(v, arg) \o Dpkg("status", goal), goal, FALSE, TRUE,
                   PostrmActs(built[v]) \cup {"status"})
<1> DEFINE A == PostrmActs(built[v])
           a == Postrm(v, arg)
           b == Dpkg("status", goal)
<1>1. Plan(a, Called(goal, FALSE, TRUE), A, Rank)
  BY PostrmPlan DEF Gone
<1>2. Planned(b, goal, FALSE, TRUE, {"status"})
  BY LastPlan DEF Gone, Status
<1>3. /\ A \subseteq Doings /\ {"status"} \subseteq Doings
      /\ \A d \in A : Rank[d] <= 9
      /\ \A d \in {"status"} : Rank[d] > 9
  BY ActRanks, RankValues
<1> HIDE DEF A, a, b
<1>4. Planned(a \o b, goal, FALSE, TRUE, A \cup {"status"})
  BY <1>1, <1>2, <1>3, Prefixed
<1> QED
  BY <1>4 DEF A, a, b

(* Calling off a removal or a deconfiguration,                               *)
LEMMA PlanRestore ==
    ASSUME TypeOK, NEW u \in Version, NEW arg \in {"abort-remove", "abort-deconfigure"},
           NEW second \in BOOLEAN, arg = "abort-deconfigure" => second, NEW goal \in Unpacked,
           goal = "installed" => skipped \/ dpkg.configured # None
    PROVE  Planned(Postinst(u, arg, second) \o Dpkg("status", goal), goal, FALSE,
                   arg # "abort-remove", PostinstActs(built[u]) \cup {"status"})
<1> DEFINE A == PostinstActs(built[u])
           told == arg # "abort-remove"
           a == Postinst(u, arg, second)
           b == Dpkg("status", goal)
<1>1. Plan(a, Called(goal, FALSE, told), A, Rank)
  BY PostinstPlan DEF Restoring
<1>2. Planned(b, goal, FALSE, told, {"status"})
  BY LastPlan DEF Status, Unpacked
<1>3. /\ A \subseteq Doings /\ {"status"} \subseteq Doings
      /\ \A d \in A : Rank[d] <= 16
      /\ \A d \in {"status"} : Rank[d] > 16
  BY ActRanks, RankValues
<1> HIDE DEF A, told, a, b
<1>4. Planned(a \o b, goal, FALSE, told, A \cup {"status"})
  BY <1>1, <1>2, <1>3, Prefixed
<1> QED
  BY <1>4 DEF A, told, a, b

(* and an upgrade.                                                           *)
LEMMA PlanCallOff ==
    ASSUME TypeOK, NEW u \in Version, NEW v \in Version, skipped \/ dpkg.configured # None
    PROVE  Planned(Postrm(v, "abort-upgrade") \o Postinst(u, "abort-upgrade", TRUE)
                   \o Dpkg("status", "installed"), "installed", FALSE, TRUE,
                   PostrmActs(built[v]) \cup PostinstActs(built[u]) \cup {"status"})
<1> DEFINE A == PostrmActs(built[v])
           B == PostinstActs(built[u])
           S == Called("installed", FALSE, TRUE)
           a == Postrm(v, "abort-upgrade")
           b == Postinst(u, "abort-upgrade", TRUE)
           c == Dpkg("status", "installed")
<1>1. Plan(a, S, A, Rank)
  BY PostrmPlan
<1>2. Plan(b, S, B, Rank)
  BY PostinstPlan DEF Restoring, Unpacked
<1>3. Planned(c, "installed", FALSE, TRUE, {"status"})
  BY LastPlan DEF Status
<1>4. /\ A \subseteq Doings /\ \A d \in A : Rank[d] <= 9
      /\ B \subseteq Doings /\ \A d \in B : Rank[d] > 9
      /\ A \cup B \subseteq Doings /\ \A d \in A \cup B : Rank[d] <= 16
      /\ {"status"} \subseteq Doings /\ \A d \in {"status"} : Rank[d] > 16
  <2>1. /\ A \subseteq Doings /\ \A d \in A : Rank[d] <= 9
        /\ B \subseteq Doings /\ \A d \in B : 10 <= Rank[d] /\ Rank[d] <= 16
        /\ {"status"} \subseteq Doings /\ Rank["status"] = 17
    BY ActRanks, RankValues
  <2>2. \A d \in Doings : Rank[d] \in Nat
    BY RankValues
  <2> HIDE DEF A, B
  <2> QED
    BY <2>1, <2>2
<1> HIDE DEF A, B, S, a, b, c
<1>5. Plan(a \o b, S, A \cup B, Rank)
  BY <1>1, <1>2, <1>4, Followed
<1>6. Planned(a \o b \o c, "installed", FALSE, TRUE, A \cup B \cup {"status"})
  BY <1>3, <1>5, <1>4, Prefixed DEF S
<1> QED
  BY <1>6 DEF A, B, a, b, c

-----------------------------------------------------------------------------
(* The snippets.                                                             *)

(* What a snippet makes of a machine leaves the package's files, and the     *)
(* defaults file, as they were.                                              *)
SameFiles(k, h) ==
    k.os = h.os /\ k.files = h.files /\ k.init = h.init /\ k.defaults = h.defaults

(* Reading the units anew.                                                   *)
LEMMA ReloadChanges ==
    ASSUME NEW h \in Host, NEW k, k = Reload(h)
    PROVE  /\ k \in Host /\ SameBeside(k, h) /\ k.logdir = h.logdir /\ k.running = h.running
           /\ (HasUnit(k) <=> HasUnit(h))
           /\ h.os = "systemd" => k.loaded \in {None, h.files}
           /\ h.os = "systemd" /\ HasUnit(h) => k.loaded = h.files
<1>1. /\ k \in Host /\ SameBeside(k, h) /\ k.logdir = h.logdir /\ k.running = h.running
      /\ h.os = "systemd" => k.loaded \in {None, h.files}
      /\ h.os = "systemd" /\ HasUnit(h) => k.loaded = h.files
  BY Commands DEF Reload, Host, SameBeside
<1> QED
  BY <1>1, SameUnit

(* What `systemctl restart` does, where the unit was read.                   *)
LEMMA RestartUnitChanges ==
    ASSUME NEW h \in Host, h.loaded \in {None, h.files}, NEW k, k = RestartUnit(h)
    PROVE  /\ k \in Host /\ SameBeside(k, h) /\ k.logdir = h.logdir
           /\ k.loaded \in {None, h.files}
           /\ h.mask = "none" /\ HasUnit(h) => k.running \in {None, h.files}
           /\ ~(h.mask = "none" /\ HasUnit(h)) => k.running = h.running
           /\ h.mask = "none" /\ Equipped(h) => k.running # None
<1>1. CASE h.mask = "none" /\ HasUnit(h)
  <2> DEFINE g == Stop(h)
  <2>1. g \in Host /\ SameBeside(g, h) /\ g.logdir = h.logdir /\ g.loaded = h.loaded
        /\ g.running = None
    BY DEF Stop, Host, SameBeside
  <2>2. k = StartUnit(g)
    BY <1>1 DEF RestartUnit
  <2> HIDE DEF g
  <2>3. (HasUnit(g) <=> HasUnit(h)) /\ (Equipped(g) <=> Equipped(h))
    BY <2>1, SameUnit DEF Equipped, SameBeside
  <2>4. /\ k \in Host /\ SameBeside(k, g) /\ k.logdir = g.logdir
        /\ k.loaded # g.loaded => g.loaded = None /\ k.loaded = g.files
        /\ g.mask = "none" /\ Equipped(g) => k.running # None
    BY <2>1, <2>2, StartUnitChanges
  <2>5. k.running \in {None, g.files}
    <3>1. g.loaded \in {None, g.files} /\ g.running = None
      BY <2>1 DEF SameBeside
    <3> QED
      BY <2>1, <2>2, <3>1 DEF StartUnit, Host
  <2> QED
    BY <1>1, <2>1, <2>3, <2>4, <2>5 DEF SameBeside
<1>2. CASE ~(h.mask = "none" /\ HasUnit(h))
  BY <1>2 DEF RestartUnit, SameBeside, Equipped
<1> QED
  BY <1>1, <1>2

(* What `systemctl start` does there.                                        *)
LEMMA StartUnitReads ==
    ASSUME NEW h \in Host, h.loaded \in {None, h.files}, NEW k, k = StartUnit(h)
    PROVE  /\ k \in Host /\ SameBeside(k, h) /\ k.logdir = h.logdir
           /\ k.loaded \in {None, h.files}
           /\ k.running \in {h.running, h.files}
           /\ k.running # h.running => h.running = None /\ h.mask = "none" /\ HasUnit(h)
           /\ h.mask = "none" /\ Equipped(h) => k.running # None
<1>1. /\ k \in Host /\ SameBeside(k, h) /\ k.logdir = h.logdir
      /\ k.loaded # h.loaded => h.loaded = None /\ k.loaded = h.files
      /\ k.running # h.running => h.running = None /\ h.mask = "none" /\ HasUnit(h)
      /\ h.running = None /\ h.mask = "none" /\ Equipped(h) => k.running # None
  BY StartUnitChanges
<1>2. k.running \in {h.running, h.files}
  BY DEF StartUnit, Host
<1> QED
  BY <1>1, <1>2

(* postinst's part for systemd once the unit is enabled: what is enabled or  *)
(* runs is started, or restarted if the package was configured before.       *)
LEMMA RestartSnippet ==
    ASSUME NEW h \in Host, NEW r, NEW arg, NEW second \in BOOLEAN,
           NEW s, s = PostinstSystemdRestart(State(h, r), arg, second), NEW k, k = s.host
    PROVE  /\ s.recorded = r
           /\ k \in Host /\ SameBeside(k, h) /\ k.logdir = h.logdir
           /\ ~(h.os = "systemd" /\ arg \in Restoring) => k = h
           /\ k.running # None /\ h.running = None =>
                 h.os = "systemd" /\ HasUnit(h) /\ h.mask = "none" /\ h.enabled
           /\ h.os = "systemd" /\ arg \in Restoring =>
                 /\ k.loaded \in {None, h.files}
                 /\ MaskedIsDown(h) /\ HasUnit(h) /\ (second \/ h.running \in {None, h.files})
                       => k.running \in {None, h.files}
                 /\ h.enabled /\ h.mask = "none" /\ Equipped(h) => k.running # None
<1>1. CASE ~(h.os = "systemd" /\ arg \in Restoring)
  <2>1. s = State(h, r)
    BY <1>1 DEF PostinstSystemdRestart, State
  <2> QED
    BY <1>1, <2>1 DEF State, SameBeside
<1>2. CASE h.os = "systemd" /\ arg \in Restoring
  <2> DEFINE l == Reload(h)
  <2>1. /\ l \in Host /\ SameBeside(l, h) /\ l.logdir = h.logdir /\ l.running = h.running
        /\ (HasUnit(l) <=> HasUnit(h)) /\ l.loaded \in {None, h.files}
    BY <1>2, ReloadChanges
  <2>2. s = State(IF second THEN Invoke(l, RestartUnit(l)) ELSE Invoke(l, StartUnit(l)), r)
    BY <1>2 DEF PostinstSystemdRestart, State
  <2>3. s.recorded = r /\ k = IF second THEN Invoke(l, RestartUnit(l)) ELSE Invoke(l, StartUnit(l))
    BY <2>2 DEF State
  <2> HIDE DEF l
  <2>4. /\ l.loaded \in {None, l.files} /\ l.files = h.files /\ l.enabled = h.enabled
        /\ l.mask = h.mask /\ (Equipped(l) <=> Equipped(h)) /\ (MaskedIsDown(h) <=> MaskedIsDown(l))
    BY <2>1 DEF SameBeside, Equipped, MaskedIsDown
  <2>5. CASE ~(l.enabled \/ l.running # None)
    <3>1. k = l
      BY <2>3, <2>5 DEF Invoke
    <3> QED
      BY <1>2, <2>1, <2>3, <2>4, <2>5, <3>1
  <2>6. CASE (l.enabled \/ l.running # None) /\ second
    <3>1. k = RestartUnit(l)
      BY <2>3, <2>6 DEF Invoke
    <3>2. /\ k \in Host /\ SameBeside(k, l) /\ k.logdir = l.logdir
          /\ k.loaded \in {None, l.files}
          /\ l.mask = "none" /\ HasUnit(l) => k.running \in {None, l.files}
          /\ ~(l.mask = "none" /\ HasUnit(l)) => k.running = l.running
          /\ l.mask = "none" /\ Equipped(l) => k.running # None
      BY <2>1, <2>4, <3>1, RestartUnitChanges
    <3>3. SameBeside(k, h)
      BY <2>1, <3>2 DEF SameBeside
    <3>4. MaskedIsDown(l) /\ HasUnit(l) => k.running \in {None, l.files}
      BY <3>2 DEF MaskedIsDown
    <3> QED
      BY <1>2, <2>1, <2>3, <2>4, <2>6, <3>2, <3>3, <3>4
  <2>7. CASE (l.enabled \/ l.running # None) /\ ~second
    <3>1. k = StartUnit(l)
      BY <2>3, <2>7 DEF Invoke
    <3>2. /\ k \in Host /\ SameBeside(k, l) /\ k.logdir = l.logdir
          /\ k.loaded \in {None, l.files}
          /\ k.running \in {l.running, l.files}
          /\ k.running # l.running => l.running = None /\ l.mask = "none" /\ HasUnit(l)
          /\ l.mask = "none" /\ Equipped(l) => k.running # None
      BY <2>1, <2>4, <3>1, StartUnitReads
    <3>3. SameBeside(k, h)
      BY <2>1, <3>2 DEF SameBeside
    <3>4. k.running # None /\ h.running = None => HasUnit(h) /\ h.mask = "none" /\ h.enabled
      BY <2>1, <2>4, <2>7, <3>2
    <3>5. h.running \in {None, h.files} => k.running \in {None, h.files}
      BY <2>1, <2>4, <3>2
    <3>6. k \in Host /\ k.logdir = h.logdir /\ k.loaded \in {None, h.files}
          /\ (h.enabled /\ h.mask = "none" /\ Equipped(h) => k.running # None)
      BY <2>1, <2>4, <3>2
    <3> QED
      BY <1>2, <2>3, <2>7, <3>3, <3>4, <3>5, <3>6
  <2> QED
    BY <2>5, <2>6, <2>7
<1> QED
  BY <1>1, <1>2

(* What the System V script does.                                            *)
LEMMA StartScriptChanges ==
    ASSUME NEW h \in Host, NEW k, k = StartScript(h)
    PROVE  /\ SameFiles(k, h) /\ k.account = h.account /\ k.rc = h.rc /\ k.mask = h.mask
           /\ k.enabled = h.enabled
           /\ h.logdir => k.logdir
           /\ k.logdir => h.logdir \/ h.account
           /\ h.running = None /\ k.running # None => h.rc = "on" /\ Ships(h, "sysv-init")
<1>1. CASE h.rc = "on" /\ h.running = None /\ Ships(h, "sysv-init") /\ h.account
  <2>1. k = [h EXCEPT !.running = h.files, !.logdir = TRUE]
    BY <1>1 DEF StartScript
  <2>2. SameFiles(k, h) /\ k.account = h.account /\ k.rc = h.rc /\ k.mask = h.mask
        /\ k.enabled = h.enabled /\ k.logdir = TRUE
    BY <2>1 DEF Host, SameFiles
  <2> QED
    BY <1>1, <2>2
<1>2. CASE ~(h.rc = "on" /\ h.running = None /\ Ships(h, "sysv-init") /\ h.account)
  <2>1. k = h
    BY <1>2 DEF StartScript
  <2> QED
    BY <2>1 DEF SameFiles
<1> QED
  BY <1>1, <1>2

(* What a snippet d, called with that argument, leaves as it was, for any    *)
(* build and any init system.                                                *)
Keeps(d, a, second, h, r) ==
    /\ d \in PrermDoings \cup PostrmDoings \cup PostinstDoings
    /\ h \in Host /\ r \in BOOLEAN /\ SameFiles(h, host)
    /\ h.account <=> IF d = "postrm-purge" /\ a = "purge" THEN FALSE
                     ELSE host.account \/ (d = "postinst-account" /\ a = "configure")
    /\ d = "postrm-purge" /\ a = "purge" => ~h.logdir
    /\ ~(d = "postrm-purge" /\ a = "purge") /\ host.logdir => h.logdir
    /\ d = "postinst-logdir" /\ a \in Restoring /\ host.account => h.logdir
    /\ h.logdir => host.logdir \/ host.account
    /\ h.rc = IF d = "postrm-sysv" /\ a = "purge" THEN "none"
              ELSE IF d = "postinst-sysv" /\ a = "configure" /\ host.os # "systemd"
                      /\ host.rc = "none"
                   THEN "on" ELSE host.rc
    /\ h.mask = "admin" <=> host.mask = "admin"
    /\ h.mask = "own" /\ host.mask # "own" => d = "postrm-systemd" /\ a = "remove"
    /\ d = "postinst-systemd-enable" /\ a \in Restoring => h.mask # "own"
    /\ d = "postrm-systemd" /\ a = "purge" => h.mask # "own" /\ ~h.enabled /\ ~r
    /\ h.enabled /\ ~host.enabled =>
          d = "postinst-systemd-enable" /\ HasUnit(host) /\ ~recorded
    /\ r /\ ~recorded => d = "postinst-systemd-enable" /\ HasUnit(host)
    /\ recorded /\ ~r => d = "postrm-systemd" /\ a = "purge"
    /\ Stops(d) /\ a = "remove" => h.running = None
    /\ host.running = None /\ h.running # None =>
          \/ /\ d = "postinst-systemd-restart" /\ host.os = "systemd" /\ HasUnit(host)
             /\ host.mask = "none" /\ host.enabled
          \/ /\ d = "postinst-sysv" /\ host.os # "systemd" /\ h.rc = "on"
             /\ Ships(host, "sysv-init")
          \/ d = "postinst-upstart" /\ host.os = "upstart" /\ Ships(host, "upstart.conf")
    /\ host.os = "systemd" =>
          /\ d = "postrm-systemd-reload" => h.loaded \in {None, host.files}
          /\ d = "postinst-systemd-restart" /\ a \in Restoring =>
                /\ h.loaded \in {None, host.files}
                /\ MaskedIsDown(host) /\ HasUnit(host)
                   /\ (second \/ host.running \in {None, host.files})
                      => h.running \in {None, host.files}
                /\ host.enabled /\ host.mask = "none" /\ Equipped(host) => h.running # None
          /\ d \notin {"postrm-systemd-reload", "postinst-systemd-restart"}
                => h.loaded = host.loaded
          /\ d # "postinst-systemd-restart" /\ ~(d = "prerm-systemd-restart" /\ a = "remove")
                => h.running = host.running

(* Whatever the snippet, it keeps to that.                                   *)
LEMMA SnippetKeeps ==
    ASSUME host \in Host, recorded \in BOOLEAN, NEW t \in Steps, t.do \notin DpkgSteps,
           NEW d, d = t.do, NEW a, a = t.arg,
           NEW s, s = After(t, State(host, recorded)), NEW h, h = s.host, NEW r, r = s.recorded
    PROVE  Keeps(d, a, t.second, h, r)
<1> DEFINE z == State(host, recorded)
<1>1. d \in PrermDoings \cup PostrmDoings \cup PostinstDoings
  BY DEF Steps, Doings
<1>2. z.host = host /\ z.recorded = recorded
  BY DEF State
<1> HIDE DEF z
<1>3. s = After(t, z)
  BY DEF z
<1> USE DEF State, SameFiles, Stops, Keeps
<1>4. CASE d = "postinst-npm-install"
  <2>1. h = host /\ r = recorded
    BY <1>2, <1>3, <1>4 DEF After
  <2> QED
    BY <1>1, <1>4, <2>1
<1>5. CASE d = "postinst-account"
  <2>1. h = (IF a = "configure" THEN MakeAccount(host) ELSE host) /\ r = recorded
    BY <1>2, <1>3, <1>5 DEF After, PostinstAccount
  <2>2. /\ h \in Host /\ SameFiles(h, host) /\ h.logdir = host.logdir /\ h.rc = host.rc
        /\ h.enabled = host.enabled /\ h.running = host.running /\ h.loaded = host.loaded
        /\ h.mask = host.mask /\ (h.account <=> host.account \/ a = "configure")
    <3>1. CASE a = "configure"
      <4>1. h = [host EXCEPT !.account = TRUE]
        BY <2>1, <3>1 DEF MakeAccount
      <4> QED
        BY <3>1, <4>1 DEF Host
    <3>2. CASE a # "configure"
      BY <2>1, <3>2 DEF Host
    <3> QED
      BY <3>1, <3>2
  <2> QED
    BY <1>1, <1>5, <2>1, <2>2
<1>6. CASE d = "postinst-logdir"
  <2>1. h = (IF a \in Restoring THEN MakeLogdir(host) ELSE host) /\ r = recorded
    BY <1>2, <1>3, <1>6 DEF After, PostinstLogdir
  <2>2. /\ h \in Host /\ SameFiles(h, host) /\ h.account = host.account /\ h.rc = host.rc
        /\ h.enabled = host.enabled /\ h.running = host.running /\ h.loaded = host.loaded
        /\ h.mask = host.mask /\ (host.logdir => h.logdir)
        /\ (h.logdir => host.logdir \/ host.account)
        /\ (a \in Restoring /\ host.account => h.logdir)
    BY <2>1 DEF MakeLogdir, Host
  <2> QED
    BY <1>1, <1>6, <2>1, <2>2
<1>7. CASE d = "postinst-systemd-enable"
  <2> DEFINE l == Lift(host)
             w == ~recorded \/ l.enabled
  <2>1. /\ a \notin Restoring => h = host /\ r = recorded
        /\ a \in Restoring /\ HasUnit(l) => h = [l EXCEPT !.enabled = w] /\ r = TRUE
        /\ a \in Restoring /\ ~HasUnit(l) => h = l /\ r = recorded
    <3>1. s = PostinstSystemdEnable(z, a)
      BY <1>3, <1>7 DEF After
    <3>2. a \notin Restoring => s = z
      BY <3>1 DEF PostinstSystemdEnable
    <3>3. a \in Restoring /\ HasUnit(l) => s = State([l EXCEPT !.enabled = w], TRUE)
      BY <1>2, <3>1 DEF PostinstSystemdEnable
    <3>4. a \in Restoring /\ ~HasUnit(l) => s = State(l, recorded)
      BY <1>2, <3>1 DEF PostinstSystemdEnable
    <3> HIDE DEF l, w
    <3> QED
      BY <1>2, <3>2, <3>3, <3>4
  <2>2. /\ l \in Host /\ SameFiles(l, host) /\ l.account = host.account /\ l.logdir = host.logdir
        /\ l.rc = host.rc /\ l.enabled = host.enabled /\ l.running = host.running
        /\ l.loaded = host.loaded /\ l.mask # "own"
        /\ l.mask = "admin" <=> host.mask = "admin"
    BY DEF Lift, Host
  <2>3. HasUnit(l) <=> HasUnit(host)
    BY <2>2 DEF HasUnit, Ships
  <2>4. w \in BOOLEAN /\ (w <=> ~recorded \/ host.enabled)
    BY <2>2
  <2> HIDE DEF l, w
  <2>5. CASE a \notin Restoring
    <3>1. h = host /\ r = recorded
      BY <2>1, <2>5
    <3> QED
      BY <1>1, <1>7, <2>5, <3>1
  <2>6. CASE a \in Restoring /\ HasUnit(l)
    <3>1. h = [l EXCEPT !.enabled = w] /\ r = TRUE
      BY <2>1, <2>6
    <3>2. /\ h \in Host /\ SameFiles(h, l) /\ h.account = l.account /\ h.logdir = l.logdir
          /\ h.rc = l.rc /\ (h.enabled <=> w) /\ h.running = l.running
          /\ h.loaded = l.loaded /\ h.mask = l.mask
      BY <2>2, <2>4, <3>1 DEF Host
    <3> QED
      BY <1>1, <1>7, <2>2, <2>3, <2>4, <2>6, <3>1, <3>2
  <2>7. CASE a \in Restoring /\ ~HasUnit(l)
    <3>1. h = l /\ r = recorded
      BY <2>1, <2>7
    <3> QED
      BY <1>1, <1>7, <2>2, <2>7, <3>1
  <2> QED
    BY <2>5, <2>6, <2>7
<1>8. CASE d = "postinst-systemd-restart"
  <2>1. s = PostinstSystemdRestart(State(host, recorded), a, t.second) /\ t.second \in BOOLEAN
    BY <1>3, <1>8 DEF After, z, Steps
  <2>2. /\ r = recorded
        /\ h \in Host /\ SameBeside(h, host) /\ h.logdir = host.logdir
        /\ h.running # None /\ host.running = None =>
              host.os = "systemd" /\ HasUnit(host) /\ host.mask = "none" /\ host.enabled
        /\ host.os = "systemd" /\ a \in Restoring =>
              /\ h.loaded \in {None, host.files}
              /\ MaskedIsDown(host) /\ HasUnit(host)
                 /\ (t.second \/ host.running \in {None, host.files})
                    => h.running \in {None, host.files}
              /\ host.enabled /\ host.mask = "none" /\ Equipped(host) => h.running # None
    BY <2>1, RestartSnippet
  <2> QED
    BY <1>1, <1>8, <2>2 DEF SameBeside
<1>9. CASE d = "postinst-sysv"
  <2> DEFINE g == [host EXCEPT !.rc = IF @ = "none" THEN "on" ELSE @]
  <2>1. r = recorded
        /\ h = (IF a # "configure" \/ host.os = "systemd" THEN host ELSE StartScript(g))
    BY <1>2, <1>3, <1>9 DEF After, PostinstSysv
  <2>2. /\ g \in Host /\ SameFiles(g, host) /\ g.account = host.account /\ g.logdir = host.logdir
        /\ g.rc = (IF host.rc = "none" THEN "on" ELSE host.rc)
        /\ g.mask = host.mask /\ g.enabled = host.enabled /\ g.running = host.running
        /\ g.loaded = host.loaded
    <3>1. (IF host.rc = "none" THEN "on" ELSE host.rc) \in {"none", "on", "off"}
      BY DEF Host
    <3> QED
      BY <3>1 DEF Host
  <2>3. Ships(g, "sysv-init") <=> Ships(host, "sysv-init")
    BY <2>2 DEF Ships
  <2> HIDE DEF g
  <2>4. CASE a # "configure" \/ host.os = "systemd"
    <3>1. h = host
      BY <2>1, <2>4
    <3> QED
      BY <1>1, <1>9, <2>1, <2>4, <3>1
  <2>5. CASE a = "configure" /\ host.os # "systemd"
    <3>1. h = StartScript(g) /\ h \in Host
      BY <2>1, <2>2, <2>5, Commands
    <3>2. /\ SameFiles(h, g) /\ h.account = g.account /\ h.rc = g.rc /\ h.mask = g.mask
          /\ h.enabled = g.enabled
          /\ g.logdir => h.logdir
          /\ h.logdir => g.logdir \/ g.account
          /\ g.running = None /\ h.running # None => g.rc = "on" /\ Ships(g, "sysv-init")
      BY <2>2, <3>1, StartScriptChanges
    <3> QED
      BY <1>1, <1>9, <2>1, <2>2, <2>3, <2>5, <3>1, <3>2
  <2> QED
    BY <2>4, <2>5
<1>10. CASE d = "postinst-upstart"
  <2>1. r = recorded
        /\ h = (IF a # "configure" \/ host.os # "upstart" THEN host ELSE StartJob(host))
    BY <1>2, <1>3, <1>10 DEF After, PostinstUpstart
  <2>2. /\ h \in Host /\ SameFiles(h, host) /\ h.logdir = host.logdir /\ h.rc = host.rc
        /\ h.account = host.account
        /\ h.enabled = host.enabled /\ h.loaded = host.loaded /\ h.mask = host.mask
        /\ (host.os # "upstart" => h.running = host.running)
        /\ (host.running = None /\ h.running # None =>
               host.os = "upstart" /\ Ships(host, "upstart.conf"))
    BY <2>1, Commands DEF StartJob, Host
  <2> QED
    BY <1>1, <1>10, <2>1, <2>2
<1>11. CASE d \in PrermDoings
  <2>1. r = recorded /\ h \in {host, Stop(host)}
        /\ (Stops(d) /\ a = "remove" => h = Stop(host))
        /\ (h = host \/ d # "prerm-systemd-restart" \/ a = "remove")
        /\ (host.os = "systemd" /\ d # "prerm-systemd-restart" => h = host)
    <3>1. s \in {z, State(Stop(host), recorded)}
          /\ (Stops(d) /\ a = "remove" => s = State(Stop(host), recorded))
          /\ (s = z \/ d # "prerm-systemd-restart" \/ a = "remove")
          /\ (host.os = "systemd" /\ d # "prerm-systemd-restart" => s = z)
      <4>1. CASE d = "prerm-systemd-restart"
        BY <1>2, <1>3, <4>1 DEF After, PrermSystemdRestart
      <4>2. CASE d = "prerm-sysv"
        BY <1>2, <1>3, <4>2 DEF After, PrermSysv
      <4>3. CASE d = "prerm-upstart"
        BY <1>2, <1>3, <4>3 DEF After, PrermUpstart
      <4> QED
        BY <1>11, <4>1, <4>2, <4>3 DEF PrermDoings
    <3> QED
      BY <1>2, <3>1
  <2>2. /\ h \in Host /\ SameFiles(h, host) /\ h.logdir = host.logdir /\ h.rc = host.rc
        /\ h.account = host.account
        /\ h.enabled = host.enabled /\ h.loaded = host.loaded /\ h.mask = host.mask
        /\ h.running \in {None, host.running}
        /\ (Stops(d) /\ a = "remove" => h.running = None)
    BY <2>1, Commands DEF Stop, Host
  <2>3. host.os = "systemd" /\ ~(d = "prerm-systemd-restart" /\ a = "remove")
           => h.running = host.running
    BY <2>1
  <2> QED
    BY <1>1, <1>11, <2>1, <2>2, <2>3 DEF PrermDoings
<1>12. CASE d = "postrm-systemd"
  <2> DEFINE m == IF host.mask = "none" THEN "own" ELSE host.mask
             g == [host EXCEPT !.enabled = FALSE]
  <2>1. /\ a = "remove" => h = [host EXCEPT !.mask = m] /\ r = recorded
        /\ a = "purge" => h = Lift(g) /\ r = FALSE
        /\ a \notin {"remove", "purge"} => h = host /\ r = recorded
    <3>1. s = PostrmSystemd(z, a)
      BY <1>3, <1>12 DEF After
    <3>2. /\ a = "remove" => s = State([host EXCEPT !.mask = m], recorded)
          /\ a = "purge" => s = State(Lift(g), FALSE)
          /\ a \notin {"remove", "purge"} => s = z
      BY <1>2, <3>1 DEF PostrmSystemd
    <3> HIDE DEF m, g
    <3> QED
      BY <1>2, <3>2
  <2>2. m \in {"own", "admin"} /\ (m = "admin" <=> host.mask = "admin")
    BY DEF Host
  <2> HIDE DEF m
  <2>3. CASE a = "remove"
    <3>1. /\ h \in Host /\ SameFiles(h, host) /\ h.logdir = host.logdir /\ h.rc = host.rc
          /\ h.account = host.account /\ h.running = host.running
          /\ h.enabled = host.enabled /\ h.loaded = host.loaded
          /\ (h.mask = "admin" <=> host.mask = "admin")
      BY <2>1, <2>2, <2>3 DEF Host
    <3> QED
      BY <1>1, <1>12, <2>1, <2>3, <3>1
  <2>4. CASE a = "purge"
    <3>1. g \in Host
      BY DEF Host
    <3>2. /\ h \in Host /\ SameFiles(h, host) /\ h.logdir = host.logdir /\ h.rc = host.rc
          /\ h.account = host.account /\ h.running = host.running
          /\ ~h.enabled /\ h.loaded = host.loaded /\ h.mask # "own"
          /\ (h.mask = "admin" <=> host.mask = "admin")
      <4>1. /\ g.logdir = host.logdir /\ g.rc = host.rc /\ g.account = host.account
            /\ g.running = host.running /\ ~g.enabled /\ g.loaded = host.loaded
            /\ g.mask = host.mask /\ SameFiles(g, host)
        BY DEF Host
      <4>2. h = [g EXCEPT !.mask = IF @ = "own" THEN "none" ELSE @]
        BY <2>1, <2>4 DEF Lift
      <4> HIDE DEF g
      <4>3. (IF g.mask = "own" THEN "none" ELSE g.mask) \in {"none", "admin"}
        BY <3>1 DEF Host
      <4> QED
        BY <3>1, <4>1, <4>2, <4>3 DEF Host
    <3> QED
      BY <1>1, <1>12, <2>1, <2>4, <3>2
  <2>5. CASE a \notin {"remove", "purge"}
    BY <1>1, <1>12, <2>1, <2>5
  <2> QED
    BY <2>3, <2>4, <2>5
<1>13. CASE d = "postrm-sysv"
  <2>1. r = recorded /\ h = IF a = "purge" THEN [host EXCEPT !.rc = "none"] ELSE host
    BY <1>2, <1>3, <1>13 DEF After, PostrmSysv
  <2>2. /\ h \in Host /\ SameFiles(h, host) /\ h.logdir = host.logdir
        /\ h.account = host.account /\ h.running = host.running
        /\ h.enabled = host.enabled /\ h.loaded = host.loaded /\ h.mask = host.mask
        /\ h.rc = IF a = "purge" THEN "none" ELSE host.rc
    BY <2>1 DEF Host
  <2> QED
    BY <1>1, <1>13, <2>1, <2>2
<1>14. CASE d = "postrm-purge"
  <2>1. r = recorded
        /\ h = IF a = "purge" THEN [host EXCEPT !.logdir = FALSE, !.account = FALSE] ELSE host
    BY <1>2, <1>3, <1>14 DEF After, PostrmPurge
  <2>2. /\ h \in Host /\ SameFiles(h, host) /\ h.rc = host.rc /\ h.running = host.running
        /\ h.enabled = host.enabled /\ h.loaded = host.loaded /\ h.mask = host.mask
        /\ a = "purge" => ~h.logdir /\ ~h.account
        /\ a # "purge" => h.logdir = host.logdir /\ h.account = host.account
    <3>1. CASE a = "purge"
      <4>1. h = [host EXCEPT !.logdir = FALSE, !.account = FALSE]
        BY <2>1, <3>1
      <4> QED
        BY <3>1, <4>1 DEF Host
    <3>2. CASE a # "purge"
      BY <2>1, <3>2
    <3> QED
      BY <3>1, <3>2
  <2> QED
    BY <1>1, <1>14, <2>1, <2>2
<1>15. CASE d = "postrm-systemd-reload"
  <2>1. r = recorded /\ h = Reload(host)
    BY <1>2, <1>3, <1>15 DEF After, PostrmSystemdReload
  <2> QED
    BY <1>1, <1>15, <2>1, ReloadChanges DEF SameBeside
<1> QED
  BY <1>1, <1>4, <1>5, <1>6, <1>7, <1>8, <1>9, <1>10, <1>11, <1>12, <1>13, <1>14, <1>15
     DEF PostinstDoings, PostrmDoings

-----------------------------------------------------------------------------
(* The steps of an operation, one after the other.                           *)

(* The step that is taken is the first of those ahead, and fits the goal;    *)
(* only the last one writes the record.                                      *)
LEMMA Taken ==
    ASSUME Shape, todo # <<>>, todo' = Tail(todo), NEW t, t = Head(todo)
    PROVE  /\ t \in Steps /\ t \in Fit(Goal, Clearing) /\ t.do \in Ahead(todo)
           /\ 1 \in DOMAIN todo /\ t = todo[1]
           /\ Ahead(todo) \subseteq Doings
           /\ Ahead(todo') = Ahead(todo) \ {t.do}
           /\ \A d \in Ahead(todo') : Rank[t.do] < Rank[d]
           /\ todo' \in Seq(Steps) /\ InOrder(todo', Rank)
           /\ \A i \in DOMAIN todo' : todo'[i] \in Fit(Goal, Clearing)
           /\ Told => Told'
           /\ IF t.do \in {"status", "deconfigured"}
              THEN todo' = <<>> /\ Goal = t.arg /\ (Clearing <=> t.second)
              ELSE todo' # <<>> /\ todo'[Len(todo')] = todo[Len(todo)]
<1> DEFINE n == Len(todo)
<1>1. /\ todo \in Seq(Steps) /\ InOrder(todo, Rank) /\ Rank \in [Doings -> Nat]
      /\ todo[n].do \in {"status", "deconfigured"} /\ Goal = todo[n].arg
      /\ Clearing <=> todo[n].second
      /\ \A i \in DOMAIN todo : todo[i] \in Fit(Goal, Clearing)
  BY RankValues DEF Shape, Goal, Clearing
<1>2. n \in Nat /\ n > 0 /\ DOMAIN todo = 1..n
  BY <1>1
<1>3. Ahead(todo) \subseteq Doings
  <2>1. \A i \in DOMAIN todo : todo[i] \in Steps
    BY <1>1
  <2>2. \A x \in Steps : x.do \in Doings
    BY DEF Steps
  <2> QED
    BY <2>1, <2>2 DEF Ahead
<1>4. /\ todo' \in Seq(Steps) /\ t \in Steps /\ t = todo[1]
      /\ DOMAIN todo' = 1..(n - 1)
      /\ \A i \in DOMAIN todo' : i + 1 \in DOMAIN todo /\ todo'[i] = todo[i + 1]
      /\ t.do \in Ahead(todo)
      /\ Ahead(todo') = Ahead(todo) \ {t.do}
      /\ \A d \in Ahead(todo') : Rank[t.do] < Rank[d]
      /\ InOrder(todo', Rank)
  BY <1>1, <1>3, TailAhead
<1>5. Len(todo') = n - 1
  BY <1>2, <1>4
<1> HIDE DEF n
<1>6. /\ t \in Fit(Goal, Clearing) /\ 1 \in DOMAIN todo
      /\ \A i \in DOMAIN todo' : todo'[i] \in Fit(Goal, Clearing)
  BY <1>1, <1>2, <1>4
<1>7. Told => Told'
  BY <1>4 DEF Told
<1>8. CASE n = 1
  <2>1. todo' = <<>>
    BY <1>4, <1>5, <1>8
  <2>2. t = todo[n]
    BY <1>4, <1>8
  <2> QED
    BY <1>1, <1>3, <1>4, <1>6, <1>7, <2>1, <2>2
<1>9. CASE n # 1
  <2>1. todo' # <<>> /\ n - 1 \in DOMAIN todo' /\ todo'[n - 1] = todo[n]
    <3>1. n - 1 \in 1..(n - 1) /\ (n - 1) + 1 = n
      BY <1>2, <1>9
    <3>2. n - 1 \in DOMAIN todo' /\ todo'[n - 1] = todo[(n - 1) + 1]
      BY <1>4, <3>1
    <3>3. todo' # <<>>
      BY <3>2
    <3> QED
      BY <3>1, <3>2, <3>3
  <2>2. todo[n].do \in Ahead(todo')
    BY <1>4, <2>1 DEF Ahead
  <2>3. Rank[t.do] < 17
    <3>1. Rank[todo[n].do] = 17
      BY <1>1, RankValues
    <3> QED
      BY <1>4, <2>2, <3>1
  <2>4. t.do \notin {"status", "deconfigured"}
    BY <2>3, RankValues
  <2> QED
    BY <1>3, <1>4, <1>5, <1>6, <1>7, <2>1, <2>4 DEF n
<1> QED
  BY <1>8, <1>9

(* What fits an operation depends only on what the record says so far, and   *)
(* still fits when a version is skipped.                                     *)
LEMMA StillFits ==
    ASSUME dpkg'.status = dpkg.status, dpkg'.configured = dpkg.configured, skipped => skipped'
    PROVE  \A goal, clears : Fit(goal, clears) \subseteq Fit(goal, clears)'
<1>1. ASSUME NEW goal, NEW clears, NEW s, s \in Fit(goal, clears) PROVE s \in Fit(goal, clears)'
  BY <1>1 DEF Fit, Steps, Doings, Words
<1> QED
  BY <1>1

(* Between the first step and the last one, the shape and the goal stay.     *)
LEMMA TakenShape ==
    ASSUME Shape, todo # <<>>, todo' = Tail(todo), Head(todo).do \notin {"status", "deconfigured"},
           dpkg'.status = dpkg.status, dpkg'.configured = dpkg.configured, skipped' = skipped
    PROVE  Shape' /\ Goal' = Goal /\ Clearing' = Clearing
<1>1. /\ Ahead(todo') \subseteq Ahead(todo)
      /\ todo' \in Seq(Steps) /\ InOrder(todo', Rank)
      /\ \A i \in DOMAIN todo' : todo'[i] \in Fit(Goal, Clearing)
      /\ todo' # <<>> /\ todo'[Len(todo')] = todo[Len(todo)]
  BY Taken
<1>2. Goal' = Goal /\ Clearing' = Clearing
  BY <1>1 DEF Goal, Clearing
<1>3. \A i \in DOMAIN todo' : todo'[i] \in Fit(Goal, Clearing)'
  BY <1>1, <1>2, StillFits
<1>4. Rank' = Rank /\ Steps' = Steps
  BY DEF Rank, Steps, Doings, Words
<1> QED
  BY <1>1, <1>2, <1>3, <1>4 DEF Shape, Still

(* Which operation a step still to be taken belongs to.                      *)
LEMMA Aims ==
    ASSUME Shape, NEW d \in Ahead(todo)
    PROVE  /\ todo # <<>>
           /\ d \in PostinstDoings => Goal \in Unpacked
           /\ d \in PostrmDoings => Goal # "half-configured"
           /\ d = "unpack" => Goal = "installed"
           /\ d = "delete" => Goal = "config-files"
<1>1. PICK i \in DOMAIN todo : todo[i].do = d
  BY DEF Ahead
<1>2. todo[i] \in Fit(Goal, Clearing)
  BY DEF Shape
<1>3. todo # <<>>
  OBVIOUS
<1> QED
  BY <1>1, <1>2, <1>3 DEF Fit

(* Only what ends installed makes up for a version skipped.                  *)
LEMMA ClearingInstalls ==
    ASSUME Shape, Clearing
    PROVE  Goal = "installed"
<1>1. todo # <<>> /\ todo[Len(todo)].do \in {"status", "deconfigured"} /\ todo \in Seq(Steps)
  BY DEF Shape, Clearing
<1>2. Len(todo) \in DOMAIN todo
  BY <1>1
<1> QED
  BY <1>1, <1>2 DEF Shape, Fit, Clearing, Goal

-----------------------------------------------------------------------------
(* An operation begins, or is called off: other steps are ahead.             *)

(* What an operation with that goal does, from what the record says.         *)
Operation(acts, goal) ==
    /\ goal \in Status
    /\ \A d \in acts : d \in DpkgSteps \/
          \E v \in Version : d \in PostinstActs(built[v]) \cup PrermActs(built[v])
                                   \cup PostrmActs(built[v])
    /\ goal = "installed" \/ "postinst-systemd-enable" \in acts =>
          \E v \in Version : PostinstActs(built[v]) \subseteq acts
    /\ goal = "not-installed" => /\ dpkg.status \in Gone
                                 /\ \E v \in Version : PostrmActs(built[v]) \subseteq acts
    /\ goal \in {"half-configured", "config-files"} => dpkg.status # "not-installed"
    /\ "delete" \in acts =>
          /\ dpkg.status \in Unpacked
          /\ \E v \in Version : PrermActs(built[v]) \cup PostrmActs(built[v]) \subseteq acts
    /\ "deconfigured" \in acts => dpkg.status = "installed"
    /\ "unpack" \in acts =>
          \/ dpkg.status \in Gone /\ "postrm-systemd-reload" \notin acts
          \/ /\ dpkg.status \in Unpacked
             /\ \E v \in Version : PostrmActs(built[v]) \subseteq acts
    /\ "unpack" \notin acts /\ "delete" \notin acts => (host.files = None <=> goal \in Gone)
    /\ "unpack" \in acts /\ host.files # None => skipped' \/ dpkg.configured # None
    /\ "postrm-systemd-reload" \in acts /\ goal = "installed"
          => skipped' \/ dpkg.configured # None

(* Nothing that stops the service is ahead of its files' removal.            *)
Deleting == Still("delete") /\ \A d \in Ahead(todo) : ~Stops(d)

(* What is then ahead, and what was so before.                               *)
Begun ==
    /\ UNCHANGED <<built, host, recorded, dpkg, admin>>
    /\ skipped' \in BOOLEAN /\ (skipped => skipped')
    /\ todo' # <<>> /\ Shape' /\ Record' /\ Operation(Ahead(todo'), Goal') /\ ~Purging
    /\ Still("unpack") \/ Still("delete") \/ ~Still("postrm-systemd-reload")
    /\ Told' \/ (Deleting /\ "postrm-systemd-reload" \notin Ahead(todo'))

(* The plan is the shape, and its last step the goal.                        *)
LEMMA PlannedShape ==
    ASSUME NEW goal \in Status, NEW clears, NEW told, NEW acts,
           Planned(todo', goal, clears, told, acts), dpkg' = dpkg, skipped => skipped',
           "deconfigured" \in acts => dpkg.status = "installed",
           "delete" \in acts => dpkg.status \in Unpacked
    PROVE  /\ Shape' /\ Goal' = goal /\ todo' # <<>> /\ Ahead(todo') = acts
           /\ told => Told'
<1>1. PICK do \in {"status", "deconfigured"} : Ending(todo', Step(do, goal, clears))
  BY DEF Planned
<1>2. todo' # <<>> /\ todo'[Len(todo')] = Step(do, goal, clears)
  BY <1>1 DEF Ending
<1>3. /\ todo' \in Seq(Called(goal, clears, told)) /\ Ahead(todo') = acts
      /\ InOrder(todo', Rank)
  BY DEF Planned, Plan
<1>4. Called(goal, clears, told) \subseteq Steps
  BY DEF Called, Fit
<1>5. /\ todo' \in Seq(Steps) /\ InOrder(todo', Rank)
      /\ \A i \in DOMAIN todo' : todo'[i] \in Called(goal, clears, told)
  BY <1>4, PlanElements DEF Planned
<1>6. /\ Goal' = goal /\ todo'[Len(todo')].do = do /\ todo'[Len(todo')].second = clears
      /\ Clearing' = clears
  <2>1. Len(todo') \in DOMAIN todo'
    BY <1>2, <1>5
  <2>2. todo'[Len(todo')] \in Steps
    BY <1>5, <2>1
  <2>3. clears \in BOOLEAN
    BY <1>2, <2>2 DEF Step, Steps
  <2> QED
    BY <1>2, <2>3 DEF Goal, Clearing, Step
<1>7. \A i \in DOMAIN todo' : todo'[i] \in Fit(Goal, Clearing)'
  BY <1>5, <1>6, StillFits DEF Called
<1>8. Rank' = Rank /\ Steps' = Steps
  BY DEF Rank, Steps, Doings, Words
<1>9. told => Told'
  BY <1>5 DEF Called, Told
<1> QED
  BY <1>2, <1>3, <1>5, <1>6, <1>7, <1>8, <1>9 DEF Shape, Still

(* The record agrees with the files at its start.                            *)
LEMMA PlannedRecord ==
    ASSUME Record, UNCHANGED <<built, host, dpkg>>, Goal' \in Status,
           host.files = None <=> dpkg.status \in Gone,
           Still("unpack")' \/ Still("delete")' \/ (host.files = None <=> Goal' \in Gone),
           Goal' \in {"half-configured", "config-files"} => dpkg.status # "not-installed",
           Goal' = "not-installed" => dpkg.status \in Gone,
           Still("unpack")' /\ host.files # None => skipped' \/ dpkg.configured # None
    PROVE  Record'
  BY DEF Record

(* Before an operation begins, or at the step it is called off at, the       *)
(* record agrees with the files.                                             *)
LEMMA InStep ==
    ASSUME TypeOK, Shape, Record,
           todo = <<>> \/ Head(todo).do \in {"unpack", "delete", "deconfigured"}
    PROVE  /\ host.files = None <=> dpkg.status \in Gone
           /\ ~Purging
           /\ Still("unpack") \/ Still("delete") \/ ~Still("postrm-systemd-reload")
<1>1. CASE todo = <<>>
  <2>1. Ahead(todo) = {} /\ Goal = dpkg.status
    BY <1>1 DEF Ahead, Goal
  <2> QED
    BY <1>1, <2>1 DEF Still, Record, Purging
<1>2. CASE todo # <<>>
  <2> DEFINE t == Head(todo)
  <2>1. /\ todo \in Seq(Steps) /\ Rank \in [Doings -> Nat] /\ InOrder(todo, Rank)
    BY RankValues DEF Shape
  <2>2. 1 \in DOMAIN todo /\ t = todo[1]
    BY <1>2, <2>1
  <2>3. t.do \in Ahead(todo) /\ t \in Fit(Goal, Clearing)
    BY <2>2 DEF Ahead, Shape
  <2> HIDE DEF t
  <2>4. CASE t.do \in {"unpack", "delete"}
    <3>1. Still("unpack") \/ Still("delete")
      BY <2>3, <2>4 DEF Still
    <3>2. Goal \in {"installed", "config-files"}
      BY <2>3, <2>4 DEF Fit
    <3> QED
      BY <3>1, <3>2 DEF Record, Purging
  <2>5. CASE t.do = "deconfigured"
    <3>1. Goal = "half-configured"
      <4>1. ASSUME NEW i \in DOMAIN todo, i # 1 PROVE FALSE
        <5>1. Rank[todo[1].do] < Rank[todo[i].do] /\ todo[i].do \in Doings
          <6>1. todo[i] \in Steps
            BY <2>1
          <6>2. 1 < i
            BY <2>1, <2>2, <4>1
          <6> QED
            BY <2>1, <2>2, <6>1, <6>2 DEF InOrder, Steps
        <5>2. Rank[todo[1].do] = 17
          BY <2>2, <2>5, RankValues
        <5>3. Rank[todo[i].do] \in 1..17
          BY <5>1, RankBounds
        <5> QED
          BY <5>1, <5>2, <5>3
      <4>2. todo[Len(todo)] = todo[1]
        <5>1. Len(todo) \in DOMAIN todo
          BY <1>2, <2>1
        <5> QED
          BY <4>1, <5>1
      <4> QED
        BY <1>2, <2>2, <2>3, <2>5, <4>2 DEF Goal, Fit
    <3>2. ~Still("unpack") /\ ~Still("delete")
      BY <3>1, Aims DEF Still
    <3>3. Still("deconfigured") => dpkg.status = "installed"
      BY DEF Shape
    <3>4. ~Still("postrm-systemd-reload")
      <4>1. ASSUME NEW i \in DOMAIN todo, todo[i].do = "postrm-systemd-reload" PROVE FALSE
        <5>1. todo[1].do = "deconfigured" /\ i # 1
          BY <2>2, <2>5, <4>1
        <5>2. 1 < i
          BY <2>1, <2>2, <5>1
        <5>3. Rank[todo[1].do] < Rank[todo[i].do]
          BY <2>1, <2>2, <5>2 DEF InOrder
        <5> QED
          BY <4>1, <5>1, <5>3, RankValues
      <4> QED
        BY <4>1 DEF Still, Ahead
    <3> QED
      BY <2>3, <2>5, <3>1, <3>2, <3>3, <3>4 DEF Still, Record, Purging, Gone
  <2>6. t.do \in {"unpack", "delete", "deconfigured"}
    BY <1>2 DEF t
  <2> QED
    BY <2>4, <2>5, <2>6
<1> QED
  BY <1>1, <1>2

(* A plan that does what an operation does is one.                           *)
LEMMA PlannedBegins ==
    ASSUME TypeOK, Shape, Record,
           todo = <<>> \/ Head(todo).do \in {"unpack", "delete", "deconfigured"},
           UNCHANGED <<built, host, recorded, dpkg, admin>>,
           skipped' \in BOOLEAN, skipped => skipped',
           NEW goal, NEW clears, NEW told, NEW acts,
           Planned(todo', goal, clears, told, acts), Operation(acts, goal),
           told \/ (Deleting /\ "postrm-systemd-reload" \notin acts)
    PROVE  Begun
<1>1. /\ host.files = None <=> dpkg.status \in Gone
      /\ ~Purging
      /\ Still("unpack") \/ Still("delete") \/ ~Still("postrm-systemd-reload")
  BY InStep
<1>2. Shape' /\ Goal' = goal /\ todo' # <<>> /\ Ahead(todo') = acts /\ (told => Told')
  BY PlannedShape DEF Operation
<1>3. Record'
  BY <1>1, <1>2, PlannedRecord DEF Operation, Still
<1> QED
  BY <1>1, <1>2, <1>3 DEF Begun

(* What the scripts do are no steps of dpkg's own, nor of each other.        *)
LEMMA ActsApart ==
    ASSUME NEW init
    PROVE  /\ \A d \in {"unpack", "delete", "deconfigured", "status"} :
                 /\ d \notin PostinstActs(init) /\ d \notin PrermActs(init)
                 /\ d \notin PostrmActs(init)
           /\ "postrm-systemd-reload" \notin PostinstActs(init)
           /\ "postrm-systemd-reload" \notin PrermActs(init)
           /\ "postinst-systemd-enable" \notin PrermActs(init)
           /\ "postinst-systemd-enable" \notin PostrmActs(init)
  BY ActKinds DEF PostinstDoings, PrermDoings, PostrmDoings

(* What an operator starts.                                                  *)
LEMMA OperatorBegins ==
    ASSUME TypeOK, Shape, Record, Operator
    PROVE  Begun
<1> USE DEF Begin, Idle, Gone, Unpacked, Status, DpkgSteps
<1> DEFINE u == host.files
           clears == dpkg.configured # None
<1>1. (u # None => u \in Version) /\ skipped \in BOOLEAN
  BY DEF TypeOK, Host
<1>2. todo = <<>> => (u = None <=> dpkg.status \in Gone)
  BY DEF TypeOK
<1> HIDE DEF u, clears
<1>3. ASSUME NEW v \in Version, Install(v), skipped' = skipped PROVE Begun
  <2> DEFINE acts == {"unpack"} \cup (PostinstActs(built[v]) \cup {"status"})
  <2>1. todo = <<>> /\ dpkg.status \in Gone /\ UNCHANGED <<built, host, recorded, dpkg, admin>>
        /\ todo' = Dpkg("unpack", v) \o Configure(v)
    BY <1>3 DEF Install
  <2>2. Planned(todo', "installed", clears, TRUE, acts)
    BY <2>1, PlanInstall DEF clears
  <2>3. Operation(acts, "installed")
    <3>1. /\ "unpack" \in acts /\ "delete" \notin acts /\ "deconfigured" \notin acts
          /\ "postrm-systemd-reload" \notin acts /\ PostinstActs(built[v]) \subseteq acts
      BY ActsApart
    <3>2. \A d \in acts : d \in DpkgSteps \/ d \in PostinstActs(built[v])
      OBVIOUS
    <3> HIDE DEF acts
    <3> QED
      BY <1>2, <2>1, <3>1, <3>2 DEF Operation, u
  <2> QED
    BY <1>1, <1>3, <2>1, <2>2, <2>3, PlannedBegins
<1>4. ASSUME NEW v \in Version, Upgrade(v) PROVE Begun
  <2> DEFINE acts == PrermActs(built[u]) \cup {"unpack"} \cup PostrmActs(built[u])
                     \cup (PostinstActs(built[v]) \cup {"status"})
  <2>1. /\ todo = <<>> /\ dpkg.status \in Unpacked
        /\ UNCHANGED <<built, host, recorded, dpkg, admin>>
        /\ todo' = Prerm(u, "upgrade") \o Dpkg("unpack", v) \o Postrm(u, "upgrade") \o Configure(v)
        /\ skipped' = (skipped \/ dpkg.configured = None)
    BY <1>4 DEF Upgrade, u
  <2>2. u \in Version
    BY <1>1, <1>2, <2>1
  <2>3. Planned(todo', "installed", clears, TRUE, acts)
    BY <2>1, <2>2, PlanUpgrade DEF clears
  <2>4. Operation(acts, "installed")
    <3>1. /\ "unpack" \in acts /\ "delete" \notin acts /\ "deconfigured" \notin acts
          /\ PostrmActs(built[u]) \subseteq acts /\ PostinstActs(built[v]) \subseteq acts
      BY ActsApart
    <3>2. \A d \in acts : d \in DpkgSteps \/ d \in PostinstActs(built[v])
             \/ d \in PrermActs(built[u]) \cup PostrmActs(built[u])
      OBVIOUS
    <3> HIDE DEF acts
    <3> QED
      BY <2>1, <2>2, <3>1, <3>2 DEF Operation
  <2>5. skipped' \in BOOLEAN /\ (skipped => skipped')
    BY <2>1
  <2> QED
    BY <2>1, <2>3, <2>4, <2>5, PlannedBegins
<1>5. ASSUME ConfigureAgain, skipped' = skipped PROVE Begun
  <2> DEFINE acts == PostinstActs(built[u]) \cup {"status"}
  <2>1. todo = <<>> /\ dpkg.status = "half-configured"
        /\ UNCHANGED <<built, host, recorded, dpkg, admin>> /\ todo' = Configure(u)
    BY <1>5 DEF ConfigureAgain, u
  <2>2. u \in Version
    BY <1>1, <1>2, <2>1
  <2>3. Planned(todo', "installed", clears, TRUE, acts)
    BY <2>1, <2>2, PlanConfigure DEF clears
  <2>4. Operation(acts, "installed")
    BY <1>2, <2>1, <2>2, ActsApart DEF Operation, u
  <2> QED
    BY <1>1, <1>5, <2>1, <2>3, <2>4, PlannedBegins
<1>6. ASSUME Deconfigure, skipped' = skipped PROVE Begun
  <2> DEFINE acts == PrermActs(built[u]) \cup {"deconfigured"}
  <2>1. todo = <<>> /\ dpkg.status = "installed"
        /\ UNCHANGED <<built, host, recorded, dpkg, admin>>
        /\ todo' = Prerm(u, "deconfigure") \o Dpkg("deconfigured", "half-configured")
    BY <1>6 DEF Deconfigure, u
  <2>2. u \in Version
    BY <1>1, <1>2, <2>1
  <2>3. Planned(todo', "half-configured", FALSE, TRUE, acts)
    BY <2>1, <2>2, PlanDeconfigure
  <2>4. Operation(acts, "half-configured")
    BY <1>2, <2>1, <2>2, ActsApart DEF Operation, u
  <2> QED
    BY <1>1, <1>6, <2>1, <2>3, <2>4, PlannedBegins
<1>7. ASSUME Remove, skipped' = skipped PROVE Begun
  <2> DEFINE acts == PrermActs(built[u]) \cup {"delete"} \cup PostrmActs(built[u]) \cup {"status"}
  <2>1. todo = <<>> /\ dpkg.status \in Unpacked
        /\ UNCHANGED <<built, host, recorded, dpkg, admin>>
        /\ todo' = Prerm(u, "remove") \o Dpkg("delete", "remove")
                   \o Postrm(u, "remove") \o Dpkg("status", "config-files")
    BY <1>7 DEF Remove, u
  <2>2. u \in Version
    BY <1>1, <1>2, <2>1
  <2>3. Planned(todo', "config-files", FALSE, TRUE, acts)
    BY <2>1, <2>2, PlanRemove
  <2>4. Operation(acts, "config-files")
    BY <1>2, <2>1, <2>2, ActsApart DEF Operation
  <2> QED
    BY <1>1, <1>7, <2>1, <2>3, <2>4, PlannedBegins
<1>8. ASSUME Purge, skipped' = skipped PROVE Begun
  <2> DEFINE w == dpkg.version
             acts == PostrmActs(built[w]) \cup {"status"}
  <2>1. todo = <<>> /\ dpkg.status = "config-files"
        /\ UNCHANGED <<built, host, recorded, dpkg, admin>>
        /\ todo' = Postrm(w, "purge") \o Dpkg("status", "not-installed")
    BY <1>8 DEF Purge
  <2>2. w \in Version
    BY <2>1 DEF Record
  <2> HIDE DEF w
  <2>3. Planned(todo', "not-installed", FALSE, TRUE, acts)
    BY <2>1, <2>2, PlanPostrm
  <2>4. Operation(acts, "not-installed")
    BY <1>2, <2>1, <2>2, ActsApart DEF Operation, u
  <2> QED
    BY <1>1, <1>8, <2>1, <2>3, <2>4, PlannedBegins
<1> QED
  BY <1>3, <1>4, <1>5, <1>6, <1>7, <1>8 DEF Operator

(* What is begun instead of a step that fails.                               *)
LEMMA AbortBegins ==
    ASSUME TypeOK, Shape, Record, Abort
    PROVE  Begun
<1> USE DEF Gone, Unpacked, Status, DpkgSteps
<1> DEFINE u == host.files
           t == Head(todo)
<1>1. /\ u # None => u \in Version
      /\ dpkg.status \in Status /\ skipped \in BOOLEAN
  BY DEF TypeOK, Host
<1>2. /\ todo # <<>> /\ UNCHANGED <<built, host, recorded, dpkg, admin, skipped>>
      /\ t.do \in {"unpack", "delete", "deconfigured"}
  BY DEF Abort, Idle
<1>3. u = None <=> dpkg.status \in Gone
  BY <1>2, InStep
<1>4. t \in Fit(Goal, Clearing) /\ Still(t.do)
  <2>1. t = todo[1] /\ 1 \in DOMAIN todo
    BY <1>2 DEF Shape
  <2> QED
    BY <2>1 DEF Shape, Still, Ahead
<1>5. t.do = "unpack" => t.arg \in Version
  BY <1>4 DEF Fit
<1>6. /\ dpkg.status = "installed" => dpkg.configured # None
      /\ t.do = "unpack" /\ u # None => skipped \/ dpkg.configured # None
  BY <1>4 DEF Record
<1>7. /\ t.do = "deconfigured" => dpkg.status = "installed"
      /\ t.do = "delete" => dpkg.status \in Unpacked
  BY <1>4 DEF Shape
<1>8. t.do = "delete" => Deleting
  <2>1. /\ todo \in Seq(Steps) /\ InOrder(todo, Rank) /\ 1 \in DOMAIN todo /\ t = todo[1]
    BY <1>2 DEF Shape
  <2>2. ASSUME t.do = "delete", NEW d \in Ahead(todo), Stops(d) PROVE FALSE
    <3>1. PICK i \in DOMAIN todo : todo[i].do = d
      BY DEF Ahead
    <3>2. Rank[d] \in {1, 2, 3} /\ Rank[t.do] = 5
      BY <2>2, RankValues DEF Stops
    <3>3. 1 < i
      BY <2>1, <2>2, <3>1, <3>2
    <3> QED
      BY <2>1, <3>1, <3>2, <3>3 DEF InOrder
  <2> QED
    BY <1>4, <2>2 DEF Deleting
<1>9. \/ /\ t.do = "unpack" /\ dpkg.status \in Unpacked /\ u \in Version
         /\ todo' = Postrm(t.arg, "abort-upgrade") \o Postinst(u, "abort-upgrade", TRUE)
                    \o Dpkg("status", "installed")
      \/ /\ t.do = "unpack" /\ dpkg.status \in Gone
         /\ todo' = Postrm(t.arg, "abort-install") \o Dpkg("status", dpkg.status)
      \/ /\ dpkg.status \in Unpacked /\ u \in Version
         /\ \E arg \in {"abort-remove", "abort-deconfigure"}, second \in BOOLEAN :
               /\ arg = "abort-deconfigure" => second
               /\ arg = "abort-remove" => t.do = "delete"
               /\ todo' = Postinst(u, arg, second) \o Dpkg("status", dpkg.status)
  BY <1>1, <1>2, <1>3, <1>7 DEF Abort
<1> HIDE DEF u, t
<1>10. ASSUME NEW v \in Version, t.do = "unpack", dpkg.status \in Unpacked, u \in Version,
              todo' = Postrm(v, "abort-upgrade") \o Postinst(u, "abort-upgrade", TRUE)
                      \o Dpkg("status", "installed")
       PROVE  Begun
  <2> DEFINE acts == PostrmActs(built[v]) \cup PostinstActs(built[u]) \cup {"status"}
  <2>1. u # None /\ (skipped \/ dpkg.configured # None)
    BY <1>3, <1>6, <1>10
  <2>2. Planned(todo', "installed", FALSE, TRUE, acts)
    BY <1>10, <2>1, PlanCallOff
  <2>3. Operation(acts, "installed")
    <3>1. /\ "unpack" \notin acts /\ "delete" \notin acts /\ "deconfigured" \notin acts
          /\ PostinstActs(built[u]) \subseteq acts
      BY ActsApart
    <3>2. \A d \in acts : d \in DpkgSteps \/ d \in PostinstActs(built[u])
             \/ d \in PostrmActs(built[v])
      OBVIOUS
    <3> HIDE DEF acts
    <3> QED
      BY <1>2, <1>10, <2>1, <3>1, <3>2 DEF Operation, u
  <2> QED
    BY <1>1, <1>2, <2>2, <2>3, PlannedBegins DEF t
<1>11. ASSUME NEW v \in Version, dpkg.status \in Gone,
              todo' = Postrm(v, "abort-install") \o Dpkg("status", dpkg.status)
       PROVE  Begun
  <2> DEFINE acts == PostrmActs(built[v]) \cup {"status"}
  <2>1. Planned(todo', dpkg.status, FALSE, TRUE, acts)
    BY <1>11, PlanPostrm
  <2>2. Operation(acts, dpkg.status)
    <3>1. /\ "unpack" \notin acts /\ "delete" \notin acts /\ "deconfigured" \notin acts
          /\ PostrmActs(built[v]) \subseteq acts /\ "postinst-systemd-enable" \notin acts
      BY ActsApart
    <3>2. \A d \in acts : d \in DpkgSteps \/ d \in PostrmActs(built[v])
      OBVIOUS
    <3> HIDE DEF acts
    <3> QED
      BY <1>1, <1>3, <1>11, <3>1, <3>2 DEF Operation, u
  <2> QED
    BY <1>1, <1>2, <2>1, <2>2, PlannedBegins DEF t
<1>12. ASSUME dpkg.status \in Unpacked, u \in Version,
              NEW arg \in {"abort-remove", "abort-deconfigure"}, NEW second \in BOOLEAN,
              arg = "abort-deconfigure" => second, arg = "abort-remove" => t.do = "delete",
              todo' = Postinst(u, arg, second) \o Dpkg("status", dpkg.status)
       PROVE  Begun
  <2> DEFINE acts == PostinstActs(built[u]) \cup {"status"}
             told == arg # "abort-remove"
  <2>1. Planned(todo', dpkg.status, FALSE, told, acts)
    BY <1>6, <1>12, PlanRestore
  <2>2. Operation(acts, dpkg.status)
    BY <1>3, <1>12, ActsApart DEF Operation, u
  <2>3. told \/ (Deleting /\ "postrm-systemd-reload" \notin acts)
    BY <1>8, <1>12, ActsApart
  <2> HIDE DEF acts, told
  <2> QED
    BY <1>1, <1>2, <2>1, <2>2, <2>3, PlannedBegins DEF t
<1> QED
  BY <1>5, <1>9, <1>10, <1>11, <1>12

-----------------------------------------------------------------------------
(* What each step of dpkg's changes.                                         *)

(* A snippet runs.                                                           *)
LEMMA SnippetTaken ==
    ASSUME TypeOK, Shape, RunSnippet, NEW t, t = Head(todo)
    PROVE  /\ Keeps(t.do, t.arg, t.second, host', recorded') /\ admin' = Seen(host')
           /\ UNCHANGED <<built, dpkg, skipped>> /\ Shape' /\ Goal' = Goal /\ Clearing' = Clearing
           /\ todo # <<>> /\ todo' # <<>> /\ t \in Fit(Goal, Clearing) /\ t.do \notin DpkgSteps
           /\ 1 \in DOMAIN todo /\ t = todo[1] /\ (Told => Told')
           /\ t.do \in Ahead(todo) /\ Ahead(todo') = Ahead(todo) \ {t.do}
           /\ \A d \in Ahead(todo') : Rank[t.do] < Rank[d]
           /\ \A d \in DpkgSteps : Still(d)' <=> Still(d)
<1>1. /\ todo # <<>> /\ t.do \notin DpkgSteps /\ todo' = Tail(todo)
      /\ UNCHANGED <<built, dpkg, skipped>>
      /\ LET s == After(t, State(host, recorded))
         IN  host' = s.host /\ recorded' = s.recorded /\ admin' = Seen(s.host)
  BY DEF RunSnippet, Idle
<1>2. /\ t \in Steps /\ t \in Fit(Goal, Clearing) /\ t.do \in Ahead(todo)
      /\ 1 \in DOMAIN todo /\ t = todo[1] /\ (Told => Told')
      /\ Ahead(todo') = Ahead(todo) \ {t.do}
      /\ \A d \in Ahead(todo') : Rank[t.do] < Rank[d]
      /\ t.do \notin {"status", "deconfigured"} => todo' # <<>>
  BY <1>1, Taken
<1>3. t.do \notin {"status", "deconfigured"}
  BY <1>1 DEF DpkgSteps
<1>4. Keeps(t.do, t.arg, t.second, host', recorded')
  BY <1>1, <1>2, SnippetKeeps DEF TypeOK
<1>5. Shape' /\ Goal' = Goal /\ Clearing' = Clearing
  BY <1>1, <1>3, TakenShape
<1>6. \A d \in DpkgSteps : Still(d)' <=> Still(d)
  BY <1>1, <1>2 DEF Still
<1> QED
  BY <1>1, <1>2, <1>3, <1>4, <1>5, <1>6

(* The files are put in place, or taken away.                                *)
LEMMA FilesTaken ==
    ASSUME TypeOK, Shape, Record, UnpackFiles \/ DeleteFiles, NEW t, t = Head(todo)
    PROVE  /\ UNCHANGED <<built, recorded, admin, skipped>>
           /\ dpkg'.status = dpkg.status /\ dpkg'.configured = dpkg.configured
           /\ Shape' /\ Goal' = Goal /\ Clearing' = Clearing /\ todo # <<>> /\ todo' # <<>>
           /\ Told => Told'
           /\ Still(t.do) /\ Ahead(todo') = Ahead(todo) \ {t.do}
           /\ \A d \in Ahead(todo') : Rank[t.do] < Rank[d]
           /\ ~Still("unpack")' /\ ~Still("delete")'
           /\ host' \in Host
           /\ host'.os = host.os /\ host'.loaded = host.loaded /\ host'.running = host.running
           /\ host'.enabled = host.enabled /\ host'.rc = host.rc /\ host'.mask = host.mask
           /\ host'.account = host.account /\ host'.logdir = host.logdir
           /\ \/ /\ t.do = "unpack" /\ Goal = "installed" /\ t.arg \in Version
                 /\ host'.files = t.arg /\ host'.init = built[t.arg]
                 /\ dpkg' = [dpkg EXCEPT !.version = t.arg]
              \/ /\ t.do = "delete" /\ Goal = "config-files"
                 /\ host'.files = None /\ dpkg' = dpkg /\ host'.defaults = host.defaults
<1>1. /\ todo # <<>> /\ todo' = Tail(todo) /\ t.do \in {"unpack", "delete"}
      /\ UNCHANGED <<built, recorded, admin, skipped>>
  BY DEF UnpackFiles, DeleteFiles, Idle
<1>2. /\ t \in Fit(Goal, Clearing) /\ Still(t.do) /\ (Told => Told')
      /\ Ahead(todo') = Ahead(todo) \ {t.do}
      /\ \A d \in Ahead(todo') : Rank[t.do] < Rank[d]
      /\ todo' # <<>>
  BY <1>1, Taken DEF Still
<1>3. dpkg'.status = dpkg.status /\ dpkg'.configured = dpkg.configured
  BY DEF UnpackFiles, DeleteFiles, TypeOK
<1>4. Shape' /\ Goal' = Goal /\ Clearing' = Clearing
  BY <1>1, <1>3, TakenShape
<1>5. ~Still("unpack")' /\ ~Still("delete")'
  BY <1>1, <1>2, Aims DEF Still
<1>6. CASE t.do = "unpack"
  <2> DEFINE v == t.arg
             e == IF host.defaults = "never" /\ built[v] # "none" THEN "present" ELSE host.defaults
  <2>1. v \in Version /\ Goal = "installed"
    BY <1>2, <1>6 DEF Fit
  <2>2. built[v] \in InitSystem
    BY <2>1, BuildsAssumption DEF TypeOK
  <2>3. host' = Unpack(host, v, built[v]) /\ dpkg' = [dpkg EXCEPT !.version = v]
    BY <1>6 DEF UnpackFiles, DeleteFiles
  <2>4. host' \in Host
    BY <2>1, <2>2, <2>3, Commands DEF TypeOK
  <2>5. host' = [host EXCEPT !.files = v, !.init = built[v], !.defaults = e]
    BY <2>3 DEF Unpack
  <2> HIDE DEF e, v
  <2>6. /\ host'.os = host.os /\ host'.loaded = host.loaded /\ host'.running = host.running
        /\ host'.enabled = host.enabled /\ host'.rc = host.rc /\ host'.mask = host.mask
        /\ host'.account = host.account /\ host'.logdir = host.logdir
        /\ host'.files = v /\ host'.init = built[v]
    BY <2>5 DEF TypeOK, Host
  <2> QED
    BY <1>1, <1>2, <1>3, <1>4, <1>5, <1>6, <2>1, <2>3, <2>4, <2>6 DEF v
<1>7. CASE t.do = "delete"
  <2>1. Goal = "config-files"
    BY <1>2, <1>7 DEF Fit
  <2>2. host' = Delete(host) /\ dpkg' = dpkg
    BY <1>7 DEF UnpackFiles, DeleteFiles
  <2>3. host' \in Host
    BY <2>2, Commands DEF TypeOK
  <2>4. /\ host'.os = host.os /\ host'.loaded = host.loaded /\ host'.running = host.running
        /\ host'.enabled = host.enabled /\ host'.rc = host.rc /\ host'.mask = host.mask
        /\ host'.account = host.account /\ host'.logdir = host.logdir
        /\ host'.files = None /\ host'.defaults = host.defaults
    BY <2>2 DEF TypeOK, Host, Delete
  <2> QED
    BY <1>1, <1>2, <1>3, <1>4, <1>5, <1>7, <2>1, <2>2, <2>3, <2>4
<1> QED
  BY <1>1, <1>6, <1>7

(* The record is written, or its configuration stops: nothing is left to do. *)
LEMMA RecordTaken ==
    ASSUME TypeOK, Shape, Record, SetStatus \/ ConfigureStops
    PROVE  /\ UNCHANGED <<built, recorded>> /\ todo # <<>> /\ todo' = <<>> /\ Ahead(todo') = {}
           /\ Shape' /\ Goal' = dpkg'.status /\ ~Clearing' /\ dpkg' \in [status : Status,
                 version : Version \cup {None}, configured : Version \cup {None}]
           /\ skipped' \in BOOLEAN
           /\ ~Still("unpack") /\ ~Still("delete") /\ ~Still("postrm-systemd-reload")
           /\ \/ /\ Goal = dpkg'.status /\ Goal # "not-installed" /\ UNCHANGED <<host, admin>>
                 /\ dpkg'.version = dpkg.version
                 /\ dpkg'.configured = IF Goal = "installed" THEN dpkg.version ELSE dpkg.configured
                 /\ skipped' = (skipped /\ ~Clearing)
                 /\ \A d \in Ahead(todo) : d \in {"status", "deconfigured"}
              \/ /\ Goal = dpkg'.status /\ Goal = "not-installed"
                 /\ host' = [host EXCEPT !.defaults = "never", !.init = "none"]
                 /\ admin' = [admin EXCEPT !.disabled = FALSE]
                 /\ dpkg'.configured = None /\ skipped' = FALSE
                 /\ \A d \in Ahead(todo) : d \in {"status", "deconfigured"}
              \/ /\ Goal \in Unpacked /\ dpkg'.status = "half-configured"
                 /\ dpkg'.version = dpkg.version /\ dpkg'.configured = dpkg.configured
                 /\ UNCHANGED <<host, admin, skipped>>
<1>1. /\ Goal \in Status /\ skipped \in BOOLEAN
      /\ dpkg.version \in Version \cup {None} /\ dpkg.configured \in Version \cup {None}
  BY DEF Record, TypeOK
<1>2. ASSUME todo' = <<>>, dpkg'.status \in Status
      PROVE  Ahead(todo') = {} /\ Shape' /\ Goal' = dpkg'.status /\ ~Clearing'
  <2>1. Ahead(todo') = {} /\ Goal' = dpkg'.status /\ ~Clearing'
    BY <1>2 DEF Ahead, Goal, Clearing
  <2> QED
    BY <1>2, <2>1 DEF Shape, InOrder, Still
<1>3. CASE SetStatus
  <2> DEFINE t == Head(todo)
  <2>1. /\ todo # <<>> /\ t.do \in {"status", "deconfigured"} /\ todo' = Tail(todo)
        /\ UNCHANGED <<built, recorded>>
        /\ dpkg' = [status |-> t.arg,
                    version |-> IF t.arg = "not-installed" THEN None ELSE dpkg.version,
                    configured |-> CASE t.arg = "installed" -> dpkg.version
                                     [] t.arg = "not-installed" -> None
                                     [] OTHER -> dpkg.configured]
        /\ IF t.arg = "not-installed"
           THEN /\ host' = [host EXCEPT !.defaults = "never", !.init = "none"]
                /\ admin' = [admin EXCEPT !.disabled = FALSE]
           ELSE UNCHANGED <<host, admin>>
        /\ skipped' = (skipped /\ t.arg # "not-installed" /\ ~t.second)
    BY <1>3 DEF SetStatus, Idle
  <2>2. /\ todo' = <<>> /\ Goal = t.arg /\ (Clearing <=> t.second)
        /\ Ahead(todo') = Ahead(todo) \ {t.do}
    BY <2>1, Taken
  <2> HIDE DEF t
  <2>3. /\ dpkg'.status = Goal
        /\ dpkg'.version = IF Goal = "not-installed" THEN None ELSE dpkg.version
        /\ dpkg'.configured = CASE Goal = "installed" -> dpkg.version
                                [] Goal = "not-installed" -> None
                                [] OTHER -> dpkg.configured
        /\ skipped' = (skipped /\ Goal # "not-installed" /\ ~Clearing)
    BY <2>1, <2>2
  <2>4. dpkg' \in [status : Status, version : Version \cup {None}, configured : Version \cup {None}]
    BY <1>1, <2>1, <2>2
  <2>5. Ahead(todo') = {} /\ Shape' /\ Goal' = dpkg'.status /\ ~Clearing'
    BY <1>1, <1>2, <2>2, <2>3
  <2>6. \A d \in Ahead(todo) : d \in {"status", "deconfigured"}
    BY <2>1, <2>2, <2>5
  <2>7. ~Still("unpack") /\ ~Still("delete") /\ ~Still("postrm-systemd-reload")
    BY <2>6 DEF Still
  <2>8. skipped' \in BOOLEAN
    BY <1>1, <2>3
  <2> QED
    BY <2>1, <2>2, <2>3, <2>4, <2>5, <2>6, <2>7, <2>8
<1>4. CASE ConfigureStops
  <2> DEFINE t == Head(todo)
  <2>1. /\ todo # <<>> /\ todo' = <<>>
        /\ t.do \in PostinstDoings \/ (t.do = "status" /\ t.arg = "installed")
        /\ dpkg' = [dpkg EXCEPT !.status = "half-configured"]
        /\ UNCHANGED <<built, host, recorded, admin, skipped>>
    BY <1>4 DEF ConfigureStops, Idle
  <2>2. dpkg'.status = "half-configured" /\ dpkg'.version = dpkg.version
        /\ dpkg'.configured = dpkg.configured
        /\ dpkg' \in [status : Status, version : Version \cup {None},
                      configured : Version \cup {None}]
    BY <2>1 DEF TypeOK, Status
  <2>3. Ahead(todo') = {} /\ Shape' /\ Goal' = dpkg'.status /\ ~Clearing'
    BY <1>2, <2>1, <2>2
  <2>4. /\ todo \in Seq(Steps) /\ 1 \in DOMAIN todo /\ t = todo[1] /\ t \in Fit(Goal, Clearing)
        /\ InOrder(todo, Rank)
    BY <2>1 DEF Shape
  <2>5. t.do \in PostinstDoings \cup {"status"} /\ Goal \in Unpacked
    <3>1. CASE t.do \in PostinstDoings
      BY <2>4, <3>1 DEF Fit
    <3>2. CASE t.do = "status" /\ t.arg = "installed"
      <4>1. Len(todo) \in DOMAIN todo /\ todo[Len(todo)] \in Steps
        BY <2>1, <2>4
      <4>2. Rank[todo[Len(todo)].do] \in 1..17 /\ Rank[t.do] = 17
        BY <3>2, <4>1, RankBounds, RankValues DEF Steps
      <4>3. Len(todo) = 1
        <5>1. 1 < Len(todo) => 17 < Rank[todo[Len(todo)].do]
          BY <2>4, <4>1, <4>2 DEF InOrder
        <5>2. ~(1 < Len(todo)) /\ Len(todo) \in Nat /\ Len(todo) >= 1
          BY <2>4, <4>1, <4>2, <5>1
        <5> QED
          BY <5>2
      <4> QED
        BY <2>1, <2>4, <3>2, <4>3 DEF Goal, Unpacked
    <3> QED
      BY <2>1, <3>1, <3>2
  <2> HIDE DEF t
  <2>6. ~Still("unpack") /\ ~Still("delete") /\ ~Still("postrm-systemd-reload")
    <3>1. ASSUME NEW i \in DOMAIN todo,
                 todo[i].do \in {"unpack", "delete", "postrm-systemd-reload"}
          PROVE  FALSE
      <4>1. i # 1
        BY <2>4, <2>5, <3>1 DEF PostinstDoings
      <4>2. 1 < i
        BY <2>4, <4>1
      <4>3. Rank[t.do] < Rank[todo[i].do]
        BY <2>4, <4>2 DEF InOrder
      <4>4. Rank[t.do] >= 10 /\ Rank[t.do] \in Nat /\ Rank[todo[i].do] \in {4, 5, 9}
        BY <2>5, <3>1, RankBounds, RankValues DEF Doings
      <4> QED
        BY <4>3, <4>4
    <3> QED
      BY <3>1 DEF Still, Ahead
  <2> QED
    BY <1>1, <2>1, <2>2, <2>3, <2>5, <2>6
<1> QED
  BY <1>3, <1>4

-----------------------------------------------------------------------------
(* The shape of the operation and what the record says: the part of the      *)
(* invariant that speaks of any machine and any package.                     *)
Base == TypeOK /\ Shape /\ Record

(* Types follow from the shape and the record.                               *)
LEMMA StepType ==
    ASSUME Shape', Record', built' \in Builds, host' \in Host, recorded' \in BOOLEAN,
           admin' \in Decisions, skipped' \in BOOLEAN,
           dpkg' \in [status : Status, version : Version \cup {None},
                      configured : Version \cup {None}]
    PROVE  TypeOK'
<1>1. \A i \in DOMAIN todo' : todo'[i].second \in BOOLEAN
  <2>1. Steps' = Steps
    BY DEF Steps, Doings, Words
  <2>2. \A i \in DOMAIN todo' : todo'[i] \in Steps
    BY <2>1 DEF Shape
  <2> QED
    BY <2>2 DEF Steps
<1>2. todo' = <<>> => (host'.files = None <=> dpkg'.status \in Gone)
  <2>1. ASSUME todo' = <<>> PROVE ~Still("unpack")' /\ ~Still("delete")' /\ Goal' = dpkg'.status
    BY <2>1 DEF Still, Ahead, Goal
  <2> QED
    BY <2>1 DEF Record
<1> QED
  BY <1>1, <1>2 DEF TypeOK, Idle, Gone

(* It holds before anything is installed,                                    *)
LEMMA BaseInit ==
    ASSUME Init
    PROVE  Base
<1>1. /\ built \in Builds /\ recorded = FALSE /\ todo = <<>> /\ admin = NoDecision
      /\ skipped = FALSE
      /\ dpkg = [status |-> "not-installed", version |-> None, configured |-> None]
      /\ \E os \in {"systemd", "sysv", "upstart"} : host = CleanHost(os)
  BY SystemsAssumption DEF Init
<1>2. host \in Host /\ host.files = None
  BY <1>1 DEF CleanHost, Host, InitSystem
<1>3. admin \in Decisions
  BY <1>1 DEF NoDecision, Decisions
<1>4. Ahead(todo) = {} /\ Goal = "not-installed"
  BY <1>1 DEF Ahead, Goal
<1>5. TypeOK
  <2>1. dpkg \in [status : Status, version : Version \cup {None}, configured : Version \cup {None}]
    BY <1>1 DEF Status
  <2>2. DOMAIN todo = {}
    BY <1>1
  <2>3. dpkg.status = "not-installed"
    BY <1>1
  <2> QED
    BY <1>1, <1>2, <1>3, <2>1, <2>2, <2>3 DEF TypeOK, Idle
<1>6. Shape
  BY <1>1, <1>4 DEF Shape, InOrder, Still
<1>7. Record
  BY <1>1, <1>2, <1>4 DEF Record, Still, Gone, Status
<1> QED
  BY <1>5, <1>6, <1>7 DEF Base

(* and every step keeps it.                                                  *)
LEMMA BaseStep ==
    ASSUME Base, [Next]_vars
    PROVE  Base'
<1> USE DEF Base
<1>1. CASE UNCHANGED vars
  <2>1. UNCHANGED <<built, host, recorded, dpkg, todo, admin, skipped>>
    BY <1>1 DEF vars
  <2>2. /\ Goal' = Goal /\ Clearing' = Clearing /\ \A d : Still(d)' <=> Still(d)
        /\ Rank' = Rank /\ Steps' = Steps
    BY <2>1 DEF Goal, Clearing, Still, Rank, Steps, Doings, Words
  <2>3. TypeOK'
    BY <2>1 DEF TypeOK, Idle
  <2>4. \A i \in DOMAIN todo' : todo'[i] \in Fit(Goal, Clearing)'
    BY <2>1, <2>2, StillFits DEF Shape
  <2>6. Shape'
    BY <2>1, <2>2, <2>4 DEF Shape
  <2>5. Record'
    BY <2>1, <2>2 DEF Record
  <2> QED
    BY <2>3, <2>5, <2>6
<1>2. ASSUME Begun PROVE Base'
  <2>1. /\ Shape' /\ Record' /\ UNCHANGED <<built, host, recorded, dpkg, admin>>
        /\ skipped' \in BOOLEAN
    BY <1>2 DEF Begun
  <2>2. TypeOK'
    BY <2>1, StepType DEF TypeOK
  <2> QED
    BY <2>1, <2>2
<1>3. CASE RunSnippet
  <2> DEFINE t == Head(todo)
  <2>1. /\ Keeps(t.do, t.arg, t.second, host', recorded') /\ admin' = Seen(host')
        /\ UNCHANGED <<built, dpkg, skipped>> /\ Shape' /\ Goal' = Goal
        /\ \A d \in DpkgSteps : Still(d)' <=> Still(d)
    BY <1>3, SnippetTaken
  <2> HIDE DEF t
  <2>2. /\ host' \in Host /\ recorded' \in BOOLEAN
        /\ host'.files = host.files /\ host'.init = host.init
    BY <2>1 DEF Keeps, SameFiles
  <2>3. Record'
    BY <2>1, <2>2 DEF Record, DpkgSteps
  <2>4. admin' \in Decisions
    BY <2>1, SeenDecides DEF TypeOK
  <2> QED
    BY <2>1, <2>2, <2>3, <2>4, StepType DEF TypeOK
<1>4. CASE UnpackFiles \/ DeleteFiles
  <2> DEFINE t == Head(todo)
  <2>1. /\ UNCHANGED <<built, recorded, admin, skipped>>
        /\ dpkg'.status = dpkg.status /\ dpkg'.configured = dpkg.configured
        /\ Shape' /\ Goal' = Goal /\ ~Still("unpack")' /\ ~Still("delete")' /\ Still(t.do)
        /\ host' \in Host
        /\ \/ /\ t.do = "unpack" /\ Goal = "installed" /\ t.arg \in Version
              /\ host'.files = t.arg /\ host'.init = built[t.arg]
              /\ dpkg' = [dpkg EXCEPT !.version = t.arg]
           \/ /\ t.do = "delete" /\ Goal = "config-files"
              /\ host'.files = None /\ dpkg' = dpkg
    BY <1>4, FilesTaken
  <2> HIDE DEF t
  <2>2. dpkg' \in [status : Status, version : Version \cup {None},
                   configured : Version \cup {None}]
    BY <2>1 DEF TypeOK
  <2>3. Record'
    <3>1. CASE /\ t.do = "unpack" /\ Goal = "installed" /\ t.arg \in Version
               /\ host'.files = t.arg /\ host'.init = built[t.arg]
               /\ dpkg' = [dpkg EXCEPT !.version = t.arg]
      <4>1. dpkg'.version = t.arg
        BY <3>1 DEF TypeOK
      <4>2. t.arg # None
        BY <3>1, NoneAssumption
      <4> QED
        BY <2>1, <3>1, <4>1, <4>2 DEF Record, Gone
    <3>2. CASE t.do = "delete" /\ Goal = "config-files" /\ host'.files = None /\ dpkg' = dpkg
      BY <2>1, <3>2 DEF Record, Gone
    <3> QED
      BY <2>1, <3>1, <3>2
  <2> QED
    BY <2>1, <2>2, <2>3, StepType DEF TypeOK
<1>5. CASE SetStatus \/ ConfigureStops
  <2>1. /\ UNCHANGED <<built, recorded>> /\ todo' = <<>> /\ Ahead(todo') = {}
        /\ Shape' /\ Goal' = dpkg'.status
        /\ dpkg' \in [status : Status, version : Version \cup {None},
                      configured : Version \cup {None}]
        /\ skipped' \in BOOLEAN
        /\ ~Still("unpack") /\ ~Still("delete")
        /\ \/ /\ Goal = dpkg'.status /\ Goal # "not-installed" /\ UNCHANGED <<host, admin>>
              /\ dpkg'.version = dpkg.version
              /\ dpkg'.configured = IF Goal = "installed" THEN dpkg.version ELSE dpkg.configured
           \/ /\ Goal = dpkg'.status /\ Goal = "not-installed"
              /\ host' = [host EXCEPT !.defaults = "never", !.init = "none"]
              /\ admin' = [admin EXCEPT !.disabled = FALSE] /\ dpkg'.configured = None
           \/ /\ Goal \in Unpacked /\ dpkg'.status = "half-configured"
              /\ dpkg'.version = dpkg.version /\ dpkg'.configured = dpkg.configured
              /\ UNCHANGED <<host, admin>>
    BY <1>5, RecordTaken
  <2>2. /\ host' = host \/ host' = [host EXCEPT !.defaults = "never", !.init = "none"]
        /\ admin' = admin \/ admin' = [admin EXCEPT !.disabled = FALSE]
        /\ Goal # "not-installed" => host' = host
    BY <2>1
  <2>3. host' \in Host /\ host'.files = host.files
    <3>1. host \in Host /\ "none" \in InitSystem
      BY DEF TypeOK, InitSystem
    <3>2. CASE host' = host
      BY <3>1, <3>2
    <3>3. CASE host' = [host EXCEPT !.defaults = "never", !.init = "none"]
      BY <3>1, <3>3 DEF Host
    <3> QED
      BY <2>2, <3>2, <3>3
  <2>4. admin' \in Decisions
    BY <2>2 DEF TypeOK, Decisions
  <2>5. host.files = None <=> Goal \in Gone
    BY <2>1 DEF Record
  <2>6. ~Still("unpack")' /\ ~Still("delete")'
    BY <2>1 DEF Still
  <2>7. dpkg'.status # "not-installed" => dpkg'.version = dpkg.version /\ dpkg.version \in Version
    BY <2>1, <2>5 DEF Record, Status, Gone, Unpacked
  <2>8. /\ dpkg'.status = "installed" => dpkg'.configured # None
        /\ dpkg'.status = "not-installed" => dpkg'.configured = None
    BY <2>1, <2>7, NoneAssumption
  <2>9. Record'
    BY <2>1, <2>2, <2>3, <2>4, <2>5, <2>6, <2>7, <2>8 DEF Record, Gone, Unpacked
  <2> QED
    BY <2>1, <2>2, <2>3, <2>4, <2>9, StepType DEF TypeOK
<1>6. CASE Beside
  <2>1. /\ Administer /\ UNCHANGED <<built, recorded, dpkg, skipped>>
        /\ host' \in Host /\ admin' \in Decisions /\ todo' = todo
        /\ host'.files = host.files /\ host'.init = host.init
    BY <1>6, AdministerTypes, AdministerKeepsFiles DEF Beside, TypeOK
  <2>2. Goal' = Goal /\ Clearing' = Clearing
    BY <2>1 DEF Goal, Clearing
  <2>5. \A i \in DOMAIN todo' : todo'[i] \in Fit(Goal, Clearing)'
    BY <2>1, <2>2, StillFits DEF Shape
  <2>3. Shape'
    BY <2>1, <2>2, <2>5 DEF Shape, Still, Rank, Steps, Doings, Words
  <2>4. Record'
    BY <2>1, <2>2 DEF Record, Still
  <2> QED
    BY <2>1, <2>3, <2>4, StepType DEF TypeOK
<1>7. Operator \/ Abort => Base'
  BY <1>2, OperatorBegins, AbortBegins
<1> QED
  BY <1>1, <1>3, <1>4, <1>5, <1>6, <1>7 DEF Next, DpkgStep

-----------------------------------------------------------------------------
(* What the administrator may change.                                        *)

(* The init system can start the service.                                    *)
MayStart(h) == CASE h.os = "systemd" -> HasUnit(h) /\ h.mask = "none"
                 [] h.os = "sysv"    -> Ships(h, "sysv-init") /\ h.rc = "on"
                 [] h.os = "upstart" -> Ships(h, "upstart.conf")

(* Starting the service by hand,                                             *)
LEMMA ServiceStarts ==
    ASSUME NEW h \in Host, NEW k, k = StartService(h)
    PROVE  /\ k \in Host /\ SameBeside(k, h)
           /\ k.logdir => h.logdir \/ h.account
           /\ k.running # h.running => h.running = None /\ MayStart(h)
           /\ h.os = "systemd" /\ h.loaded \in {None, h.files} =>
                 k.loaded \in {None, h.files} /\ k.running \in {h.running, h.files}
<1>1. k \in Host /\ SameBeside(k, h)
  BY Services, ServiceChanges
<1>2. CASE h.os = "systemd"
  <2>1. k = StartUnit(h)
    BY <1>2 DEF StartService
  <2>2. /\ k.logdir = h.logdir
        /\ k.running # h.running => h.running = None /\ h.mask = "none" /\ HasUnit(h)
    BY <2>1, StartUnitChanges
  <2>3. h.loaded \in {None, h.files} =>
           k.loaded \in {None, h.files} /\ k.running \in {h.running, h.files}
    BY <2>1, StartUnitReads
  <2> QED
    BY <1>1, <1>2, <2>2, <2>3 DEF MayStart
<1>3. CASE h.os = "sysv"
  <2>1. k = StartScript(h)
    BY <1>3 DEF StartService
  <2>2. CASE h.rc = "on" /\ h.running = None /\ Ships(h, "sysv-init") /\ h.account
    <3>1. MayStart(h)
      BY <1>3, <2>2 DEF MayStart
    <3> QED
      BY <1>1, <1>3, <2>2, <3>1
  <2>3. CASE ~(h.rc = "on" /\ h.running = None /\ Ships(h, "sysv-init") /\ h.account)
    <3>1. k = h
      BY <2>1, <2>3 DEF StartScript
    <3> QED
      BY <1>1, <1>3, <3>1
  <2> QED
    BY <2>2, <2>3
<1>4. CASE h.os = "upstart"
  <2>1. k = StartJob(h)
    BY <1>4 DEF StartService
  <2>2. \/ k = h
        \/ h.running = None /\ Ships(h, "upstart.conf") /\ k = [h EXCEPT !.running = h.files]
    BY <2>1 DEF StartJob
  <2>3. k.logdir = h.logdir
    BY <2>2 DEF Host
  <2>4. Ships(h, "upstart.conf") => MayStart(h)
    BY <1>4 DEF MayStart
  <2> QED
    BY <1>1, <1>4, <2>2, <2>3, <2>4
<1> QED
  BY <1>2, <1>3, <1>4 DEF Host

(* or the whole machine.                                                     *)
LEMMA BootStarts ==
    ASSUME NEW h \in Host, NEW k, k = Boot(h)
    PROVE  /\ k \in Host /\ SameBeside(k, h)
           /\ k.logdir => h.logdir \/ h.account
           /\ k.running # None => MayStart(h)
           /\ h.os = "systemd" => k.loaded \in {None, h.files} /\ k.running \in {None, h.files}
<1> DEFINE g == [Stop(h) EXCEPT !.logdir =
                   @ \/ (h.os = "systemd" /\ h.account /\ Ships(h, "tmpfiles.conf"))]
           fresh == Reload(g)
<1>1. g \in Host /\ SameBeside(g, h) /\ g.running = None
  BY DEF Host, Stop, SameBeside
<1>2. g.logdir => h.logdir \/ h.account
  BY DEF Host, Stop
<1>3. k = IF StartsAtBoot(h) THEN StartService(fresh) ELSE fresh
  BY DEF Boot
<1> HIDE DEF g
<1>4. /\ fresh \in Host /\ SameBeside(fresh, g) /\ fresh.running = None
      /\ fresh.logdir = g.logdir
      /\ g.os = "systemd" => fresh.loaded \in {None, g.files}
  BY <1>1, ReloadChanges
<1> HIDE DEF fresh
<1>5. SameBeside(fresh, h) /\ (fresh.logdir => h.logdir \/ h.account)
      /\ (h.os = "systemd" => fresh.loaded \in {None, h.files})
  BY <1>1, <1>2, <1>4 DEF SameBeside
<1>6. CASE k = fresh
  BY <1>4, <1>5, <1>6
<1>7. CASE k = StartService(fresh)
  <2>1. /\ k \in Host /\ SameBeside(k, fresh)
        /\ k.logdir => fresh.logdir \/ fresh.account
        /\ k.running # fresh.running => fresh.running = None /\ MayStart(fresh)
        /\ fresh.os = "systemd" /\ fresh.loaded \in {None, fresh.files} =>
              k.loaded \in {None, fresh.files} /\ k.running \in {fresh.running, fresh.files}
    BY <1>4, <1>7, ServiceStarts
  <2>2. MayStart(fresh) => MayStart(h)
    <3>1. /\ HasUnit(fresh) <=> HasUnit(h)
          /\ Ships(fresh, "sysv-init") <=> Ships(h, "sysv-init")
          /\ Ships(fresh, "upstart.conf") <=> Ships(h, "upstart.conf")
      BY <1>5, SameUnit
    <3>2. /\ fresh.os = h.os /\ fresh.mask = h.mask /\ fresh.rc = h.rc
          /\ h.os \in {"systemd", "sysv", "upstart"}
      BY <1>5 DEF SameBeside, Host
    <3> QED
      BY <3>1, <3>2 DEF MayStart
  <2>3. SameBeside(k, h)
    BY <1>5, <2>1 DEF SameBeside
  <2> QED
    BY <1>4, <1>5, <2>1, <2>2, <2>3 DEF SameBeside
<1> QED
  BY <1>3, <1>6, <1>7

(* On any init system, whoever decided what.                                 *)
LEMMA AdministerChanges ==
    ASSUME host \in Host, admin \in Decisions, Administer
    PROVE  /\ host'.account = host.account
           /\ host'.logdir => host.logdir \/ host.account
           /\ host'.mask \in {host.mask, "admin", "none"}
           /\ host'.enabled => host.enabled \/ HasUnit(host)
           /\ host.rc = "none" => host'.rc = "none"
           /\ host'.running \in {None, host.running} \/ (MayStart(host) /\ ~Removing)
           /\ host.os = "systemd" /\ host.loaded \in {None, host.files} =>
                 /\ host'.loaded \in {None, host.files}
                 /\ host'.running \in {None, host.running, host.files}
<1> USE DEF Host, Stop
<1>1. ASSUME NEW now \in BOOLEAN, Disable(now)
      PROVE  /\ host'.account = host.account /\ host'.logdir = host.logdir /\ host'.mask = host.mask
             /\ host'.enabled => host.enabled
             /\ host.rc # "none" \/ host'.rc = host.rc
             /\ host'.running \in {None, host.running} /\ host'.loaded = host.loaded
  BY <1>1 DEF Disable, Enabled
<1>2. ASSUME Enable
      PROVE  /\ host'.account = host.account /\ host'.logdir = host.logdir /\ host'.mask = host.mask
             /\ host'.enabled => host.enabled \/ HasUnit(host)
             /\ host.rc # "none" \/ host'.rc = host.rc
             /\ host'.running = host.running /\ host'.loaded = host.loaded
  BY <1>2 DEF Enable
<1>3. ASSUME StopByHand \/ Mask \/ Unmask \/ DeleteDefaults
      PROVE  /\ host'.account = host.account /\ host'.logdir = host.logdir
             /\ host'.mask \in {host.mask, "admin", "none"}
             /\ host'.enabled = host.enabled /\ host'.rc = host.rc
             /\ host'.running \in {None, host.running} /\ host'.loaded = host.loaded
  BY <1>3 DEF StopByHand, Mask, Unmask, DeleteDefaults
<1>4. ASSUME StartByHand
      PROVE  /\ SameBeside(host', host) /\ ~Removing
             /\ host'.logdir => host.logdir \/ host.account
             /\ host'.running \in {None, host.running} \/ MayStart(host)
             /\ host.os = "systemd" /\ host.loaded \in {None, host.files} =>
                   /\ host'.loaded \in {None, host.files}
                   /\ host'.running \in {host.running, host.files}
  <2>1. host' = StartService(host) /\ ~Removing
    BY <1>4 DEF StartByHand
  <2> QED
    BY <2>1, ServiceStarts
<1>5. ASSUME Reboot
      PROVE  /\ SameBeside(host', host) /\ ~Removing
             /\ host'.logdir => host.logdir \/ host.account
             /\ host'.running # None => MayStart(host)
             /\ host.os = "systemd" =>
                   host'.loaded \in {None, host.files} /\ host'.running \in {None, host.files}
  <2>1. host' = Boot(host) /\ ~Removing
    BY <1>5 DEF Reboot, Idle, Removing
  <2> QED
    BY <2>1, BootStarts
<1>6. CASE \E now \in BOOLEAN : Disable(now)
  BY <1>1, <1>6
<1>7. CASE StartByHand
  BY <1>4, <1>7 DEF SameBeside
<1>8. CASE Reboot
  BY <1>5, <1>8 DEF SameBeside
<1> QED
  BY <1>2, <1>3, <1>6, <1>7, <1>8 DEF Administer

(* What was decided stays so until it is decided otherwise.                  *)
LEMMA AdministerDecided ==
    ASSUME host \in Host, admin \in Decisions, Administer
    PROVE  /\ (admin.masked => host.mask = "admin") => (admin'.masked => host'.mask = "admin")
           /\ admin'.disabled =>
                 \/ admin.disabled /\ host'.enabled = host.enabled /\ host'.rc = host.rc
                 \/ /\ Enabled(host) /\ host.files # None
                    /\ IF host.os = "systemd" THEN ~host'.enabled ELSE host'.rc = "off"
           /\ admin'.disabled /\ admin'.off =>
                 \/ host'.running = None
                 \/ admin.disabled /\ admin.off /\ host'.running = host.running
<1> USE DEF Decisions
<1>1. ASSUME NEW now \in BOOLEAN, Disable(now)
      PROVE  /\ admin'.masked = admin.masked /\ host'.mask = host.mask
             /\ Enabled(host) /\ host.files # None
             /\ IF host.os = "systemd" THEN ~host'.enabled ELSE host'.rc = "off"
             /\ admin'.off => host'.running = None
  BY <1>1 DEF Disable, Does, Host, Stop
<1>2. ASSUME Enable PROVE admin'.masked = admin.masked /\ host'.mask = host.mask /\ ~admin'.disabled
  BY <1>2 DEF Enable, Host
<1>3. ASSUME StopByHand \/ Mask
      PROVE  /\ admin'.masked => (admin.masked /\ host'.mask = host.mask) \/ host'.mask = "admin"
             /\ admin'.disabled = admin.disabled /\ host'.enabled = host.enabled
             /\ host'.rc = host.rc /\ host'.running = None
  BY <1>3 DEF StopByHand, Mask, Host, Stop
<1>4. ASSUME Unmask \/ DeleteDefaults
      PROVE  /\ ~admin'.masked \/ (admin'.masked = admin.masked /\ host'.mask = host.mask)
             /\ admin'.disabled = admin.disabled /\ admin'.off = admin.off
             /\ host'.enabled = host.enabled
             /\ host'.rc = host.rc /\ host'.running = host.running
  BY <1>4 DEF Unmask, DeleteDefaults, Host
<1>5. ASSUME StartByHand \/ Reboot
      PROVE  /\ SameBeside(host', host) /\ admin'.masked = admin.masked
             /\ admin'.disabled = admin.disabled /\ (admin'.off => host'.running = None)
  <2>1. host' \in {StartService(host), Boot(host)} /\ admin' = SeenByHand(host')
    BY <1>5 DEF StartByHand, Reboot
  <2>2. SameBeside(host', host)
    BY <2>1, ServiceChanges
  <2>3. /\ admin'.masked = admin.masked /\ admin'.disabled = admin.disabled
        /\ admin'.off => host'.running = None
    BY <2>1 DEF SeenByHand, Seen
  <2> QED
    BY <2>2, <2>3
<1>6. CASE \E now \in BOOLEAN : Disable(now)
  BY <1>1, <1>6
<1>7. CASE StartByHand \/ Reboot
  BY <1>5, <1>7 DEF SameBeside
<1> QED
  BY <1>2, <1>3, <1>4, <1>6, <1>7 DEF Administer

-----------------------------------------------------------------------------
(* What the steps have in common.                                            *)

(* Any step is one of six kinds.                                             *)
LEMMA StepKinds ==
    ASSUME Base, [Next]_vars
    PROVE  \/ UNCHANGED vars \/ Begun \/ RunSnippet \/ UnpackFiles \/ DeleteFiles
           \/ SetStatus \/ ConfigureStops \/ Beside
  BY OperatorBegins, AbortBegins DEF Next, DpkgStep, Base

(* The administrator leaves dpkg alone.                                      *)
LEMMA BesideTaken ==
    ASSUME Base, Beside
    PROVE  /\ Administer /\ UNCHANGED <<built, recorded, dpkg, todo, skipped>>
           /\ Goal' = Goal /\ (Purging' <=> Purging) /\ \A d : Still(d)' <=> Still(d)
           /\ Clearing' = Clearing /\ Told' = Told
           /\ host' \in Host /\ host'.os = host.os /\ host'.files = host.files
           /\ host'.init = host.init
           /\ host.os = "systemd" /\ ~recorded => Enabled(host') = Enabled(host)
           /\ host \in Host /\ admin \in Decisions
<1>1. host \in Host /\ admin \in Decisions
  BY DEF Base, TypeOK
<1>2. /\ Administer /\ UNCHANGED <<built, recorded, dpkg, skipped>>
      /\ host.os = "systemd" /\ ~recorded => Enabled(host') = Enabled(host)
  BY DEF Beside
<1>3. /\ host' \in Host /\ todo' = todo
      /\ host'.os = host.os /\ host'.files = host.files /\ host'.init = host.init
  BY <1>1, <1>2, AdministerTypes, AdministerKeepsFiles
<1>4. /\ Goal' = Goal /\ Clearing' = Clearing /\ Told' = Told
      /\ \A d : Still(d)' <=> Still(d)
  BY <1>2, <1>3 DEF Goal, Clearing, Told, Still
<1>5. Purging' <=> Purging
  BY <1>3, <1>4 DEF Purging
<1> QED
  BY <1>1, <1>2, <1>3, <1>4, <1>5

(* What the files of a version that is there ship.                           *)
LEMMA FilesShip ==
    ASSUME Base, host.files # None
    PROVE  /\ host.files \in Version /\ host.init = built[host.files]
           /\ HasUnit(host) <=> Uses("systemd", built[host.files])
           /\ Ships(host, "sysv-init") <=> Uses("sysv", built[host.files])
           /\ Ships(host, "upstart.conf") <=> built[host.files] = "upstart"
<1>1. host \in Host /\ host.files \in Version /\ host.init = built[host.files]
  BY DEF Base, TypeOK, Record, Host
<1> QED
  BY <1>1, Shipped DEF Uses

(* Files that are not there ship nothing.                                    *)
LEMMA NoFilesShip ==
    ASSUME host.files = None
    PROVE  ~HasUnit(host) /\ \A t : ~Ships(host, t)
  BY DEF HasUnit, Ships

(* The later scripts run when the files are as they will be.                 *)
LEMMA AfterFiles ==
    ASSUME Base, NEW d \in Ahead(todo), \A e \in Ahead(todo) \ {d} : Rank[d] < Rank[e],
           d \in PostinstDoings \cup PostrmDoings
    PROVE  /\ ~Still("unpack") /\ ~Still("delete")
           /\ host.files = None <=> Goal \in Gone
<1>1. d \in Doings /\ d \notin {"unpack", "delete"} /\ Rank[d] >= 6 /\ Rank[d] \in Nat
  BY RankBounds, RankValues DEF Doings, PostinstDoings, PostrmDoings
<1>2. ~Still("unpack") /\ ~Still("delete")
  <2>1. ASSUME NEW e \in {"unpack", "delete"}, e \in Ahead(todo) PROVE FALSE
    <3>1. Rank[d] < Rank[e]
      BY <1>1, <2>1
    <3>2. Rank[e] \in {4, 5}
      BY RankValues
    <3> QED
      BY <1>1, <3>1, <3>2
  <2> QED
    BY <2>1 DEF Still
<1> QED
  BY <1>2 DEF Base, Record

-----------------------------------------------------------------------------
(* The administrator's decisions.                                            *)

(* No step of dpkg's, and no other decision, overrules one.                  *)
LEMMA DecidedStep ==
    ASSUME Base, Decided, [Next]_vars
    PROVE  Decided'
<1> USE DEF Decided
<1>1. CASE UNCHANGED vars
  BY <1>1 DEF vars, SameInit, WithoutScript, Purging, Goal
<1>2. CASE Begun
  BY <1>2 DEF Begun, SameInit, WithoutScript, Purging
<1>3. CASE RunSnippet
  <2> DEFINE t == Head(todo)
             d == t.do
             a == t.arg
  <2>1. /\ Keeps(d, a, t.second, host', recorded') /\ admin' = Seen(host')
        /\ UNCHANGED <<built, dpkg>> /\ Goal' = Goal /\ todo # <<>> /\ todo' # <<>>
        /\ t \in Fit(Goal, Clearing) /\ d \in Ahead(todo)
    BY <1>3, SnippetTaken DEF Base
  <2> HIDE DEF t
  <2>2. /\ admin'.disabled = admin.disabled /\ admin'.masked = admin.masked
        /\ admin'.off = admin.off
    BY <2>1, SeenDecides DEF Base, TypeOK
  <2>3. (SameInit' <=> SameInit) /\ (WithoutScript' <=> WithoutScript) /\ (Purging' <=> Purging)
    BY <2>1 DEF SameInit, WithoutScript, Purging
  <2>4. /\ d \in PostinstDoings => Goal # "not-installed"
        /\ d = "postrm-systemd" /\ a = "purge" => Goal = "not-installed"
        /\ d = "postrm-sysv" /\ a = "purge" => Goal = "not-installed"
    BY <2>1 DEF Fit, PostrmDoings, Unpacked
  <2>5. admin'.masked => host'.mask = "admin"
    BY <2>1, <2>2 DEF Keeps
  <2>6. host'.os = host.os /\ host'.files = host.files
    BY <2>1 DEF Keeps, SameFiles
  <2>7. admin.disabled /\ host.os = "systemd" => ~host'.enabled /\ (recorded' \/ Purging')
    <3>1. ASSUME admin.disabled, host.os = "systemd"
          PROVE  ~host'.enabled /\ (recorded' \/ Purging)
      <4>1. ~host.enabled /\ (recorded \/ Purging)
        BY <3>1
      <4>2. host'.enabled => d = "postinst-systemd-enable" /\ ~recorded
        BY <2>1, <4>1 DEF Keeps
      <4>3. recorded => recorded' \/ (d = "postrm-systemd" /\ a = "purge")
        BY <2>1 DEF Keeps
      <4> QED
        BY <2>1, <2>4, <4>1, <4>2, <4>3 DEF PostinstDoings, Purging
    <3> QED
      BY <2>3, <3>1
  <2>8. admin.disabled /\ host.os # "systemd" =>
           host'.rc # "on" /\ (host'.rc = "none" => Purging') /\ ~WithoutScript
    <3>1. ASSUME admin.disabled, host.os # "systemd"
          PROVE  host'.rc # "on" /\ (host'.rc = "none" => Purging)
      <4>1. host.rc # "on" /\ (host.rc = "none" => Purging)
        BY <3>1
      <4>2. \/ host'.rc = "none" /\ d = "postrm-sysv" /\ a = "purge"
            \/ host'.rc = host.rc
            \/ host.rc = "none" /\ d = "postinst-sysv"
        BY <2>1 DEF Keeps
      <4> QED
        BY <2>1, <2>4, <4>1, <4>2 DEF PostinstDoings, Purging
    <3> QED
      BY <2>3, <3>1
  <2>9. SameInit /\ admin.disabled /\ admin.off => host'.running = None
    <3>1. ASSUME SameInit, admin.disabled, host.running = None, host'.running # None PROVE FALSE
      <4>1. \/ host.os = "systemd" /\ host.enabled
            \/ host.os # "systemd" /\ host'.rc = "on"
            \/ host.os = "upstart" /\ Ships(host, "upstart.conf")
        BY <2>1, <3>1 DEF Keeps
      <4>2. CASE host.os = "upstart" /\ Ships(host, "upstart.conf")
        <5>1. host.files # None
          BY <4>2, NoFilesShip
        <5>2. host.files \in Version /\ built[host.files] = "upstart"
          BY <4>2, <5>1, FilesShip
        <5>3. \A v \in Version : built[v] = "upstart"
          BY <3>1, <5>2 DEF SameInit
        <5>4. WithoutScript
          BY <5>3 DEF WithoutScript, Uses
        <5> QED
          BY <3>1, <4>2, <5>4
      <4> QED
        BY <2>8, <3>1, <4>1, <4>2
    <3> QED
      BY <3>1
  <2> QED
    BY <2>1, <2>2, <2>3, <2>5, <2>6, <2>7, <2>8, <2>9
<1>4. CASE UnpackFiles \/ DeleteFiles
  <2>1. /\ UNCHANGED <<built, recorded, admin>> /\ dpkg'.status = dpkg.status
        /\ Goal' = Goal /\ todo # <<>> /\ todo' # <<>>
        /\ host'.os = host.os /\ host'.running = host.running
        /\ host'.enabled = host.enabled /\ host'.rc = host.rc /\ host'.mask = host.mask
        /\ host'.files = None => dpkg.status # "not-installed"
    BY <1>4, FilesTaken, NoneAssumption DEF Base, Shape, Unpacked
  <2> QED
    BY <2>1 DEF SameInit, WithoutScript, Purging
<1>5. CASE SetStatus \/ ConfigureStops
  <2>1. /\ UNCHANGED <<built, recorded>> /\ todo # <<>>
        /\ \/ Goal # "not-installed" /\ dpkg'.status # "not-installed" /\ UNCHANGED <<host, admin>>
           \/ /\ host' = [host EXCEPT !.defaults = "never", !.init = "none"]
              /\ admin' = [admin EXCEPT !.disabled = FALSE]
    BY <1>5, RecordTaken DEF Base, Unpacked
  <2>2. CASE Goal # "not-installed" /\ dpkg'.status # "not-installed" /\ UNCHANGED <<host, admin>>
    BY <2>1, <2>2 DEF SameInit, WithoutScript, Purging
  <2>3. CASE /\ host' = [host EXCEPT !.defaults = "never", !.init = "none"]
             /\ admin' = [admin EXCEPT !.disabled = FALSE]
    <3>1. host'.mask = host.mask /\ admin'.masked = admin.masked /\ ~admin'.disabled
      BY <2>3 DEF Base, TypeOK, Host, Decisions
    <3> QED
      BY <3>1
  <2> QED
    BY <2>1, <2>2, <2>3
<1>6. CASE Beside
  <2>1. /\ Administer /\ UNCHANGED <<built, recorded, dpkg, todo>>
        /\ Purging' <=> Purging
        /\ host'.os = host.os /\ host'.files = host.files /\ host'.init = host.init
        /\ host.os = "systemd" /\ ~recorded => Enabled(host') = Enabled(host)
        /\ host \in Host /\ admin \in Decisions
    BY <1>6, BesideTaken
  <2>2. /\ (admin.masked => host.mask = "admin") => (admin'.masked => host'.mask = "admin")
        /\ admin'.disabled =>
              \/ admin.disabled /\ host'.enabled = host.enabled /\ host'.rc = host.rc
              \/ /\ Enabled(host) /\ host.files # None
                 /\ IF host.os = "systemd" THEN ~host'.enabled ELSE host'.rc = "off"
        /\ admin'.disabled /\ admin'.off =>
              \/ host'.running = None
              \/ admin.disabled /\ admin.off /\ host'.running = host.running
    BY <2>1, AdministerDecided
  <2>3. (SameInit' <=> SameInit) /\ (WithoutScript' <=> WithoutScript)
    BY <2>1 DEF SameInit, WithoutScript
  <2>4. host.os = "systemd" /\ Enabled(host) /\ ~host'.enabled => recorded
    BY <2>1 DEF Enabled
  <2>5. host.os # "systemd" /\ Enabled(host) => ~WithoutScript
    <3>1. ASSUME host.os # "systemd", Enabled(host) PROVE ~WithoutScript
      <4>1. Ships(host, "sysv-init") /\ host.files # None
        BY <3>1, NoFilesShip DEF Enabled
      <4> QED
        BY <4>1, FilesShip DEF WithoutScript
    <3> QED
      BY <3>1
  <2> QED
    BY <2>1, <2>2, <2>3, <2>4, <2>5
<1> QED
  BY <1>1, <1>2, <1>3, <1>4, <1>5, <1>6, StepKinds

-----------------------------------------------------------------------------
(* What a purge forgets.                                                     *)

(* What is forgotten has no files.                                           *)
LEMMA ForgottenFiles ==
    ASSUME Base, NEW d, Forgotten(d)
    PROVE  host.files = None
<1>1. CASE Goal = "not-installed"
  <2>1. ~Still("unpack") /\ ~Still("delete")
    BY <1>1, Aims DEF Base, Still
  <2> QED
    BY <1>1, <2>1 DEF Base, Record, Gone
<1> QED
  BY <1>1 DEF Forgotten

(* Only the snippet that forgets, called to purge, makes it forgotten.       *)
LEMMA ForgottenStep ==
    ASSUME Base, NEW d \in PostrmDoings, Forgotten(d)'
    PROVE  /\ RunSnippet => LET t == Head(todo) IN
                 Forgotten(d) \/ (t.do = d /\ t.arg = "purge" /\ Goal = "not-installed")
           /\ UnpackFiles \/ DeleteFiles => FALSE
           /\ SetStatus \/ ConfigureStops \/ Beside => Forgotten(d)
           /\ Begun => Forgotten(d) \/ (Goal' = "not-installed" /\ d \notin Ahead(todo'))
<1>1. ASSUME RunSnippet
      PROVE  LET t == Head(todo) IN
                 Forgotten(d) \/ (t.do = d /\ t.arg = "purge" /\ Goal = "not-installed")
  <2> DEFINE t == Head(todo)
  <2>1. /\ Keeps(t.do, t.arg, t.second, host', recorded')
        /\ UNCHANGED dpkg /\ Goal' = Goal /\ t \in Fit(Goal, Clearing)
        /\ Ahead(todo') = Ahead(todo) \ {t.do}
    BY <1>1, SnippetTaken DEF Base
  <2> HIDE DEF t
  <2>2. host'.files = host.files
    BY <2>1 DEF Keeps, SameFiles
  <2>3. CASE Goal = "not-installed" /\ d \in Ahead(todo) /\ t.do = d
    <3>1. host.files = None
      <4>1. ~Still("unpack") /\ ~Still("delete")
        BY <2>3, Aims DEF Base, Still
      <4> QED
        BY <2>3, <4>1 DEF Base, Record, Gone
    <3>2. t.arg = "purge" \/ dpkg.status = "not-installed"
      BY <2>1, <2>3 DEF Fit
    <3> QED
      BY <2>3, <3>1, <3>2 DEF Forgotten, t
  <2>4. CASE ~(Goal = "not-installed" /\ d \in Ahead(todo) /\ t.do = d)
    <3>1. Forgotten(d)
      BY <2>1, <2>2, <2>4 DEF Forgotten, Still
    <3> QED
      BY <3>1
  <2> QED
    BY <2>3, <2>4
<1>2. ASSUME UnpackFiles \/ DeleteFiles PROVE FALSE
  <2>1. /\ dpkg'.status = dpkg.status /\ Goal' = Goal
        /\ Goal \in {"installed", "config-files"}
        /\ host'.files = None => dpkg.status # "not-installed"
    BY <1>2, FilesTaken, NoneAssumption DEF Base, Shape, Unpacked
  <2> QED
    BY <2>1 DEF Forgotten
<1>3. ASSUME SetStatus \/ ConfigureStops PROVE Forgotten(d)
  <2>1. /\ Goal' = dpkg'.status
        /\ \/ Goal = dpkg'.status /\ Goal # "not-installed"
           \/ /\ Goal = "not-installed"
              /\ \A e \in Ahead(todo) : e \in {"status", "deconfigured"}
           \/ dpkg'.status = "half-configured"
    BY <1>3, RecordTaken DEF Base
  <2>2. d \notin {"status", "deconfigured"}
    BY DEF PostrmDoings
  <2> QED
    BY <2>1, <2>2 DEF Forgotten, Still
<1>4. ASSUME Beside PROVE Forgotten(d)
  <2>1. UNCHANGED dpkg /\ Goal' = Goal /\ (Still(d)' <=> Still(d)) /\ host'.files = host.files
    BY <1>4, BesideTaken
  <2> QED
    BY <2>1 DEF Forgotten
<1>5. ASSUME Begun PROVE Forgotten(d) \/ (Goal' = "not-installed" /\ d \notin Ahead(todo'))
  BY <1>5 DEF Begun, Forgotten, Still
<1> QED
  BY <1>1, <1>2, <1>3, <1>4, <1>5

(* Nothing of the steps to be taken appears by itself.                       *)
LEMMA AheadStep ==
    ASSUME Base, NEW d \in Ahead(todo'),
           RunSnippet \/ UnpackFiles \/ DeleteFiles \/ SetStatus \/ ConfigureStops \/ Beside
    PROVE  d \in Ahead(todo)
<1>1. CASE RunSnippet
  BY <1>1, SnippetTaken DEF Base
<1>2. CASE UnpackFiles \/ DeleteFiles
  BY <1>2, FilesTaken DEF Base
<1>3. CASE SetStatus \/ ConfigureStops
  BY <1>3, RecordTaken DEF Base
<1>4. CASE Beside
  BY <1>4, BesideTaken
<1> QED
  BY <1>1, <1>2, <1>3, <1>4

(* A postinst snippet runs where there are files.                            *)
LEMMA PostinstHasFiles ==
    ASSUME Base, RunSnippet, NEW t, t = Head(todo), t.do \in PostinstDoings
    PROVE  host.files # None /\ Goal \in Unpacked /\ ~Still("unpack") /\ ~Still("delete")
<1>1. /\ t.do \in Ahead(todo) /\ t \in Fit(Goal, Clearing)
      /\ \A e \in Ahead(todo) \ {t.do} : Rank[t.do] < Rank[e]
  BY SnippetTaken DEF Base
<1>2. Goal \in Unpacked
  BY <1>1 DEF Fit
<1> QED
  BY <1>1, <1>2, AfterFiles DEF Gone, Unpacked

(* The unit's links, mask and record.                                        *)
LEMMA LinksStep ==
    ASSUME Base, WithUnit \/ WithoutUnit, Links, [Next]_vars
    PROVE  Links'
<1> USE DEF Links
<1> DEFINE Clean == ~recorded /\ ~host.enabled /\ host.mask # "own"
<1>1. CASE UNCHANGED vars
  BY <1>1 DEF vars, WithoutUnit, Forgotten, Goal, Still
<1>2. CASE Begun
  <2>1. /\ UNCHANGED <<built, host, recorded>> /\ Operation(Ahead(todo'), Goal')
        /\ WithoutUnit' <=> WithoutUnit
    BY <1>2 DEF Begun, WithoutUnit
  <2>2. WithoutUnit => "postrm-systemd" \notin Ahead(todo')
    <3>1. ASSUME NEW v \in Version,
                 "postrm-systemd" \in PostinstActs(built[v]) \cup PrermActs(built[v])
                                      \cup PostrmActs(built[v])
          PROVE  Uses("systemd", built[v])
      BY <3>1, ActKinds DEF PostrmActs, IfSo, PostinstDoings, PrermDoings
    <3> QED
      BY <2>1, <3>1 DEF Operation, WithoutUnit, DpkgSteps
  <2>3. WithUnit /\ Goal' = "not-installed" => "postrm-systemd" \in Ahead(todo')
    BY <2>1 DEF Operation, WithUnit, PostrmActs, IfSo
  <2>4. Forgotten("postrm-systemd")' /\ WithUnit => Forgotten("postrm-systemd")
    BY <1>2, <2>3, ForgottenStep DEF PostrmDoings
  <2> QED
    BY <2>1, <2>2, <2>4 DEF Still
<1>3. CASE RunSnippet
  <2> DEFINE t == Head(todo)
             d == t.do
             a == t.arg
  <2>1. /\ Keeps(d, a, t.second, host', recorded') /\ UNCHANGED built
        /\ t \in Fit(Goal, Clearing) /\ d \in Ahead(todo) /\ Goal' = Goal
    BY <1>3, SnippetTaken DEF Base
  <2>2. d \in PostinstDoings => host.files # None
    BY <1>3, PostinstHasFiles
  <2>3. Forgotten("postrm-systemd")' =>
           Forgotten("postrm-systemd") \/ (d = "postrm-systemd" /\ a = "purge")
    BY <1>3, ForgottenStep DEF PostrmDoings
  <2>4. (WithoutUnit' <=> WithoutUnit)
        /\ ("postrm-systemd" \in Ahead(todo') => "postrm-systemd" \in Ahead(todo))
    BY <1>3, <2>1, AheadStep DEF WithoutUnit
  <2> HIDE DEF t
  <2>5. WithoutUnit => ~HasUnit(host)
    BY NoFilesShip, FilesShip DEF WithoutUnit
  <2>6. Forgotten("postrm-systemd") => host.files = None /\ ~HasUnit(host)
    BY ForgottenFiles, NoFilesShip
  <2>7. d = "postrm-systemd" /\ a = "remove" => ~WithoutUnit /\ ~Forgotten("postrm-systemd")
    <3>1. ASSUME d = "postrm-systemd", a = "remove" PROVE ~Forgotten("postrm-systemd")
      <4>1. Goal = "config-files"
        BY <2>1, <3>1 DEF Fit, PostrmDoings
      <4>2. dpkg.status # "not-installed"
        BY <4>1 DEF Base, Record
      <4> QED
        BY <4>1, <4>2 DEF Forgotten
    <3> QED
      BY <2>1, <3>1 DEF Still
  <2>8. WithoutUnit \/ Forgotten("postrm-systemd") => Clean'
    <3>1. ASSUME WithoutUnit \/ Forgotten("postrm-systemd") PROVE Clean'
      <4>1. Clean /\ ~HasUnit(host) /\ ~(d = "postrm-systemd" /\ a = "remove")
        BY <2>5, <2>6, <2>7, <3>1
      <4>2. host'.enabled => FALSE
        BY <2>1, <4>1 DEF Keeps
      <4>3. recorded' => FALSE
        BY <2>1, <4>1 DEF Keeps
      <4>4. host'.mask # "own"
        BY <2>1, <4>1 DEF Keeps
      <4> QED
        BY <4>2, <4>3, <4>4
    <3> QED
      BY <3>1
  <2>9. d = "postrm-systemd" /\ a = "purge" => Clean'
    BY <2>1 DEF Keeps
  <2> QED
    BY <2>3, <2>4, <2>8, <2>9 DEF Still
<1>4. CASE UnpackFiles \/ DeleteFiles
  <2>1. /\ UNCHANGED <<built, recorded>>
        /\ host'.enabled = host.enabled /\ host'.mask = host.mask
    BY <1>4, FilesTaken DEF Base
  <2>2. /\ ~Forgotten("postrm-systemd")'
        /\ "postrm-systemd" \in Ahead(todo') => "postrm-systemd" \in Ahead(todo)
    BY <1>4, ForgottenStep, AheadStep DEF PostrmDoings
  <2> QED
    BY <2>1, <2>2 DEF WithoutUnit, Still
<1>5. CASE SetStatus \/ ConfigureStops
  <2>1. /\ UNCHANGED <<built, recorded>>
        /\ host' = host \/ host' = [host EXCEPT !.defaults = "never", !.init = "none"]
    BY <1>5, RecordTaken DEF Base
  <2>2. host'.enabled = host.enabled /\ host'.mask = host.mask
    BY <2>1 DEF Base, TypeOK, Host
  <2>3. /\ Forgotten("postrm-systemd")' => Forgotten("postrm-systemd")
        /\ "postrm-systemd" \in Ahead(todo') => "postrm-systemd" \in Ahead(todo)
    BY <1>5, ForgottenStep, AheadStep DEF PostrmDoings
  <2> QED
    BY <2>1, <2>2, <2>3 DEF WithoutUnit, Still
<1>6. CASE Beside
  <2>1. /\ Administer /\ UNCHANGED <<built, recorded>> /\ host \in Host /\ admin \in Decisions
    BY <1>6, BesideTaken
  <2>2. /\ host'.mask \in {host.mask, "admin", "none"}
        /\ host'.enabled => host.enabled \/ HasUnit(host)
    BY <2>1, AdministerChanges
  <2>3. /\ Forgotten("postrm-systemd")' => Forgotten("postrm-systemd")
        /\ "postrm-systemd" \in Ahead(todo') => "postrm-systemd" \in Ahead(todo)
    BY <1>6, ForgottenStep, AheadStep DEF PostrmDoings
  <2>4. WithoutUnit \/ Forgotten("postrm-systemd") => ~HasUnit(host)
    BY ForgottenFiles, NoFilesShip, FilesShip DEF WithoutUnit
  <2>5. WithoutUnit' <=> WithoutUnit
    BY <2>1 DEF WithoutUnit
  <2> QED
    BY <2>1, <2>2, <2>3, <2>4, <2>5 DEF Still
<1> QED
  BY <1>1, <1>2, <1>3, <1>4, <1>5, <1>6, StepKinds

(* The runlevel links.                                                       *)
LEMMA RunLevelsStep ==
    ASSUME Base, WithScript \/ WithoutScript, RunLevels, [Next]_vars
    PROVE  RunLevels'
<1> USE DEF RunLevels
<1>1. CASE UNCHANGED vars
  BY <1>1 DEF vars, WithoutScript, Forgotten, Goal, Still
<1>2. CASE Begun
  <2>1. /\ UNCHANGED <<built, host>> /\ Operation(Ahead(todo'), Goal')
        /\ WithoutScript' <=> WithoutScript
    BY <1>2 DEF Begun, WithoutScript
  <2>2. WithoutScript => "postinst-sysv" \notin Ahead(todo')
    <3>1. ASSUME NEW v \in Version,
                 "postinst-sysv" \in PostinstActs(built[v]) \cup PrermActs(built[v])
                                     \cup PostrmActs(built[v])
          PROVE  Uses("sysv", built[v])
      BY <3>1, ActKinds DEF PostinstActs, IfSo, PostrmDoings, PrermDoings
    <3> QED
      BY <2>1, <3>1 DEF Operation, WithoutScript, DpkgSteps
  <2>3. WithScript /\ Goal' = "not-installed" => "postrm-sysv" \in Ahead(todo')
    BY <2>1 DEF Operation, WithScript, PostrmActs, IfSo
  <2>4. Forgotten("postrm-sysv")' /\ WithScript => Forgotten("postrm-sysv")
    BY <1>2, <2>3, ForgottenStep DEF PostrmDoings
  <2> QED
    BY <2>1, <2>2, <2>4 DEF Still
<1>3. CASE RunSnippet
  <2> DEFINE t == Head(todo)
             d == t.do
             a == t.arg
  <2>1. Keeps(d, a, t.second, host', recorded') /\ UNCHANGED built /\ d \in Ahead(todo)
    BY <1>3, SnippetTaken DEF Base
  <2>2. d \in PostinstDoings => host.files # None
    BY <1>3, PostinstHasFiles
  <2>3. Forgotten("postrm-sysv")' => Forgotten("postrm-sysv") \/ (d = "postrm-sysv" /\ a = "purge")
    BY <1>3, ForgottenStep DEF PostrmDoings
  <2>4. (WithoutScript' <=> WithoutScript)
        /\ ("postinst-sysv" \in Ahead(todo') => "postinst-sysv" \in Ahead(todo))
    BY <1>3, <2>1, AheadStep DEF WithoutScript
  <2> HIDE DEF t
  <2>5. WithoutScript \/ Forgotten("postrm-sysv") => d # "postinst-sysv"
    BY <2>1, <2>2, ForgottenFiles DEF PostinstDoings, Still
  <2>6. /\ WithoutScript \/ Forgotten("postrm-sysv") => host'.rc = "none"
        /\ d = "postrm-sysv" /\ a = "purge" => host'.rc = "none"
    BY <2>1, <2>5 DEF Keeps
  <2> QED
    BY <2>3, <2>4, <2>6 DEF Still
<1>4. CASE UnpackFiles \/ DeleteFiles
  <2>1. UNCHANGED built /\ host'.rc = host.rc
    BY <1>4, FilesTaken DEF Base
  <2>2. /\ ~Forgotten("postrm-sysv")'
        /\ "postinst-sysv" \in Ahead(todo') => "postinst-sysv" \in Ahead(todo)
    BY <1>4, ForgottenStep, AheadStep DEF PostrmDoings
  <2> QED
    BY <2>1, <2>2 DEF WithoutScript, Still
<1>5. CASE SetStatus \/ ConfigureStops
  <2>1. /\ UNCHANGED built
        /\ host' = host \/ host' = [host EXCEPT !.defaults = "never", !.init = "none"]
    BY <1>5, RecordTaken DEF Base
  <2>2. host'.rc = host.rc
    BY <2>1 DEF Base, TypeOK, Host
  <2>3. /\ Forgotten("postrm-sysv")' => Forgotten("postrm-sysv")
        /\ "postinst-sysv" \in Ahead(todo') => "postinst-sysv" \in Ahead(todo)
    BY <1>5, ForgottenStep, AheadStep DEF PostrmDoings
  <2> QED
    BY <2>1, <2>2, <2>3 DEF WithoutScript, Still
<1>6. CASE Beside
  <2>1. /\ Administer /\ UNCHANGED built /\ host \in Host /\ admin \in Decisions
    BY <1>6, BesideTaken
  <2>2. host.rc = "none" => host'.rc = "none"
    BY <2>1, AdministerChanges
  <2>3. /\ Forgotten("postrm-sysv")' => Forgotten("postrm-sysv")
        /\ "postinst-sysv" \in Ahead(todo') => "postinst-sysv" \in Ahead(todo)
    BY <1>6, ForgottenStep, AheadStep DEF PostrmDoings
  <2> QED
    BY <2>1, <2>2, <2>3 DEF WithoutScript, Still
<1> QED
  BY <1>1, <1>2, <1>3, <1>4, <1>5, <1>6, StepKinds

(* The account and its directory.                                            *)
LEMMA AccountStep ==
    ASSUME Base, WithService \/ WithoutService, Account, [Next]_vars
    PROVE  Account'
<1> USE DEF Account
<1>1. CASE UNCHANGED vars
  BY <1>1 DEF vars, WithoutService, Forgotten, Goal, Still
<1>2. CASE Begun
  <2>1. /\ UNCHANGED <<built, host>> /\ Operation(Ahead(todo'), Goal')
        /\ WithoutService' <=> WithoutService
    BY <1>2 DEF Begun, WithoutService
  <2>2. WithoutService => "postinst-account" \notin Ahead(todo')
    <3>1. ASSUME NEW v \in Version,
                 "postinst-account" \in PostinstActs(built[v]) \cup PrermActs(built[v])
                                        \cup PostrmActs(built[v])
          PROVE  built[v] # "none"
      BY <3>1, ActKinds DEF PostinstActs, IfSo, PostrmDoings, PrermDoings
    <3> QED
      BY <2>1, <3>1 DEF Operation, WithoutService, DpkgSteps
  <2>3. WithService /\ Goal' = "not-installed" => "postrm-purge" \in Ahead(todo')
    BY <2>1 DEF Operation, WithService, PostrmActs, IfSo
  <2>4. Forgotten("postrm-purge")' /\ WithService => Forgotten("postrm-purge")
    BY <1>2, <2>3, ForgottenStep DEF PostrmDoings
  <2> QED
    BY <2>1, <2>2, <2>4 DEF Still
<1>3. CASE RunSnippet
  <2> DEFINE t == Head(todo)
             d == t.do
             a == t.arg
  <2>1. Keeps(d, a, t.second, host', recorded') /\ UNCHANGED built /\ d \in Ahead(todo)
    BY <1>3, SnippetTaken DEF Base
  <2>2. d \in PostinstDoings => host.files # None
    BY <1>3, PostinstHasFiles
  <2>3. Forgotten("postrm-purge")' =>
           Forgotten("postrm-purge") \/ (d = "postrm-purge" /\ a = "purge")
    BY <1>3, ForgottenStep DEF PostrmDoings
  <2>4. (WithoutService' <=> WithoutService)
        /\ ("postinst-account" \in Ahead(todo') => "postinst-account" \in Ahead(todo))
    BY <1>3, <2>1, AheadStep DEF WithoutService
  <2> HIDE DEF t
  <2>5. WithoutService \/ Forgotten("postrm-purge") => d # "postinst-account"
    BY <2>1, <2>2, ForgottenFiles DEF PostinstDoings, Still
  <2>6. /\ WithoutService \/ Forgotten("postrm-purge") => ~host'.account /\ ~host'.logdir
        /\ d = "postrm-purge" /\ a = "purge" => ~host'.account /\ ~host'.logdir
    BY <2>1, <2>5 DEF Keeps
  <2> QED
    BY <2>3, <2>4, <2>6 DEF Still
<1>4. CASE UnpackFiles \/ DeleteFiles
  <2>1. UNCHANGED built /\ host'.account = host.account /\ host'.logdir = host.logdir
    BY <1>4, FilesTaken DEF Base
  <2>2. /\ ~Forgotten("postrm-purge")'
        /\ "postinst-account" \in Ahead(todo') => "postinst-account" \in Ahead(todo)
    BY <1>4, ForgottenStep, AheadStep DEF PostrmDoings
  <2> QED
    BY <2>1, <2>2 DEF WithoutService, Still
<1>5. CASE SetStatus \/ ConfigureStops
  <2>1. /\ UNCHANGED built
        /\ host' = host \/ host' = [host EXCEPT !.defaults = "never", !.init = "none"]
    BY <1>5, RecordTaken DEF Base
  <2>2. host'.account = host.account /\ host'.logdir = host.logdir
    BY <2>1 DEF Base, TypeOK, Host
  <2>3. /\ Forgotten("postrm-purge")' => Forgotten("postrm-purge")
        /\ "postinst-account" \in Ahead(todo') => "postinst-account" \in Ahead(todo)
    BY <1>5, ForgottenStep, AheadStep DEF PostrmDoings
  <2> QED
    BY <2>1, <2>2, <2>3 DEF WithoutService, Still
<1>6. CASE Beside
  <2>1. /\ Administer /\ UNCHANGED built /\ host \in Host /\ admin \in Decisions
    BY <1>6, BesideTaken
  <2>2. host'.account = host.account /\ (host'.logdir => host.logdir \/ host.account)
    BY <2>1, AdministerChanges
  <2>3. /\ Forgotten("postrm-purge")' => Forgotten("postrm-purge")
        /\ "postinst-account" \in Ahead(todo') => "postinst-account" \in Ahead(todo)
    BY <1>6, ForgottenStep, AheadStep DEF PostrmDoings
  <2> QED
    BY <2>1, <2>2, <2>3 DEF WithoutService, Still
<1> QED
  BY <1>1, <1>2, <1>3, <1>4, <1>5, <1>6, StepKinds

-----------------------------------------------------------------------------
(* Starting and stopping.                                                    *)

(* Only a service that the machine can run is ever started, and only while   *)
(* its files are there to stay.                                              *)
LEMMA StartStep ==
    ASSUME Base, [Next]_vars, host.running = None, host'.running # None
    PROVE  /\ ~NotRunnable
           /\ host.files # None /\ host'.files = host.files /\ ~Still("delete")
<1>1. ASSUME \/ host.os = "systemd" /\ HasUnit(host)
             \/ host.os # "systemd" /\ Ships(host, "sysv-init")
             \/ host.os = "upstart" /\ Ships(host, "upstart.conf")
      PROVE  ~NotRunnable /\ host.files # None
  <2>1. host.files # None
    BY <1>1, NoFilesShip
  <2> QED
    BY <1>1, <2>1, FilesShip DEF NotRunnable, CanRun
<1>2. CASE RunSnippet
  <2> DEFINE t == Head(todo)
             d == t.do
  <2>1. Keeps(d, t.arg, t.second, host', recorded')
    BY <1>2, SnippetTaken DEF Base
  <2>2. d \in PostinstDoings => ~Still("delete")
    BY <1>2, PostinstHasFiles
  <2> HIDE DEF t
  <2>3. host'.files = host.files
    BY <2>1 DEF Keeps, SameFiles
  <2>4. \/ d = "postinst-systemd-restart" /\ host.os = "systemd" /\ HasUnit(host)
        \/ d = "postinst-sysv" /\ host.os # "systemd" /\ Ships(host, "sysv-init")
        \/ d = "postinst-upstart" /\ host.os = "upstart" /\ Ships(host, "upstart.conf")
    BY <2>1 DEF Keeps
  <2> QED
    BY <1>1, <2>2, <2>3, <2>4 DEF PostinstDoings
<1>3. CASE Beside
  <2>1. /\ Administer /\ host \in Host /\ admin \in Decisions /\ host'.files = host.files
    BY <1>3, BesideTaken
  <2>2. MayStart(host) /\ ~Removing
    BY <2>1, AdministerChanges
  <2>3. ~Still("delete")
    BY <2>2 DEF Removing, Still, Ahead
  <2>4. \/ host.os = "systemd" /\ HasUnit(host)
        \/ host.os # "systemd" /\ Ships(host, "sysv-init")
        \/ host.os = "upstart" /\ Ships(host, "upstart.conf")
    BY <2>1, <2>2 DEF MayStart, Host
  <2> QED
    BY <1>1, <2>1, <2>3, <2>4
<1>4. CASE UnpackFiles \/ DeleteFiles
  BY <1>4, FilesTaken DEF Base
<1>5. CASE SetStatus \/ ConfigureStops
  <2>1. host' = host \/ host' = [host EXCEPT !.defaults = "never", !.init = "none"]
    BY <1>5, RecordTaken DEF Base
  <2> QED
    BY <2>1 DEF Base, TypeOK, Host
<1>6. CASE UNCHANGED vars \/ Begun
  BY <1>6 DEF vars, Begun
<1> QED
  BY <1>2, <1>3, <1>4, <1>5, <1>6, StepKinds

(* No step changes the machine or the packages.                              *)
LEMMA SameMachine ==
    ASSUME Base, [Next]_vars
    PROVE  built' = built /\ host'.os = host.os
<1>1. CASE RunSnippet
  BY <1>1, SnippetTaken DEF Base, Keeps, SameFiles
<1>2. CASE UnpackFiles \/ DeleteFiles
  BY <1>2, FilesTaken DEF Base
<1>3. CASE SetStatus \/ ConfigureStops
  <2>1. /\ built' = built
        /\ host' = host \/ host' = [host EXCEPT !.defaults = "never", !.init = "none"]
    BY <1>3, RecordTaken DEF Base
  <2> QED
    BY <2>1 DEF Base, TypeOK, Host
<1>4. CASE Beside
  BY <1>4, BesideTaken
<1>5. CASE UNCHANGED vars \/ Begun
  BY <1>5 DEF vars, Begun
<1> QED
  BY <1>1, <1>2, <1>3, <1>4, <1>5, StepKinds

(* What is to be stopped is stopped before its files go.                     *)
LEMMA StoppedStep ==
    ASSUME Base, Runnable, Stopped, [Next]_vars
    PROVE  Stopped'
<1> USE DEF Stopped
<1>1. \A d : Stops(d)' <=> Stops(d)
  BY SameMachine DEF Stops
<1>2. CASE UNCHANGED vars
  BY <1>1, <1>2 DEF vars, Still
<1>3. CASE Begun
  <2>1. UNCHANGED <<built, host>> /\ Operation(Ahead(todo'), Goal')
    BY <1>3 DEF Begun
  <2>2. ASSUME Still("delete")' PROVE \E d \in Ahead(todo') : Stops(d)
    <3>1. PICK v \in Version : PrermActs(built[v]) \subseteq Ahead(todo')
      BY <2>1, <2>2 DEF Operation, Still
    <3>2. CanRun(built[v])
      BY DEF Runnable
    <3> QED
      BY <3>1, <3>2 DEF CanRun, Stops, PrermActs, IfSo
  <2> QED
    BY <1>1, <2>1, <2>2
<1>4. CASE RunSnippet
  <2> DEFINE t == Head(todo)
             d == t.do
  <2>1. /\ Keeps(d, t.arg, t.second, host', recorded')
        /\ t \in Fit(Goal, Clearing) /\ d \in Ahead(todo)
        /\ Ahead(todo') = Ahead(todo) \ {d}
    BY <1>4, SnippetTaken DEF Base
  <2> HIDE DEF t
  <2>2. host'.files = host.files
    BY <2>1 DEF Keeps, SameFiles
  <2>3. host'.files = None => host'.running = None
    BY <2>2, StartStep
  <2>4. ASSUME Still("delete")', \A e \in Ahead(todo') : ~Stops(e)
        PROVE  host'.running = None
    <3>1. Still("delete") /\ Goal = "config-files"
      BY <2>1, <2>4, Aims DEF Still, Base
    <3>2. CASE Stops(d)
      <4>1. t.arg = "remove"
        BY <2>1, <3>1, <3>2 DEF Fit, Stops, PrermDoings
      <4> QED
        BY <2>1, <3>2, <4>1 DEF Keeps
    <3>3. CASE ~Stops(d)
      <4>1. host.running = None
        BY <2>1, <2>4, <3>1, <3>3
      <4> QED
        BY <3>1, <4>1, StartStep
    <3> QED
      BY <3>2, <3>3
  <2> QED
    BY <1>1, <2>3, <2>4
<1>5. CASE UnpackFiles \/ DeleteFiles
  <2> DEFINE t == Head(todo)
  <2>1. /\ host'.running = host.running /\ ~Still("delete")'
        /\ Still(t.do) /\ Ahead(todo') = Ahead(todo) \ {t.do}
        /\ \A e \in Ahead(todo') : Rank[t.do] < Rank[e]
        /\ \/ t.do = "unpack" /\ host'.files # None
           \/ t.do = "delete"
    BY <1>5, FilesTaken, NoneAssumption DEF Base
  <2> HIDE DEF t
  <2>2. CASE t.do = "delete"
    <3>1. ASSUME NEW e \in Ahead(todo), Stops(e) PROVE FALSE
      <4>1. e \in PrermDoings
        BY <3>1 DEF Stops, PrermDoings
      <4>2. Rank[e] \in 1..3 /\ Rank[t.do] = 5
        BY <2>2, <4>1, RankValues DEF PrermDoings
      <4>3. e \in Ahead(todo')
        BY <2>1, <2>2, <4>1 DEF PrermDoings
      <4> QED
        BY <2>1, <4>2, <4>3
    <3> QED
      BY <2>1, <2>2, <3>1
  <2> QED
    BY <2>1, <2>2
<1>6. CASE SetStatus \/ ConfigureStops
  <2>1. /\ Ahead(todo') = {}
        /\ host' = host \/ host' = [host EXCEPT !.defaults = "never", !.init = "none"]
    BY <1>6, RecordTaken DEF Base
  <2>2. host'.files = host.files /\ host'.running = host.running
    BY <2>1 DEF Base, TypeOK, Host
  <2> QED
    BY <2>1, <2>2 DEF Still
<1>7. CASE Beside
  <2>1. todo' = todo /\ host'.files = host.files
    BY <1>7, BesideTaken
  <2> QED
    BY <1>1, <2>1, StartStep DEF Still
<1> QED
  BY <1>2, <1>3, <1>4, <1>5, <1>6, <1>7, StepKinds

(* On a machine that cannot run the packages nothing ever runs.              *)
LEMMA NotRunnableStep ==
    ASSUME Base, [Next]_vars, NotRunnable => host.running = None
    PROVE  NotRunnable' => host'.running = None
<1>1. NotRunnable' <=> NotRunnable
  BY SameMachine DEF NotRunnable, CanRun
<1> QED
  BY <1>1, StartStep

-----------------------------------------------------------------------------
(* Packages with a unit on systemd.                                          *)

(* The operations that begin, by their goal.                                 *)
LEMMA AimsNext ==
    ASSUME Begun, NEW d \in Ahead(todo')
    PROVE  /\ d = "unpack" => Goal' = "installed"
           /\ d = "delete" => Goal' = "config-files"
<1>1. PICK i \in DOMAIN todo' : todo'[i].do = d
  BY DEF Ahead
<1>2. todo'[i] \in Fit(Goal, Clearing)'
  BY <1>1 DEF Begun, Shape
<1> QED
  BY <1>1, <1>2 DEF Fit

(* Those that make up for a version skipped.                                 *)
LEMMA ClearingNext ==
    ASSUME Begun, Clearing'
    PROVE  Goal' = "installed"
<1>1. /\ Shape' /\ todo' # <<>> /\ todo' \in Seq(Steps)
      /\ todo'[Len(todo')].do \in {"status", "deconfigured"}
  <2>1. Steps' = Steps
    BY DEF Steps, Doings, Words
  <2> QED
    BY <2>1 DEF Begun, Shape
<1>2. Len(todo') \in DOMAIN todo'
  BY <1>1
<1> QED
  BY <1>1, <1>2 DEF Shape, Fit, Clearing, Goal

(* The scripts of a package with a unit.                                     *)
LEMMA UnitActs ==
    ASSUME NEW init, Uses("systemd", init)
    PROVE  /\ {"postinst-account", "postinst-logdir", "postinst-systemd-enable",
               "postinst-systemd-restart"} \subseteq PostinstActs(init)
           /\ "prerm-systemd-restart" \in PrermActs(init)
           /\ "postrm-systemd-reload" \in PostrmActs(init)
  BY DEF Uses, PostinstActs, PrermActs, PostrmActs, IfSo

(* What they put ahead.                                                      *)
LEMMA UnitBegins ==
    ASSUME Base, WithUnit, Begun
    PROVE  /\ Goal' = "installed" \/ Still("postinst-systemd-enable")' =>
                 /\ Still("postinst-account")' /\ Still("postinst-logdir")'
                 /\ Still("postinst-systemd-enable")' /\ Still("postinst-systemd-restart")'
           /\ Still("delete")' => Still("postrm-systemd-reload")'
           /\ Still("unpack")' /\ host.files # None => Still("postrm-systemd-reload")'
<1>1. /\ UNCHANGED <<built, host, recorded, dpkg, admin>>
      /\ Record' /\ Operation(Ahead(todo'), Goal')
  BY DEF Begun
<1>2. \A v \in Version : Uses("systemd", built[v])
  BY DEF WithUnit
<1>3. ASSUME Goal' = "installed" \/ Still("postinst-systemd-enable")'
      PROVE  /\ Still("postinst-account")' /\ Still("postinst-logdir")'
             /\ Still("postinst-systemd-enable")' /\ Still("postinst-systemd-restart")'
  <2>1. PICK v \in Version : PostinstActs(built[v]) \subseteq Ahead(todo')
    BY <1>1, <1>3 DEF Operation, Still
  <2> QED
    BY <1>2, <2>1, UnitActs DEF Still
<1>4. ASSUME Still("delete")'
      PROVE  Still("postrm-systemd-reload")'
  <2>1. PICK v \in Version : PrermActs(built[v]) \cup PostrmActs(built[v]) \subseteq Ahead(todo')
    BY <1>1, <1>4 DEF Operation, Still
  <2> QED
    BY <1>2, <2>1, UnitActs DEF Still
<1>5. ASSUME Still("unpack")', host.files # None
      PROVE  Still("postrm-systemd-reload")'
  <2>1. dpkg.status \notin Gone
    BY <1>1, <1>5 DEF Record
  <2>2. PICK v \in Version : PostrmActs(built[v]) \subseteq Ahead(todo')
    BY <1>1, <1>5, <2>1 DEF Operation, Still
  <2> QED
    BY <1>2, <2>2, UnitActs DEF Still
<1> QED
  BY <1>3, <1>4, <1>5

(* With a unit in every version, the files on the machine include one.       *)
LEMMA UnitThere ==
    ASSUME Base, WithUnit
    PROVE  HasUnit(host) <=> host.files # None
  BY FilesShip, NoFilesShip DEF WithUnit

(* What is ahead of a step stays ahead until it.                             *)
LEMMA PendingStep ==
    ASSUME Base, WithUnit, Pending, [Next]_vars
    PROVE  Pending'
<1> USE DEF Pending
<1>1. CASE UNCHANGED vars
  BY <1>1 DEF vars, Still, Goal, Told
<1>2. CASE Begun
  <2>1. /\ UNCHANGED <<host, dpkg>> /\ Operation(Ahead(todo'), Goal')
        /\ Told' \/ ~Still("postrm-systemd-reload")'
    BY <1>2 DEF Begun, Still
  <2>2. Still("unpack")' => Goal' = "installed"
    BY <1>2, AimsNext DEF Still
  <2>3. Still("postrm-systemd-reload")' /\ Goal' = "installed"
          => Told' /\ (skipped' \/ dpkg'.configured # None)
    BY <2>1 DEF Operation, Still
  <2> QED
    BY <1>2, <2>1, <2>2, <2>3, UnitBegins
<1>3. CASE RunSnippet
  <2> DEFINE t == Head(todo)
             d == t.do
  <2>1. /\ Keeps(d, t.arg, t.second, host', recorded') /\ UNCHANGED <<dpkg, skipped>>
        /\ Goal' = Goal /\ (Told => Told')
        /\ d \in Ahead(todo) /\ Ahead(todo') = Ahead(todo) \ {d}
        /\ \A e \in Ahead(todo') : Rank[d] < Rank[e]
        /\ \A e \in DpkgSteps : Still(e)' <=> Still(e)
    BY <1>3, SnippetTaken DEF Base
  <2> HIDE DEF t
  <2>2. host'.files = host.files
    BY <2>1 DEF Keeps, SameFiles
  <2>3. /\ \A e : Still(e)' => Still(e)
        /\ \A e : Still(e) /\ e # d => Still(e)'
        /\ \A e : Still(e)' => Rank[d] < Rank[e]
    BY <2>1 DEF Still
  <2>4. /\ Still("unpack")' => Still("postinst-systemd-enable")'
        /\ Still("postinst-systemd-enable")' => Still("postinst-systemd-restart")'
        /\ Still("unpack")' => Still("postinst-account")' /\ Still("postinst-logdir")'
    BY <2>3, RankValues
  <2>5. /\ Still("unpack")' /\ host'.files # None => Still("postrm-systemd-reload")'
        /\ Still("delete")' => Still("postrm-systemd-reload")'
    BY <2>2, <2>3, RankValues
  <2>6. Still("postrm-systemd-reload")' /\ Goal' = "installed" =>
           /\ Still("postinst-systemd-restart")' /\ Told'
           /\ skipped' \/ dpkg'.configured # None
    <3>1. ASSUME Still("postrm-systemd-reload")', Goal' = "installed"
          PROVE  /\ Still("postinst-systemd-restart") /\ Told
                 /\ skipped \/ dpkg.configured # None
      BY <2>1, <2>3, <3>1
    <3>2. Still("postrm-systemd-reload")' => d # "postinst-systemd-restart"
      BY <2>3, RankValues
    <3> QED
      BY <2>1, <2>3, <3>1, <3>2
  <2> QED
    BY <2>4, <2>5, <2>6
<1>4. CASE UnpackFiles \/ DeleteFiles
  <2> DEFINE t == Head(todo)
             d == t.do
  <2>1. /\ dpkg'.configured = dpkg.configured /\ skipped' = skipped
        /\ Goal' = Goal /\ (Told => Told')
        /\ Still(d) /\ Ahead(todo') = Ahead(todo) \ {d}
        /\ ~Still("unpack")' /\ ~Still("delete")'
        /\ d \in {"unpack", "delete"}
    BY <1>4, FilesTaken DEF Base
  <2> HIDE DEF t
  <2>2. \A e : Still(e)' <=> Still(e) /\ e # d
    BY <2>1 DEF Still
  <2> QED
    BY <2>1, <2>2
<1>5. CASE SetStatus \/ ConfigureStops
  BY <1>5, RecordTaken DEF Base, Still
<1>6. CASE Beside
  BY <1>6, BesideTaken
<1> QED
  BY <1>1, <1>2, <1>3, <1>4, <1>5, <1>6, StepKinds

(* What is loaded and what runs is of the files that are there, or is still  *)
(* to be reloaded and restarted, unless a version was skipped.               *)
LEMMA FreshStep ==
    ASSUME Base, host.os = "systemd", WithUnit, Pending, Masked, Stopped, Stopped', Fresh,
           [Next]_vars
    PROVE  Fresh'
<1> USE DEF Fresh, UpToDate
<1>1. CASE UNCHANGED vars
  BY <1>1 DEF vars, Still, Goal, Clearing, Told
<1>2. CASE Begun
  <2>1. /\ UNCHANGED <<host, dpkg>> /\ (skipped => skipped')
        /\ Still("unpack") \/ Still("delete") \/ ~Still("postrm-systemd-reload")
        /\ Told' \/ Deleting
    BY <1>2 DEF Begun
  <2>2. Goal' = "installed" \/ Clearing' => Still("postinst-systemd-restart")'
    BY <1>2, ClearingNext, UnitBegins
  <2>3. Deleting => host.running = None
    BY DEF Deleting, Stopped
  <2> QED
    BY <2>1, <2>2, <2>3
<1>3. CASE RunSnippet
  <2> DEFINE t == Head(todo)
             d == t.do
             a == t.arg
  <2>1. /\ Keeps(d, a, t.second, host', recorded') /\ UNCHANGED <<dpkg, skipped>>
        /\ Goal' = Goal /\ Clearing' = Clearing /\ (Told => Told')
        /\ t \in Fit(Goal, Clearing) /\ Ahead(todo') = Ahead(todo) \ {d}
        /\ 1 \in DOMAIN todo /\ t = todo[1]
        /\ \A e \in DpkgSteps : Still(e)' <=> Still(e)
    BY <1>3, SnippetTaken DEF Base
  <2>2. d \in PostinstDoings => host.files # None
    BY <1>3, PostinstHasFiles
  <2> HIDE DEF t
  <2>3. /\ host'.files = host.files
        /\ \A e : Still(e)' <=> Still(e) /\ e # d
        /\ Still("unpack")' <=> Still("unpack")
        /\ Still("delete")' <=> Still("delete")
    BY <2>1 DEF Keeps, SameFiles, Still, DpkgSteps
  <2>4. CASE d = "postinst-systemd-restart"
    <3>1. a \in Restoring /\ HasUnit(host) /\ MaskedIsDown(host)
      BY <2>1, <2>2, <2>4, UnitThere DEF Fit, PostinstDoings, Masked
    <3>2. host'.loaded \in {None, host.files}
      BY <2>1, <2>4, <3>1 DEF Keeps
    <3>3. t.second \/ host.running \in {None, host.files} => host'.running \in {None, host.files}
      BY <2>1, <2>4, <3>1 DEF Keeps
    <3>4. ASSUME ~t.second, host.running \notin {None, host.files}
          PROVE  \/ skipped' /\ ~Clearing'
                 \/ dpkg'.configured # None /\ Goal' # "installed"
      <4>1. ~Clearing /\ (a # "configure" \/ dpkg.configured = None)
        BY <2>1, <2>4, <3>4 DEF Fit, PostinstDoings
      <4>2. dpkg.configured # None => a = "abort-remove" /\ ~Told
        BY <2>1, <2>4, <3>1, <3>4, <4>1 DEF Fit, PostinstDoings, Restoring, Told
      <4> QED
        BY <2>1, <3>4, <4>1, <4>2
    <3> QED
      BY <2>3, <3>2, <3>3, <3>4
  <2>5. CASE d # "postinst-systemd-restart"
    <3>1. /\ d = "postrm-systemd-reload" => host'.loaded \in {None, host.files}
          /\ d # "postrm-systemd-reload" => host'.loaded = host.loaded
          /\ ~(d = "prerm-systemd-restart" /\ a = "remove") => host'.running = host.running
          /\ d = "prerm-systemd-restart" /\ a = "remove" => host'.running = None
      BY <2>1, <2>5 DEF Keeps, Stops
    <3>2. Still("unpack")' \/ Still("delete")' \/ ~Still("postrm-systemd-reload")'
              => host'.loaded \in {None, host'.files}
      BY <2>3, <3>1
    <3>3. Still("postinst-systemd-restart")' <=> Still("postinst-systemd-restart")
      BY <2>3, <2>5
    <3> QED
      BY <2>1, <2>3, <3>1, <3>2, <3>3
  <2> QED
    BY <2>4, <2>5
<1>4. CASE UnpackFiles \/ DeleteFiles
  <2> DEFINE t == Head(todo)
             d == t.do
  <2>1. /\ dpkg'.configured = dpkg.configured /\ skipped' = skipped
        /\ Goal' = Goal /\ (Told => Told')
        /\ Still(d) /\ Ahead(todo') = Ahead(todo) \ {d}
        /\ ~Still("unpack")' /\ ~Still("delete")'
        /\ host'.loaded = host.loaded /\ host'.running = host.running
        /\ \/ d = "unpack" /\ Goal = "installed"
           \/ d = "delete" /\ Goal = "config-files" /\ host'.files = None
    BY <1>4, FilesTaken DEF Base
  <2> HIDE DEF t
  <2>2. \A e : Still(e)' <=> Still(e) /\ e # d
    BY <2>1 DEF Still
  <2>3. CASE d = "unpack" /\ Goal = "installed"
    <3>1. CASE host.files = None
      <4>1. host.loaded = None /\ host.running = None
        BY <2>1, <2>3, <3>1 DEF Stopped
      <4> QED
        BY <2>1, <4>1
    <3>2. CASE host.files # None
      <4>1. Still("postrm-systemd-reload")
        BY <2>1, <2>3, <3>2 DEF Pending
      <4>2. /\ Still("postinst-systemd-restart") /\ Told
            /\ skipped \/ dpkg.configured # None
        BY <2>3, <4>1 DEF Pending
      <4>3. Still("postrm-systemd-reload")' /\ Still("postinst-systemd-restart")'
        BY <2>2, <2>3, <4>1, <4>2
      <4> QED
        BY <2>1, <4>2, <4>3
    <3> QED
      BY <3>1, <3>2
  <2>4. CASE d = "delete" /\ host'.files = None
    <3>1. Still("postrm-systemd-reload")'
      BY <2>1, <2>2, <2>4 DEF Pending
    <3>2. host'.running = None
      BY <2>4 DEF Stopped
    <3> QED
      BY <2>1, <3>1, <3>2
  <2> QED
    BY <2>1, <2>3, <2>4
<1>5. CASE SetStatus \/ ConfigureStops
  <2>1. /\ ~Still("unpack") /\ ~Still("delete") /\ ~Still("postrm-systemd-reload")
        /\ Ahead(todo') = {} /\ Goal' = dpkg'.status /\ ~Clearing'
        /\ host' = host \/ host' = [host EXCEPT !.defaults = "never", !.init = "none"]
    BY <1>5, RecordTaken DEF Base
  <2>2. host'.files = host.files /\ host'.loaded = host.loaded /\ host'.running = host.running
    BY <2>1 DEF Base, TypeOK, Host
  <2>3. host.loaded \in {None, host.files}
    BY <2>1
  <2>4. \/ /\ Goal = dpkg'.status /\ skipped' = (skipped /\ ~Clearing)
           /\ Goal # "installed" => dpkg'.configured = dpkg.configured
           /\ ~Still("postinst-systemd-restart")
        \/ Goal = "not-installed"
        \/ /\ dpkg'.status = "half-configured" /\ skipped' = skipped
           /\ dpkg'.configured = dpkg.configured
    BY <1>5, RecordTaken DEF Base, Still
  <2>5. Goal = "not-installed" => host.running = None
    BY <2>1 DEF Base, Record, Gone, Stopped
  <2> QED
    BY <2>1, <2>2, <2>3, <2>4, <2>5
<1>6. CASE Beside
  <2>1. /\ Administer /\ UNCHANGED <<dpkg, skipped>> /\ Goal' = Goal
        /\ Clearing' = Clearing /\ Told' = Told /\ \A d : Still(d)' <=> Still(d)
        /\ host'.files = host.files /\ host \in Host /\ admin \in Decisions
    BY <1>6, BesideTaken
  <2>2. CASE host.loaded \in {None, host.files}
    <3>1. host'.loaded \in {None, host.files} /\ host'.running \in {None, host.running, host.files}
      BY <2>1, <2>2, AdministerChanges
    <3> QED
      BY <2>1, <3>1
  <2>3. CASE host.loaded \notin {None, host.files}
    <3>1. Still("postrm-systemd-reload") /\ ~Still("unpack") /\ ~Still("delete")
      BY <2>3
    <3>2. host'.running \in {None, host.running} \/ MayStart(host)
      BY <2>1, AdministerChanges
    <3>3. MayStart(host) => host.files # None
      BY UnitThere DEF MayStart
    <3>4. ASSUME host.files # None
          PROVE  /\ Still("postinst-systemd-restart") /\ Told
                 /\ skipped \/ dpkg.configured # None
      <4>1. Goal \in Status \ Gone /\ Goal # "half-configured"
        BY <3>1, <3>4, Aims DEF Base, Record, Still, PostrmDoings
      <4>2. Goal = "installed"
        BY <4>1 DEF Status, Gone
      <4> QED
        BY <3>1, <4>2 DEF Pending
    <3> QED
      BY <2>1, <3>1, <3>2, <3>3, <3>4
  <2> QED
    BY <2>2, <2>3
<1> QED
  BY <1>1, <1>2, <1>3, <1>4, <1>5, <1>6, StepKinds

(* A unit that is masked by the administrator counts as stopped.             *)
LEMMA AdministerMasks ==
    ASSUME host \in Host, host.os = "systemd", admin \in Decisions, Administer,
           MaskedIsDown(host), host.mask = "admin" => admin.stopped
    PROVE  host'.mask = "admin" => admin'.stopped
<1>1. MaskedIsDown(host')
  BY AdministerOnSystemd
<1>2. ASSUME NEW now \in BOOLEAN, Disable(now) PROVE host'.mask = "admin" => admin'.stopped
  <2>1. host'.mask = host.mask /\ (admin'.stopped <=> admin.stopped \/ now)
    BY <1>2 DEF Disable, Host, Stop, Decisions
  <2> QED
    BY <2>1
<1>3. CASE Enable
  <2>1. host'.mask = host.mask /\ (admin'.stopped <=> host.running = None)
    BY <1>3 DEF Enable, Host, Decisions
  <2> QED
    BY <2>1 DEF MaskedIsDown
<1>4. CASE StopByHand \/ Mask
  BY <1>4 DEF StopByHand, Mask, Decisions
<1>5. CASE StartByHand \/ Reboot
  <2>1. host'.mask = host.mask
    BY <1>5, ServiceChanges DEF StartByHand, Reboot, SameBeside
  <2>2. admin' = SeenByHand(host')
    BY <1>5 DEF StartByHand, Reboot
  <2>3. admin'.stopped <=> admin.stopped /\ host'.running = None
    BY <2>2 DEF SeenByHand, Seen, Decisions
  <2> QED
    BY <1>1, <2>1, <2>3 DEF MaskedIsDown
<1>6. CASE Unmask
  BY <1>6 DEF Unmask, Host
<1>7. CASE DeleteDefaults
  BY <1>7 DEF DeleteDefaults, Host
<1> QED
  BY <1>2, <1>3, <1>4, <1>5, <1>6, <1>7 DEF Administer

(* Nothing the administrator does, and no reboot, leaves an enabled unit     *)
(* down that nobody stopped.                                                 *)
LEMMA AdministerUp ==
    ASSUME host \in Host, host.os = "systemd", admin \in Decisions, Administer,
           host.mask = "admin" => admin.stopped, host.mask # "own", HasUnit(host),
           todo = <<>> => host.account, Up(host, admin)
    PROVE  Up(host', admin')
<1>1. ASSUME NEW now \in BOOLEAN, Disable(now) PROVE Up(host', admin')
  <2>1. ~host'.enabled
    BY <1>1 DEF Disable, Host, Stop
  <2> QED
    BY <2>1 DEF Up
<1>2. CASE Enable
  <2>1. host'.running = host.running /\ (admin'.stopped <=> host.running = None)
    BY <1>2 DEF Enable, Host, Decisions
  <2> QED
    BY <2>1 DEF Up
<1>3. CASE StopByHand \/ Mask
  <2>1. admin'.stopped
    BY <1>3 DEF StopByHand, Mask, Decisions
  <2> QED
    BY <2>1 DEF Up
<1>4. CASE StartByHand
  <2>1. host' = StartUnit(host) /\ admin' = SeenByHand(host')
    BY <1>4 DEF StartByHand, StartService
  <2>2. SameBeside(host', host) /\ (host'.running # host.running => host.running = None)
    BY <2>1, StartUnitChanges
  <2>3. admin'.stopped <=> admin.stopped /\ host'.running = None
    BY <2>1 DEF SeenByHand, Seen, Decisions
  <2> QED
    BY <2>2, <2>3 DEF Up, SameBeside
<1>5. CASE Unmask
  <2>1. host.mask = "admin" /\ admin'.stopped = admin.stopped
    BY <1>5 DEF Unmask, Decisions
  <2> QED
    BY <2>1 DEF Up
<1>6. CASE DeleteDefaults
  <2>1. host'.defaults = "deleted"
    BY <1>6 DEF DeleteDefaults, Host
  <2> QED
    BY <2>1 DEF Up
<1>7. CASE Reboot
  <2>1. host' = Boot(host) /\ host.account
    BY <1>7 DEF Reboot, Idle
  <2>2. /\ SameBeside(host', host)
        /\ host.enabled /\ host.mask = "none" /\ host.defaults = "present" => host'.running # None
    BY <2>1, BootChanges
  <2>3. host.mask \in {"none", "admin"}
    BY DEF Host
  <2> QED
    BY <2>2, <2>3 DEF Up, SameBeside
<1> QED
  BY <1>1, <1>2, <1>3, <1>4, <1>5, <1>6, <1>7 DEF Administer

(* A mask keeps the unit down, and the removal's own is lifted before the    *)
(* service is started.                                                       *)
LEMMA MaskedStep ==
    ASSUME Base, host.os = "systemd", WithUnit, Pending, Stopped, Masked, [Next]_vars
    PROVE  Masked'
<1> USE DEF Masked
<1>1. CASE UNCHANGED vars
  BY <1>1 DEF vars, Still, Goal
<1>2. CASE Begun
  <2>1. UNCHANGED <<host, admin>>
    BY <1>2 DEF Begun
  <2> QED
    BY <1>2, <2>1, UnitBegins
<1>3. CASE RunSnippet
  <2> DEFINE t == Head(todo)
             d == t.do
             a == t.arg
  <2>1. /\ Keeps(d, a, t.second, host', recorded') /\ admin' = Seen(host') /\ Goal' = Goal
        /\ t \in Fit(Goal, Clearing) /\ Ahead(todo') = Ahead(todo) \ {d} /\ d \in Ahead(todo)
        /\ \A e \in Ahead(todo') : Rank[d] < Rank[e]
    BY <1>3, SnippetTaken DEF Base
  <2> HIDE DEF t
  <2>2. /\ host'.files = host.files /\ host'.mask \in {"none", "own", "admin"}
        /\ host'.mask = "admin" <=> host.mask = "admin"
    BY <2>1 DEF Keeps, SameFiles, Host
  <2>3. ASSUME host'.mask = "own", host.mask # "own"
        PROVE  /\ Goal = "config-files" /\ host.running = None
               /\ d = "postrm-systemd"
    <3>1. d = "postrm-systemd" /\ a = "remove"
      BY <2>1, <2>3 DEF Keeps
    <3>2. Goal = "config-files"
      BY <2>1, <3>1 DEF Fit, PostrmDoings
    <3>3. \A e \in Ahead(todo) \ {d} : Rank[d] < Rank[e]
      BY <2>1
    <3>4. host.files = None
      BY <2>1, <3>1, <3>2, <3>3, AfterFiles DEF PostrmDoings, Gone
    <3> QED
      BY <3>1, <3>2, <3>4 DEF Stopped
  <2>4. host.running = None /\ host'.running # None => host.mask = "none" /\ d # "postrm-systemd"
    BY <2>1 DEF Keeps
  <2>5. host.mask # "none" => host.running = None
    BY DEF MaskedIsDown
  <2>6. MaskedIsDown(host')
    <3>1. ASSUME host'.mask # "none" PROVE host'.running = None
      <4>1. host.running = None
        BY <2>2, <2>3, <2>5, <3>1
      <4>2. host.mask # "none" \/ d = "postrm-systemd"
        BY <2>2, <2>3, <3>1
      <4> QED
        BY <2>4, <4>1, <4>2
    <3> QED
      BY <3>1 DEF MaskedIsDown
  <2>7. host'.mask = "admin" => admin'.stopped
    <3>1. admin'.stopped <=> admin.stopped /\ host'.running = None
      BY <2>1, SeenDecides DEF Base, TypeOK
    <3> QED
      BY <2>2, <2>6, <3>1 DEF MaskedIsDown
  <2>8. ASSUME host'.mask = "own", host'.files # None, Goal' = "installed"
        PROVE  Still("postinst-systemd-enable")'
    <3>1. host.mask = "own" /\ Still("postinst-systemd-enable")
      BY <2>1, <2>2, <2>3, <2>8
    <3>2. d # "postinst-systemd-enable"
      <4>1. d = "postinst-systemd-enable" => a \in Restoring
        BY <2>1 DEF Fit, PostinstDoings
      <4> QED
        BY <2>1, <2>8, <4>1 DEF Keeps
    <3> QED
      BY <2>1, <3>1, <3>2 DEF Still
  <2> QED
    BY <2>6, <2>7, <2>8
<1>4. CASE UnpackFiles \/ DeleteFiles
  <2> DEFINE t == Head(todo)
             d == t.do
  <2>1. /\ Goal' = Goal /\ Still(d) /\ Ahead(todo') = Ahead(todo) \ {d} /\ admin' = admin
        /\ host'.mask = host.mask /\ host'.running = host.running
        /\ d = "unpack" \/ (d = "delete" /\ Goal = "config-files")
    BY <1>4, FilesTaken DEF Base
  <2> HIDE DEF t
  <2>2. d = "unpack" => Still("postinst-systemd-enable")'
    BY <2>1 DEF Pending, Still
  <2> QED
    BY <2>1, <2>2 DEF MaskedIsDown
<1>5. CASE SetStatus \/ ConfigureStops
  <2>1. /\ host' = host \/ host' = [host EXCEPT !.defaults = "never", !.init = "none"]
        /\ admin' = admin \/ admin' = [admin EXCEPT !.disabled = FALSE]
        /\ Goal' = dpkg'.status
        /\ Goal' = "installed" => Goal = "installed" /\ ~Still("postinst-systemd-enable")
    BY <1>5, RecordTaken DEF Base, Still
  <2>2. /\ host'.mask = host.mask /\ host'.running = host.running /\ host'.files = host.files
        /\ admin'.stopped = admin.stopped
    BY <2>1 DEF Base, TypeOK, Host, Decisions
  <2> QED
    BY <2>1, <2>2 DEF MaskedIsDown
<1>6. CASE Beside
  <2>1. /\ Administer /\ Goal' = Goal /\ \A d : Still(d)' <=> Still(d)
        /\ host'.files = host.files /\ host \in Host /\ admin \in Decisions
    BY <1>6, BesideTaken
  <2>2. MaskedIsDown(host') /\ (host'.mask = "admin" => admin'.stopped)
    BY <2>1, AdministerOnSystemd, AdministerMasks
  <2>3. host'.mask = "own" => host.mask = "own"
    BY <2>1, AdministerChanges
  <2> QED
    BY <2>1, <2>2, <2>3
<1> QED
  BY <1>1, <1>2, <1>3, <1>4, <1>5, <1>6, StepKinds

(* Nothing takes the account or the directory of an installed package away.  *)
LEMMA ReadyStep ==
    ASSUME Base, host.os = "systemd", WithUnit, Ready, [Next]_vars
    PROVE  Ready'
<1> USE DEF Ready, Unskipped
<1>1. CASE UNCHANGED vars
  BY <1>1 DEF vars, Still, Goal, Clearing
<1>2. CASE Begun
  <2>1. UNCHANGED <<host, dpkg>> /\ (skipped => skipped') /\ ~Purging
    BY <1>2 DEF Begun
  <2>2. Goal = "not-installed" => dpkg.configured = None
    BY <2>1 DEF Purging, Goal, Base, Record
  <2> QED
    BY <1>2, <2>1, <2>2, UnitBegins
<1>3. CASE RunSnippet
  <2> DEFINE t == Head(todo)
             d == t.do
             a == t.arg
  <2>1. /\ Keeps(d, a, t.second, host', recorded') /\ UNCHANGED <<dpkg, skipped>>
        /\ Goal' = Goal /\ Clearing' = Clearing
        /\ t \in Fit(Goal, Clearing) /\ Ahead(todo') = Ahead(todo) \ {d}
        /\ \A e \in Ahead(todo') : Rank[d] < Rank[e]
    BY <1>3, SnippetTaken DEF Base
  <2> HIDE DEF t
  <2>2. d = "postrm-purge" /\ a = "purge" => Goal = "not-installed"
    BY <2>1 DEF Fit, PostrmDoings
  <2>3. /\ ~(d = "postrm-purge" /\ a = "purge") =>
              (host.account => host'.account) /\ (host.logdir => host'.logdir)
        /\ d = "postinst-account" /\ a = "configure" => host'.account
        /\ d = "postinst-logdir" /\ a \in Restoring /\ host.account => host'.logdir
    BY <2>1 DEF Keeps
  <2>4. \A e : Still(e)' <=> Still(e) /\ e # d
    BY <2>1 DEF Still
  <2>5. dpkg'.configured # None /\ ~skipped' /\ Goal' # "not-installed"
          => host'.account /\ host'.logdir
    BY <2>1, <2>2, <2>3
  <2>6. ASSUME Goal' = "installed", Unskipped', ~Still("postinst-account")' PROVE host'.account
    <3>1. CASE d = "postinst-account"
      <4>1. a # "configure" => ~Clearing /\ (skipped \/ dpkg.configured # None)
        BY <2>1, <2>6, <3>1 DEF Fit, PostinstDoings
      <4> QED
        BY <2>1, <2>3, <2>5, <2>6, <3>1, <4>1
    <3>2. CASE d # "postinst-account"
      BY <2>1, <2>2, <2>3, <2>4, <2>6, <3>2
    <3> QED
      BY <3>1, <3>2
  <2>7. ASSUME Goal' = "installed", Unskipped', ~Still("postinst-logdir")' PROVE host'.logdir
    <3>1. CASE d = "postinst-logdir"
      <4>1. a \in Restoring
        BY <2>1, <3>1 DEF Fit, PostinstDoings
      <4>2. "postinst-account" \notin Ahead(todo')
        BY <2>1, <3>1, RankValues
      <4>3. ~Still("postinst-account")
        BY <2>1, <3>1, <4>2 DEF Still
      <4> QED
        BY <2>1, <2>3, <2>7, <3>1, <4>1, <4>3
    <3>2. CASE d # "postinst-logdir"
      BY <2>1, <2>2, <2>3, <2>4, <2>7, <3>2
    <3> QED
      BY <3>1, <3>2
  <2> QED
    BY <2>5, <2>6, <2>7
<1>4. CASE UnpackFiles \/ DeleteFiles
  <2> DEFINE t == Head(todo)
             d == t.do
  <2>1. /\ dpkg'.configured = dpkg.configured /\ skipped' = skipped
        /\ Goal' = Goal /\ Clearing' = Clearing /\ Ahead(todo') = Ahead(todo) \ {d}
        /\ host'.account = host.account /\ host'.logdir = host.logdir
        /\ d = "unpack" \/ d = "delete"
    BY <1>4, FilesTaken DEF Base
  <2> HIDE DEF t
  <2> QED
    BY <2>1 DEF Still
<1>5. CASE SetStatus \/ ConfigureStops
  <2>1. /\ host' = host \/ host' = [host EXCEPT !.defaults = "never", !.init = "none"]
        /\ Goal' = dpkg'.status /\ ~Clearing'
        /\ \/ /\ Goal' = Goal /\ (skipped /\ ~Clearing => skipped')
              /\ Goal # "installed" => dpkg'.configured = dpkg.configured
              /\ ~Still("postinst-account") /\ ~Still("postinst-logdir")
           \/ Goal' = "not-installed"
           \/ /\ Goal' = "half-configured" /\ Goal # "not-installed"
              /\ skipped' = skipped /\ dpkg'.configured = dpkg.configured
    BY <1>5, RecordTaken DEF Base, Still, Unpacked
  <2>2. host'.account = host.account /\ host'.logdir = host.logdir
    BY <2>1 DEF Base, TypeOK, Host
  <2>3. Clearing => Goal = "installed"
    BY ClearingInstalls DEF Base
  <2>4. ASSUME ~skipped', Goal' = "installed" \/ dpkg'.configured # None, Goal' # "not-installed"
        PROVE  host.account /\ host.logdir
    <3>1. CASE Goal' = Goal /\ Goal = "installed"
      BY <2>1, <2>4, <3>1
    <3>2. CASE Goal' # Goal \/ Goal # "installed"
      BY <2>1, <2>3, <2>4, <3>2
    <3> QED
      BY <3>1, <3>2
  <2> QED
    BY <2>1, <2>2, <2>4
<1>6. CASE Beside
  <2>1. /\ Administer /\ UNCHANGED <<dpkg, skipped>> /\ Goal' = Goal /\ Clearing' = Clearing
        /\ \A d : Still(d)' <=> Still(d)
        /\ host \in Host /\ admin \in Decisions
    BY <1>6, BesideTaken
  <2>2. host'.account = host.account /\ (host.logdir => host'.logdir)
    BY <2>1, AdministerOnSystemd
  <2> QED
    BY <2>1, <2>2
<1> QED
  BY <1>1, <1>2, <1>3, <1>4, <1>5, <1>6, StepKinds

(* No step leaves an enabled unit down that nobody stopped, once its restart *)
(* is done.                                                                  *)
LEMMA RunsStep ==
    ASSUME Base, host.os = "systemd", WithUnit, Pending, Masked, Ready, Runs, [Next]_vars
    PROVE  Runs'
<1> USE DEF Runs, Unskipped
<1>1. CASE UNCHANGED vars
  BY <1>1 DEF vars, Still, Goal, Clearing
<1>2. CASE Begun
  BY <1>2, UnitBegins
<1>3. CASE RunSnippet
  <2> DEFINE t == Head(todo)
             d == t.do
             a == t.arg
  <2>1. /\ Keeps(d, a, t.second, host', recorded') /\ admin' = Seen(host') /\ Goal' = Goal
        /\ t \in Fit(Goal, Clearing) /\ Ahead(todo') = Ahead(todo) \ {d} /\ d \in Ahead(todo)
        /\ \A e \in Ahead(todo') : Rank[d] < Rank[e]
        /\ skipped' = skipped /\ Clearing' = Clearing
    BY <1>3, SnippetTaken DEF Base
  <2>2. d \in PostinstDoings => host.files # None
    BY <1>3, PostinstHasFiles
  <2> HIDE DEF t
  <2>3. /\ host'.defaults = host.defaults
        /\ host'.mask = "admin" <=> host.mask = "admin"
        /\ host'.enabled /\ ~host.enabled => d = "postinst-systemd-enable"
    BY <2>1 DEF Keeps, SameFiles
  <2>4. admin'.stopped <=> admin.stopped /\ host'.running = None
    BY <2>1, SeenDecides DEF Base, TypeOK
  <2>5. ASSUME Goal = "installed", Unskipped, d = "postinst-systemd-restart",
               host'.enabled, host'.mask # "admin", host'.defaults = "present"
        PROVE  host'.running # None
    <3>1. a \in Restoring /\ host.files # None
      BY <2>1, <2>2, <2>5 DEF Fit, PostinstDoings
    <3>2. /\ "postinst-account" \notin Ahead(todo') /\ "postinst-logdir" \notin Ahead(todo')
          /\ "postinst-systemd-enable" \notin Ahead(todo')
      BY <2>1, <2>5, RankValues
    <3>3. /\ ~Still("postinst-account") /\ ~Still("postinst-logdir")
          /\ ~Still("postinst-systemd-enable")
      BY <2>1, <2>5, <3>2 DEF Still
    <3>4. Equipped(host)
      BY <2>3, <2>5, <3>1, <3>3, UnitThere DEF Ready, Equipped
    <3>5. host.mask = "none"
      BY <2>3, <2>5, <3>1, <3>3 DEF Masked, Base, TypeOK, Host
    <3>6. host.enabled
      BY <2>3, <2>5
    <3> QED
      BY <2>1, <2>5, <3>1, <3>4, <3>5, <3>6 DEF Keeps
  <2>6. ASSUME Goal = "installed", Unskipped, d # "postinst-systemd-restart",
               ~Still("postinst-systemd-restart")'
        PROVE  Up(host', admin')
    <3>1. ~Still("postinst-systemd-restart")
      BY <2>1, <2>6 DEF Still
    <3>2. d # "postinst-systemd-enable"
      BY <2>1, <3>1 DEF Pending, Still
    <3>3. ~(d = "prerm-systemd-restart" /\ a = "remove")
      BY <2>1, <2>6 DEF Fit, PrermDoings
    <3>4. host'.running = host.running
      BY <2>1, <2>6, <3>3 DEF Keeps
    <3> QED
      BY <2>3, <2>4, <2>6, <3>1, <3>2, <3>4 DEF Up
  <2> QED
    BY <2>1, <2>5, <2>6 DEF Up
<1>4. CASE UnpackFiles \/ DeleteFiles
  <2> DEFINE t == Head(todo)
             d == t.do
  <2>1. /\ Goal' = Goal /\ Still(d) /\ Ahead(todo') = Ahead(todo) \ {d}
        /\ d = "unpack" \/ (d = "delete" /\ Goal = "config-files")
    BY <1>4, FilesTaken DEF Base
  <2> HIDE DEF t
  <2>2. d = "unpack" => Still("postinst-systemd-restart")'
    BY <2>1 DEF Pending, Still
  <2> QED
    BY <2>1, <2>2
<1>5. CASE SetStatus \/ ConfigureStops
  <2>1. /\ Goal' = dpkg'.status
        /\ Goal' = "installed" =>
              /\ Goal = "installed" /\ ~Still("postinst-systemd-restart")
              /\ UNCHANGED <<host, admin>> /\ (Unskipped' => Unskipped)
    BY <1>5, RecordTaken DEF Base, Still
  <2> QED
    BY <2>1 DEF Up
<1>6. CASE Beside
  <2>1. /\ Administer /\ Goal' = Goal /\ \A d : Still(d)' <=> Still(d)
        /\ skipped' = skipped /\ Clearing' = Clearing
        /\ host \in Host /\ admin \in Decisions
    BY <1>6, BesideTaken
  <2>2. ASSUME Goal = "installed", Unskipped, ~Still("postinst-systemd-restart")
        PROVE  Up(host', admin')
    <3>1. ~Still("unpack") /\ ~Still("postinst-systemd-enable")
      BY <2>2 DEF Pending
    <3>2. ~Still("delete")
      BY <2>2, Aims DEF Still, Base
    <3>3. host.files # None
      BY <2>2, <3>1, <3>2 DEF Base, Record, Gone
    <3>4. host.mask # "own" /\ HasUnit(host)
      BY <2>2, <3>1, <3>3, UnitThere DEF Masked
    <3>5. todo = <<>> => host.account
      BY <2>2 DEF Ready, Still, Ahead
    <3> QED
      BY <2>1, <2>2, <3>4, <3>5, AdministerUp DEF Masked
  <2> QED
    BY <2>1, <2>2
<1> QED
  BY <1>1, <1>2, <1>3, <1>4, <1>5, <1>6, StepKinds

-----------------------------------------------------------------------------
(* The invariant.                                                            *)

(* It holds of a machine the package was never on.                           *)
LEMMA InvariantInit ==
    ASSUME Init
    PROVE  IInv
<1>1. Base
  BY BaseInit
<1>2. /\ host.files = None /\ host.loaded = None /\ host.running = None /\ ~host.enabled
      /\ host.rc = "none" /\ host.mask = "none" /\ ~host.account /\ ~host.logdir
      /\ recorded = FALSE /\ dpkg.status = "not-installed" /\ todo = <<>> /\ ~skipped
  BY DEF Init, CleanHost
<1>3. ~admin.disabled /\ ~admin.masked
  BY DEF Init, NoDecision
<1>4. Goal = "not-installed" /\ Ahead(todo) = {} /\ \A d : ~Still(d)
  BY <1>2 DEF Goal, Still, Ahead
<1>5. Decided
  BY <1>3 DEF Decided
<1>6. Links /\ RunLevels /\ Account /\ Stopped
  BY <1>2, <1>4 DEF Links, RunLevels, Account, Stopped
<1>7. Pending /\ Fresh
  BY <1>2, <1>4 DEF Pending, Fresh, UpToDate
<1>8. Masked /\ Ready /\ Runs
  BY <1>2, <1>4 DEF Masked, MaskedIsDown, Ready, Runs
<1> QED
  BY <1>1, <1>2, <1>5, <1>6, <1>7, <1>8 DEF IInv, Base

(* A machine with systemd can run what has a unit, and nothing else.         *)
LEMMA OnSystemdRuns ==
    ASSUME host.os = "systemd"
    PROVE  (WithUnit => Runnable) /\ (WithoutUnit => NotRunnable)
  BY DEF WithUnit, WithoutUnit, Runnable, NotRunnable, CanRun

(* Every step keeps it: whatever dpkg, the administrator or a reboot does.   *)
LEMMA InvariantStep ==
    ASSUME IInv, [Next]_vars
    PROVE  IInv'
<1>1. Base
  BY DEF IInv, Base
<1>2. Base'
  BY <1>1, BaseStep
<1>3. built' = built /\ host'.os = host.os
  BY <1>1, SameMachine
<1>4. /\ WithService' <=> WithService
      /\ WithoutService' <=> WithoutService
      /\ WithUnit' <=> WithUnit
      /\ WithoutUnit' <=> WithoutUnit
      /\ WithScript' <=> WithScript
      /\ WithoutScript' <=> WithoutScript
  BY <1>3 DEF WithService, WithoutService, WithUnit, WithoutUnit, WithScript, WithoutScript
<1>5. Runnable' <=> Runnable
  BY <1>3 DEF Runnable, CanRun
<1>6. Decided'
  BY <1>1, DecidedStep DEF IInv
<1>7. WithUnit' \/ WithoutUnit' => Links'
  BY <1>1, <1>4, LinksStep DEF IInv
<1>8. WithScript' \/ WithoutScript' => RunLevels'
  BY <1>1, <1>4, RunLevelsStep DEF IInv
<1>9. WithService' \/ WithoutService' => Account'
  BY <1>1, <1>4, AccountStep DEF IInv
<1>10. Runnable' => Stopped'
  BY <1>1, <1>5, StoppedStep DEF IInv
<1>11. NotRunnable' => host'.running = None
  BY <1>1, NotRunnableStep DEF IInv
<1>12. ASSUME host'.os = "systemd", WithUnit'
       PROVE  Pending' /\ Fresh' /\ Masked' /\ Ready' /\ Runs'
  <2>1. host.os = "systemd" /\ WithUnit /\ Runnable
    BY <1>3, <1>4, <1>12, OnSystemdRuns
  <2>2. Pending /\ Fresh /\ Masked /\ Ready /\ Runs /\ Stopped
    BY <2>1 DEF IInv
  <2>3. Stopped'
    BY <1>5, <1>10, <2>1
  <2>4. Pending' /\ Ready'
    BY <1>1, <2>1, <2>2, PendingStep, ReadyStep
  <2>5. Fresh'
    BY <1>1, <2>1, <2>2, <2>3, FreshStep
  <2>6. Masked' /\ Runs'
    BY <1>1, <2>1, <2>2, MaskedStep, RunsStep
  <2> QED
    BY <2>4, <2>5, <2>6
<1> QED
  BY <1>2, <1>6, <1>7, <1>8, <1>9, <1>10, <1>11, <1>12 DEF IInv, Base

-----------------------------------------------------------------------------
(* What follows from it.                                                     *)

(* Versions built alike all have what one of them has.                       *)
LEMMA BuiltAlike ==
    ASSUME SameInit
    PROVE  /\ WithService \/ WithoutService
           /\ WithUnit \/ WithoutUnit
           /\ WithScript \/ WithoutScript
           /\ Runnable \/ NotRunnable
<1>1. \A u, v \in Version : built[u] = built[v]
  BY DEF SameInit
<1> QED
  BY <1>1 DEF WithService, WithoutService, WithUnit, WithoutUnit, WithScript, WithoutScript,
              Runnable, NotRunnable, CanRun

(* When dpkg is done nothing is ahead, and the record says what it will.     *)
LEMMA DoneIs ==
    ASSUME Idle
    PROVE  Goal = dpkg.status /\ \A d : ~Still(d)
  BY DEF Idle, Goal, Still, Ahead

(* A process that runs when dpkg is done is of the files that are installed, *)
(* unless a version was skipped.                                             *)
LEMMA InvariantCurrent ==
    ASSUME IInv
    PROVE  RunningIsCurrent
<1> SUFFICES ASSUME Settled, OnSystemd, ~skipped
             PROVE  host.running \in {None, host.files}
  BY DEF RunningIsCurrent
<1>1. host.os = "systemd" /\ SameInit /\ Idle /\ dpkg.status = "installed"
  BY DEF Settled, OnSystemd
<1>2. CASE WithUnit
  <2>1. Fresh /\ Goal = "installed" /\ ~Still("postinst-systemd-restart")
    BY <1>1, <1>2, DoneIs DEF IInv
  <2> QED
    BY <2>1 DEF Fresh, UpToDate
<1>3. CASE WithoutUnit
  BY <1>1, <1>3, OnSystemdRuns DEF IInv
<1> QED
  BY <1>1, <1>2, <1>3, BuiltAlike

(* And an enabled service runs then, unless somebody stopped it or a version *)
(* was skipped.                                                              *)
LEMMA InvariantRunning ==
    ASSUME IInv
    PROVE  EnabledMeansRunning
<1> SUFFICES ASSUME Settled, OnSystemd, ~skipped, host.enabled, host.mask # "admin",
                    ~admin.stopped, host.defaults = "present"
             PROVE  host.running = host.files
  BY DEF EnabledMeansRunning
<1>1. host.os = "systemd" /\ SameInit /\ Idle /\ dpkg.status = "installed"
  BY DEF Settled, OnSystemd
<1>2. host.running \in {None, host.files}
  BY InvariantCurrent DEF RunningIsCurrent
<1>3. CASE WithUnit
  <2>1. Runs /\ Goal = "installed" /\ ~Still("postinst-systemd-restart")
    BY <1>1, <1>3, DoneIs DEF IInv
  <2> QED
    BY <1>2, <2>1 DEF Runs, Unskipped, Up
<1>4. CASE WithoutUnit
  BY <1>4 DEF IInv, Links
<1> QED
  BY <1>1, <1>3, <1>4, BuiltAlike

(* What the administrator decided stands.                                    *)
LEMMA InvariantDecided ==
    ASSUME IInv
    PROVE  AdminDecisionsSurvive
<1>1. Decided
  BY DEF IInv
<1> QED
  BY <1>1 DEF Decided, AdminDecisionsSurvive, Enabled

(* A removed package does not run, and a purged one leaves nothing.          *)
LEMMA InvariantRemoval ==
    ASSUME IInv
    PROVE  RemovalLeavesNothing
<1>1. ASSUME Idle, SameInit, dpkg.status \in Gone
      PROVE  host.running = None /\ host.files = None
  <2>1. host.files = None
    BY <1>1 DEF IInv, TypeOK, Gone
  <2> QED
    BY <1>1, <2>1, BuiltAlike DEF IInv, Stopped
<1>2. ASSUME Idle, SameInit, dpkg.status = "not-installed"
      PROVE  /\ ~recorded /\ ~host.enabled /\ host.rc = "none" /\ host.mask # "own"
             /\ ~host.account /\ ~host.logdir
  <2>1. Links /\ RunLevels /\ Account
    BY <1>2, BuiltAlike DEF IInv
  <2>2. \A d : Forgotten(d)
    BY <1>2, DoneIs DEF Forgotten
  <2> QED
    BY <2>1, <2>2 DEF Links, RunLevels, Account
<1> QED
  BY <1>1, <1>2 DEF RemovalLeavesNothing, StoppedAfterRemoval, PurgeLeavesNothing, Gone

(* The invariant holds of every behaviour, for any versions, builds, init    *)
(* systems and administrator.                                                *)
THEOREM Invariant == Spec => []IInv
<1>1. Init => IInv
  BY InvariantInit
<1>2. IInv /\ [Next]_vars => IInv'
  BY InvariantStep
<1> QED
  BY <1>1, <1>2, PTL DEF Spec

(* What dpkg records has its type and, between operations, agrees with the   *)
(* files: deb/scripts.rs has the scripts called in no other states.          *)
THEOREM TypesAreKept == Spec => []TypeOK
<1>1. IInv => TypeOK
  BY DEF IInv
<1> QED
  BY <1>1, Invariant, PTL

(* postinst's restart snippet, whichever call runs it, never leaves a        *)
(* process of replaced files or of a stale unit behind on systemd, unless    *)
(* dpkg went on from a version that was never configured.                    *)
THEOREM UpgradesReplace == Spec => []RunningIsCurrent
<1>1. IInv => RunningIsCurrent
  BY InvariantCurrent
<1> QED
  BY <1>1, Invariant, PTL

(* No sequence of installs, upgrades, aborts and retries leaves an enabled   *)
(* service down on systemd that nobody stopped: postinst lifts the removal's *)
(* mask before it starts the unit, and makes what the unit needs before.     *)
(* Only where dpkg went on from a version never configured it may not.       *)
THEOREM EnabledServicesRun == Spec => []EnabledMeansRunning
<1>1. IInv => EnabledMeansRunning
  BY InvariantRunning
<1> QED
  BY <1>1, Invariant, PTL

(* No maintainer script overrules the administrator on any init system, as   *)
(* the snippets' was-enabled, invoke and update-rc.d calls have it.          *)
THEOREM DecisionsStand == Spec => []AdminDecisionsSurvive
<1>1. IInv => AdminDecisionsSurvive
  BY InvariantDecided
<1> QED
  BY <1>1, Invariant, PTL

(* prerm stops the service before its files go, on any init system, and the  *)
(* purge of postrm leaves no link, mask, record, account or log behind.      *)
THEOREM RemovalsAreComplete == Spec => []RemovalLeavesNothing
<1>1. IInv => RemovalLeavesNothing
  BY InvariantRemoval
<1> QED
  BY <1>1, Invariant, PTL
=============================================================================
