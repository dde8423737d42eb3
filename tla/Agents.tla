------------------------------- MODULE Agents -------------------------------
(***************************************************************************)
(* Children of the app: which agent CLIs there are, where this machine has *)
(* them (crates/host/src/agent.rs), how one is started in a pane and       *)
(* watched until it proves itself (launch.rs), and the two C entry points  *)
(* that spawn a shell or an agent (crates/host/src/lib.rs).                *)
(*                                                                         *)
(* An argv is a sequence of words, a path a pair of a directory of PATH    *)
(* and a binary; an option is a sequence of at most one.  The clock counts *)
(* ticks of the watching loop.                                             *)
(***************************************************************************)
EXTENDS Naturals, Sequences, SequencesExt, FiniteSetsExt

CONSTANTS Registry,  \* REGISTRY: the candidates of each agent, and its grace
          Unknown,   \* an id no agent has
          PathDirs,  \* PATH
          Spots,     \* where a runnable file may appear
          Argvs,     \* what a caller adds
          DangerousWords, \* DANGEROUS: sequences of whole words
          HitFor, MissFor, Settle, Base, Tries, SpawnTries,
          MaxClock, MaxKids, MaxChanges \* bounds

ASSUME AgentsAssumption ==
  /\ {HitFor, MissFor, Settle, Base, Tries, SpawnTries, MaxClock, MaxKids, MaxChanges} \subseteq Nat
  /\ Unknown \notin DOMAIN Registry /\ \A id \in DOMAIN Registry : Registry[id].grace \in Nat
  /\ \A n \in 0 .. Tries : Base * 2^n \in Nat
  /\ Argvs \subseteq Seq(STRING) /\ DangerousWords \subseteq Seq(STRING) \ {<<>>}

VARIABLES clock,
          installed, \* the runnable files, and how often that changed
          probe,     \* Probe.found
          lastTrue,  \* when each answer to a resolve was last true
          kids,      \* the children, in the order they were spawned
          job,       \* the launch or the C call in progress
          said       \* what the last call came to

avars == <<clock, installed, probe, lastTrue, kids, job, said>>

Ids == DOMAIN Registry

-----------------------------------------------------------------------------
(* Availability.                                                           *)

Which(files, binary) ==
  LET dirs == SelectSeq(PathDirs, LAMBDA d : <<d, binary>> \in files)
  IN IF dirs = <<>> THEN <<>> ELSE <<<<dirs[1], binary>>>>

\* The first candidate that is there.
Walk(files, id) ==
  LET hits == SelectSeq(Registry[id].candidates, LAMBDA c : Which(files, c) # <<>>)
  IN IF hits = <<>> THEN <<>> ELSE Which(files, hits[1])

\* A miss trusted as long as a hit.
FreshAlike(id) == probe[id] # <<>> /\ clock - probe[id][1].at < HitFor
Fresh(id) ==
  /\ probe[id] # <<>>
  /\ clock - probe[id][1].at < (IF probe[id][1].found = <<>> THEN MissFor ELSE HitFor)

Resolved(id) == IF Fresh(id) THEN probe[id][1].found ELSE Walk(installed.files, id)
Remember(ids) ==
  probe' = [id \in Ids |-> IF id \notin ids \/ Fresh(id) THEN probe[id]
                           ELSE <<[found |-> Walk(installed.files, id), at |-> clock]>>]

\* Bookkeeping of the properties: every answer that is true now.
Noted(files, now) ==
  [id \in Ids |-> {t \in lastTrue[id] : t.found # Walk(files, id)} \union {[found |-> Walk(files, id), at |-> now]}]

-----------------------------------------------------------------------------
(* The guard, on whole words.                                              *)

ScreenOneWord(argv) == {i \in DOMAIN argv : <<argv[i]>> \in DangerousWords}
Screen(argv) ==
  {i \in DOMAIN argv : \E s \in DangerousWords : IsPrefix(s, SubSeq(argv, i, Len(argv)))}

-----------------------------------------------------------------------------
(* The command: where it stands and what it is told.  HOME is a directory; *)
(* a caller's directory may be gone.                                       *)

Dress == [cwd |-> "home", pwd |-> "home", term |-> TRUE, marked |-> FALSE]

\* The order reversed: the caller's directory, then the dressing.
ApplyCwdFirst(command, cwd) == IF cwd = "there" THEN [command EXCEPT !.cwd = "home"] ELSE command
ApplyCwd(command, cwd)      == IF cwd = "there" THEN [command EXCEPT !.cwd = "there"] ELSE command

\* The shell, or a command given as text, which keeps the app's directory.
BuildCommand(shell, cwd) ==
  [ApplyCwd([Dress EXCEPT !.cwd = IF shell THEN "home" ELSE "app", !.pwd = "app"], cwd)
     EXCEPT !.term = TRUE]

Kid(asked, command) ==
  [run |-> asked.id, argv |-> asked.argv, cwd |-> asked.cwd, command |-> command, state |-> "runs",
   wrote |-> FALSE, shown |-> FALSE, first |-> MaxClock]
Alive(k) == kids[k].state = "runs"

-----------------------------------------------------------------------------
(* The machine and the children.                                           *)

NoJob == [kind |-> "none", phase |-> "none", id |-> Unknown, argv |-> <<>>, cwd |-> "none", index |-> 0,
          until |-> 0, started |-> 0, wroteAt |-> <<>>, wrote |-> FALSE, attempts |-> <<>>, shell |-> FALSE]
Nothing == [call |-> "none", result |-> "none", id |-> Unknown, found |-> <<>>, argv |-> <<>>, kid |-> 0, at |-> 0]

AgentsInit ==
  /\ clock = 0 /\ \E files \in SUBSET Spots : installed = [files |-> files, changes |-> 0]
  /\ probe = [id \in Ids |-> <<>>]
  /\ lastTrue = [id \in Ids |-> {[found |-> Walk(installed.files, id), at |-> 0]}]
  /\ kids = <<>> /\ job = NoJob /\ said = Nothing

Pass ==
  /\ clock < MaxClock
  /\ clock' = clock + 1
  /\ lastTrue' = Noted(installed.files, clock + 1)
  /\ UNCHANGED <<installed, probe, kids, job, said>>

Installs(spot) ==
  /\ installed.changes < MaxChanges
  /\ \E files \in {(installed.files \union {spot}) \ (installed.files \intersect {spot})} :
       /\ installed' = [files |-> files, changes |-> installed.changes + 1]
       /\ lastTrue'  = Noted(files, clock)
  /\ UNCHANGED <<clock, probe, kids, job, said>>

\* The child that is watched writes, its pump publishes, it clears its screen, it
\* exits.
KidActs(k) ==
  /\ job.phase \in {"poll", "judge", "tick"} /\ k = Len(kids)
  /\ \/ Alive(k) /\ ~kids[k].wrote /\ kids' = [kids EXCEPT ![k].wrote = TRUE]
     \/ /\ kids[k].wrote /\ ~kids[k].shown
        /\ kids' = [kids EXCEPT ![k].shown = TRUE, ![k].first = Min({@, clock})]
     \/ Alive(k) /\ kids[k].shown /\ kids' = [kids EXCEPT ![k].shown = FALSE]
     \/ Alive(k) /\ kids' = [kids EXCEPT ![k].state = "dead"]
  /\ UNCHANGED <<clock, installed, probe, lastTrue, job, said>>

Machine == Pass \/ \E s \in Spots : Installs(s)

-----------------------------------------------------------------------------
(* launch::into_pane and observe.                                          *)

Done(call, result, id, argv, kid) ==
  /\ said' = [Nothing EXCEPT !.call = call, !.result = result, !.id = id, !.argv = argv, !.kid = kid]
  /\ job'  = NoJob

\* A bound: one launch or one spawn in a behaviour.
NotYet == job = NoJob /\ kids = <<>> /\ said = Nothing

\* The caller resolved the agent; the clock of the first attempt is now.
IntoPane(id, argv, cwd) ==
  /\ NotYet /\ Resolved(id) # <<>> /\ Remember({id})
  /\ job' = [NoJob EXCEPT !.kind = "pane", !.phase = "backoff", !.id = id, !.argv = argv, !.cwd = cwd,
                          !.until = clock, !.started = Len(kids)]
  /\ UNCHANGED <<clock, installed, lastTrue, kids, said>>

\* One attempt: screened, then spawned.  The caller's directory is not looked at
\* before, so one that is gone fails the spawn, which is not retried.
Attempt ==
  /\ job.phase = "backoff" /\ clock >= job.until /\ Len(kids) < MaxKids
  /\ \/ /\ Screen(job.argv) # {}
        /\ Done("pane", "Refused", job.id, job.argv, 0) /\ UNCHANGED kids
     \/ /\ Screen(job.argv) = {}
        /\ Done("pane", "Session", job.id, job.argv, 0) /\ UNCHANGED kids
     \/ /\ Screen(job.argv) = {} /\ job.cwd # "gone"
        /\ kids' = Append(kids, Kid(job, ApplyCwd(Dress, job.cwd)))
        /\ job'  = [job EXCEPT !.phase = "poll", !.until = clock + Registry[job.id].grace,
                               !.wroteAt = <<>>, !.wrote = FALSE]
        /\ UNCHANGED said
  /\ UNCHANGED <<clock, installed, probe, lastTrue>>

\* session.poll, and whether its frame shows any text.
ObservePoll ==
  /\ job.phase = "poll"
  /\ \E wrote \in {kids[Len(kids)].shown} :
       job' = [job EXCEPT !.phase = "judge", !.wrote = wrote,
                          !.wroteAt = IF wrote /\ @ = <<>> THEN <<clock>> ELSE @]
  /\ UNCHANGED <<clock, installed, probe, lastTrue, kids, said>>

Settled == job.wroteAt # <<>> /\ clock - job.wroteAt[1] >= Settle

\* Success before death.
VerdictHasty ==
  CASE Settled -> "Running"
    [] ~Settled /\ ~Alive(Len(kids)) -> "Exited"
    [] ~Settled /\ Alive(Len(kids)) /\ clock >= job.until -> IF job.wrote THEN "Running" ELSE "Silent"
    [] OTHER -> "none"
Verdict ==
  CASE ~Alive(Len(kids)) -> "Exited"
    [] Alive(Len(kids)) /\ Settled -> "Running"
    [] Alive(Len(kids)) /\ ~Settled /\ clock >= job.until -> IF job.wrote THEN "Running" ELSE "Silent"
    [] OTHER -> "none"

\* The wait doubles from Base, until every attempt is used.
TryAgain ==
  IF job.index + 1 < Max({Tries, 1})
  THEN /\ job' = [job EXCEPT !.phase = "backoff", !.index = @ + 1, !.attempts = Append(@, Verdict),
                             !.until = clock + Base * 2^job.index]
       /\ UNCHANGED said
  ELSE Done("pane", "Failed", job.id, job.argv, 0)

\* A failed attempt that leaves its child to a destructor further up.
RetryKeeping == UNCHANGED kids /\ TryAgain
Retry        == kids' = [kids EXCEPT ![Len(kids)].state = "shut"] /\ TryAgain

ObserveJudge ==
  /\ job.phase = "judge"
  /\ \/ Verdict = "none" /\ job' = [job EXCEPT !.phase = "tick"] /\ UNCHANGED <<kids, said>>
     \/ Verdict = "Running" /\ Done("pane", "Running", job.id, job.argv, Len(kids)) /\ UNCHANGED kids
     \/ Verdict \notin {"none", "Running"} /\ Retry
  /\ UNCHANGED <<clock, installed, probe, lastTrue>>

\* sleep(TICK)
ObserveSleeps ==
  /\ job.phase = "tick"
  /\ clock < MaxClock /\ clock' = clock + 1 /\ lastTrue' = Noted(installed.files, clock + 1)
  /\ job' = [job EXCEPT !.phase = "poll"]
  /\ UNCHANGED <<installed, probe, kids, said>>

-----------------------------------------------------------------------------
(* The C entry points.                                                     *)

\* mind2t_agent_resolve
AgentResolve(id) ==
  /\ job = NoJob
  /\ IF id \in Ids
     THEN /\ said' = [Nothing EXCEPT !.call = "resolve", !.id = id, !.found = Resolved(id), !.at = clock,
                                     !.result = IF Resolved(id) = <<>> THEN "Ignored" ELSE "Success"]
          /\ Remember({id})
     ELSE said' = [Nothing EXCEPT !.call = "resolve", !.result = "InvalidValue"] /\ UNCHANGED probe
  /\ UNCHANGED <<clock, installed, lastTrue, kids, job>>

\* Probe::available
Available ==
  /\ job = NoJob
  /\ Remember(Ids)
  /\ said' = [Nothing EXCEPT !.call = "available", !.result = "Success"]
  /\ UNCHANGED <<clock, installed, lastTrue, kids, job>>

\* mind2t_agent_screen
AgentScreen(argv) ==
  /\ job = NoJob
  /\ said' = [Nothing EXCEPT !.call = "screen", !.argv = argv,
                             !.result = IF Screen(argv) = {} THEN "Success" ELSE "Refused"]
  /\ UNCHANGED <<clock, installed, probe, lastTrue, kids, job>>

\* mind2t_host_spawn and mind2t_host_spawn_agent, up to the renderer: a command
\* that cannot be built, nothing installed, a machine that cannot render.
HostSpawn(shell, cwd) ==
  /\ NotYet
  /\ \/ \E why \in {"InvalidValue", "RenderFailed"} : Done("spawn", why, Unknown, <<>>, 0)
     \/ /\ job' = [NoJob EXCEPT !.kind = "spawn", !.phase = "spawn", !.shell = shell, !.cwd = cwd]
        /\ UNCHANGED said
  /\ UNCHANGED <<clock, installed, probe, lastTrue, kids>>

HostSpawnAgent(id, argv, cwd) ==
  /\ NotYet
  /\ \/ /\ id \notin Ids
        /\ Done("agent", "InvalidValue", id, argv, 0) /\ UNCHANGED probe
     \/ /\ id \in Ids /\ Screen(argv) # {}
        /\ Done("agent", "Refused", id, argv, 0) /\ UNCHANGED probe
     \/ /\ id \in Ids /\ Screen(argv) = {} /\ Remember({id})
        /\ \/ Resolved(id) = <<>> /\ Done("agent", "Ignored", id, argv, 0)
           \/ /\ Resolved(id) # <<>>
              /\ \/ Done("agent", "RenderFailed", id, argv, 0)
                 \/ /\ job' = [NoJob EXCEPT !.kind = "agent", !.phase = "spawn", !.id = id, !.argv = argv,
                                            !.cwd = cwd]
                    /\ UNCHANGED said
  /\ UNCHANGED <<clock, installed, lastTrue, kids>>

\* spawn_into's loop: the pty is opened, or it is tried again, or given up.
SpawnInto ==
  /\ job.phase = "spawn"
  /\ \E command \in {IF job.kind = "agent" THEN ApplyCwd(Dress, job.cwd) ELSE BuildCommand(job.shell, job.cwd)} :
       \/ /\ kids' = Append(kids, Kid(job, command))
          /\ Done(job.kind, "Success", job.id, job.argv, Len(kids) + 1)
       \/ /\ job.index < SpawnTries - 1
          /\ job' = [job EXCEPT !.index = @ + 1] /\ UNCHANGED <<kids, said>>
       \/ /\ job.index >= SpawnTries - 1
          /\ Done(job.kind, "SpawnFailed", job.id, job.argv, 0) /\ UNCHANGED kids
  /\ UNCHANGED <<clock, installed, probe, lastTrue>>

Cwds == {"none", "there", "gone"}

\* Two halves that meet in Resolved: a menu asks while the machine changes, and
\* children are started and watched on a machine that stays as it is.
MenuNext ==
  \/ Machine \/ Available
  \/ \E id \in Ids \union {Unknown} : AgentResolve(id)
  \/ \E argv \in Argvs : AgentScreen(argv)
LaunchNext ==
  \/ job.phase \in {"backoff", "judge"} /\ Pass
  \/ \E k \in DOMAIN kids : KidActs(k)
  \/ \E id \in Ids, argv \in Argvs, cwd \in Cwds : IntoPane(id, argv, cwd)
  \/ Attempt \/ ObservePoll \/ ObserveJudge \/ ObserveSleeps
  \/ \E shell \in BOOLEAN, cwd \in Cwds : HostSpawn(shell, cwd)
  \/ \E id \in Ids \union {Unknown}, argv \in Argvs, cwd \in Cwds : HostSpawnAgent(id, argv, cwd)
  \/ SpawnInto

-----------------------------------------------------------------------------
(* Properties.                                                             *)

\* "two agents holding the same worktree is a problem that surfaces as file
\* corruption": of the children of one launch at most one is left at a time, none
\* while it waits to try again, and none once it has failed.
OneAgentAtATime ==
  LET mine == {k \in DOMAIN kids : k > job.started /\ kids[k].state # "shut"}
  IN job.kind = "pane" => Cardinality(mine) <= (IF job.phase = "backoff" THEN 0 ELSE 1)
NoneLeft ==
  job.kind = "pane" /\ job' = NoJob /\ said'.result # "Running" =>
    \A k \in job.started + 1 .. Len(kids') : kids'[k].state = "shut"

\* "It wrote something and was still alive afterwards": the child of a launch that
\* succeeded wrote, is alive, and has been seen long enough or all its grace.
RunningIsProven ==
  job.kind = "pane" /\ job' = NoJob /\ said'.result = "Running" =>
    /\ kids'[said'.kid].wrote /\ kids'[said'.kid].state = "runs"
    /\ clock >= Min({kids[said'.kid].first + Settle, job.until})

\* "a hit is stable for five minutes, a miss is re-checked after ten seconds":
\* what a resolve answers was the machine's answer that recently.
ResolveIsRecent ==
  said' # said /\ said'.call = "resolve" /\ said'.id \in Ids =>
    \E t \in lastTrue[said'.id] :
      t.found = said'.found /\ clock - t.at < Max({1, IF t.found = <<>> THEN MissFor ELSE HitFor})

\* "it must stay silent for --autosave": no child has an approval bypass among the
\* words the caller added, and only one that has is refused.
Bypasses(argv) == \E i, j \in DOMAIN argv : SubSeq(argv, i, j) \in DangerousWords
GuardIsExact ==
  /\ \A k \in DOMAIN kids : ~Bypasses(kids[k].argv)
  /\ said.result = "Refused" => Bypasses(said.argv)

\* What "every child spawned into a pane is handed", on every path: TERM declared,
\* no session marker, and the caller's directory wherever that is there.
EveryChildDressed ==
  \A k \in DOMAIN kids :
    LET command == kids[k].command IN
    /\ command.term /\ ~command.marked
    /\ kids[k].cwd = "there" => command.cwd = "there"
    /\ kids[k].cwd # "there" /\ kids[k].run \in Ids => command.cwd = "home"

LaunchesHold == [](OneAgentAtATime /\ GuardIsExact /\ EveryChildDressed)
                /\ [][NoneLeft /\ RunningIsProven /\ ResolveIsRecent]_avars
=============================================================================
