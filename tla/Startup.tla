------------------------------- MODULE Startup -------------------------------
(* How plugins of several sessions and versions come to a daemon: each looks *)
(* for one when it starts, uses it, starts its own, or stops it first        *)
(* (daemon.ts); a daemon reads the saved memory, takes the port, answers,    *)
(* and on request stops once its requests are finished (daemon/src/lib.rs).  *)
EXTENDS Integers, Sequences, FiniteSets

CONSTANTS
    Plugins, VersionOf, TokenOf,
    Configurable,   \* plugins that may be given CHAUFFEUR_DAEMON_URL, here this port
    Releases,
    Undated,        \* versions of daemons that know no deadline_ms
    NoToken,
    Unanswered,     \* health when nobody answers
    StopAttempts, StartAttempts,
    MaxDaemons, MaxReopened, MaxSent, MaxFaults    \* bounds

ASSUME StartupAssumption ==
    /\ VersionOf \in [Plugins -> Releases]
    /\ Configurable \subseteq Plugins /\ Undated \subseteq Releases
    /\ {StopAttempts, StartAttempts} \subseteq Nat \ {0}
    /\ {MaxDaemons, MaxReopened, MaxSent, MaxFaults} \subseteq Nat

VARIABLES
    daemons,    \* every daemon process so far
    plugins,    \* of each: stage, what it found and where, attempts left, signal
    state_file, \* signals whose effects on memory are saved
    answered,   \* history: signals answered
    faults      \* history: what went wrong, and how often plugins restarted

startupVars == <<daemons, plugins, state_file, answered, faults>>

NewPlugin == [stage |-> "new", configured |-> FALSE, seen |-> 0, left |-> 0,
              signal |-> "none", sent |-> 0]

StartupInit ==
    /\ daemons = << >> /\ state_file = {} /\ answered = {}
    /\ plugins = [p \in Plugins |-> NewPlugin]
    /\ faults = [late |-> 0, lost |-> 0, crashes |-> 0, restarts |-> 0]

-----------------------------------------------------------------------------
(* The port.                                                                 *)

On(stage) == {d \in DOMAIN daemons : daemons[d].stage = stage}

\* rpc, authorized: who listens, and answers p.
Answering(p) ==
    {d \in On("serving") : daemons[d].token \in {NoToken, TokenOf[p]}}

\* health
Health(p) ==
    IF Answering(p) = {} THEN Unanswered
    ELSE LET d == CHOOSE d \in Answering(p) : TRUE
         IN  [version |-> daemons[d].version, managed |-> daemons[d].managed]

StartupStep(p, found) ==
    CASE found = Unanswered -> IF plugins[p].configured THEN "unavailable" ELSE "start"
      [] found # Unanswered /\ found.version = VersionOf[p] -> "use"
      [] OTHER -> IF plugins[p].configured THEN "mismatch"
                  ELSE IF found.managed THEN "managed" ELSE "replace"

Process(version, token, managed) ==
    [stage |-> "booting", version |-> version, token |-> token,
     managed |-> managed, told |-> FALSE, memory |-> {}, requests |-> {}]

-----------------------------------------------------------------------------
(* The plugin: connect, settle, replace, start.                              *)

\* Faulty variant: the plugin starts its own without waiting for the port.
AfterShutdownAtOnce == [stage |-> "start", left |-> 0]

\* What a plugin does once its daemon said it would stop.
AfterShutdown == [stage |-> "waiting", left |-> StopAttempts]

At(p, stage, left) == plugins' = [plugins EXCEPT ![p].stage = stage, ![p].left = left]

Settled(p) == plugins[p].stage = "settled"

Decides(p, found, seen) ==
    LET step == StartupStep(p, found)
    IN  plugins' = [plugins EXCEPT
            ![p].stage = IF step \in {"start", "replace"} THEN step ELSE "settled",
            ![p].seen = seen]

Looks(p) ==
    /\ plugins[p].stage = "new"
    /\ Decides(p, Health(p),
               IF Answering(p) = {} THEN 0 ELSE CHOOSE d \in Answering(p) : TRUE)
    /\ UNCHANGED <<daemons, state_file, answered, faults>>

\* The daemon is too busy to answer in time.
LooksInVain(p) ==
    /\ plugins[p].stage = "new" /\ Answering(p) # {} /\ faults.late < MaxFaults
    /\ Decides(p, Unanswered, 0)
    /\ faults' = [faults EXCEPT !.late = @ + 1]
    /\ UNCHANGED <<daemons, state_file, answered>>

ToldToStop(those) ==
    daemons' = [d \in DOMAIN daemons |->
                  [daemons[d] EXCEPT !.told = @ \/ d \in those]]

\* Whoever listens now is asked to stop.
Shuts(p) ==
    /\ plugins[p].stage = "replace"
    /\ IF Answering(p) = {} THEN At(p, "settled", 0) /\ UNCHANGED daemons
       ELSE /\ daemons' = [d \in DOMAIN daemons |->
                 IF d \in Answering(p) THEN [daemons[d] EXCEPT !.told = TRUE] ELSE daemons[d]]
            /\ At(p, AfterShutdown.stage, AfterShutdown.left)
    /\ UNCHANGED <<state_file, answered, faults>>

\* It takes the request, and the plugin never hears of it.
ShutsUnheard(p) ==
    /\ plugins[p].stage = "replace" /\ Answering(p) # {} /\ faults.lost < MaxFaults
    /\ ToldToStop(Answering(p))
    /\ At(p, "settled", 0) /\ faults' = [faults EXCEPT !.lost = @ + 1]
    /\ UNCHANGED <<state_file, answered>>

\* One check of the wait; a daemon told to stop is gone from the port before
\* the last of them.
WaitsForPort(p) ==
    /\ plugins[p].stage = "waiting"
    /\ IF Answering(p) = {} \/ plugins[p].left = 0 THEN At(p, "start", 0)
       ELSE /\ plugins[p].left > 1 \/ \A d \in Answering(p) : ~daemons[d].told
            /\ At(p, "waiting", plugins[p].left - 1)
    /\ UNCHANGED <<daemons, state_file, answered, faults>>

Starts(p) ==
    /\ plugins[p].stage = "start" /\ Len(daemons) < MaxDaemons
    /\ daemons' = Append(daemons, Process(VersionOf[p], TokenOf[p], FALSE))
    /\ At(p, "starting", StartAttempts)
    /\ UNCHANGED <<state_file, answered, faults>>

\* One check of the start; the plugin goes on either way.
ChecksStart(p) ==
    /\ plugins[p].stage = "starting"
    /\ IF Answering(p) # {} \/ plugins[p].left = 1 THEN At(p, "settled", 0)
       ELSE At(p, "starting", plugins[p].left - 1)
    /\ UNCHANGED <<daemons, state_file, answered, faults>>

\* A new session, with CHAUFFEUR_DAEMON_URL or without.
Reopens(p) ==
    /\ Settled(p) /\ plugins[p].signal = "none" /\ faults.restarts < MaxReopened
    /\ \E configured \in {FALSE, (p \in Configurable)} :
         plugins' = [plugins EXCEPT ![p] =
           [NewPlugin EXCEPT !.configured = configured, !.sent = plugins[p].sent]]
    /\ faults' = [faults EXCEPT !.restarts = @ + 1]
    /\ UNCHANGED <<daemons, state_file, answered>>

-----------------------------------------------------------------------------
(* Signals: sendSignal.                                                      *)

Sends(p) ==
    /\ Settled(p) /\ plugins[p].signal = "none" /\ plugins[p].sent < MaxSent
    /\ plugins' = [plugins EXCEPT ![p].signal = "dated", ![p].sent = @ + 1]
    /\ UNCHANGED <<daemons, state_file, answered, faults>>

\* A daemon that knows no deadline refuses it, and is sent the signal without.
Reaches(p) ==
    LET signal == plugins[p].signal
        refuses(d) == signal = "dated" /\ daemons[d].version \in Undated
    IN  /\ signal \in {"dated", "plain"}
        /\ IF Answering(p) = {}
           THEN plugins' = [plugins EXCEPT ![p].signal = "none"] /\ UNCHANGED daemons
           ELSE \E d \in Answering(p) :
                  /\ plugins' = [plugins EXCEPT ![p].signal =
                                   IF refuses(d) THEN "plain" ELSE "judged"]
                  /\ daemons' = [daemons EXCEPT ![d].requests =
                                   IF refuses(d) THEN @ ELSE @ \cup {<<p, plugins[p].sent>>}]
        /\ UNCHANGED <<state_file, answered, faults>>

\* The host goes on without; the daemon does not know.
TimesOut(p) ==
    /\ plugins[p].signal = "judged"
    /\ plugins' = [plugins EXCEPT ![p].signal = "none"]
    /\ UNCHANGED <<daemons, state_file, answered, faults>>

-----------------------------------------------------------------------------
(* The daemon: from_env, serve, rpc.                                         *)

Becomes(d, stage) == daemons' = [daemons EXCEPT ![d].stage = stage]

\* The engine is built, with the memory saved until now.
Loads(d) ==
    /\ daemons[d].stage = "booting"
    /\ daemons' = [daemons EXCEPT ![d].stage = "loaded", ![d].memory = state_file]
    /\ UNCHANGED <<plugins, state_file, answered, faults>>

\* A daemon that finds the port taken gives up.
BindsOr(d) == IF On("serving") = {} THEN "serving" ELSE "gone"

Binds(d) ==
    /\ daemons[d].stage = "loaded"
    /\ Becomes(d, BindsOr(d))
    /\ UNCHANGED <<plugins, state_file, answered, faults>>

\* The listener closes; requests go on.
Closes(d) ==
    /\ daemons[d].stage = "serving" /\ daemons[d].told
    /\ Becomes(d, "closing")
    /\ UNCHANGED <<plugins, state_file, answered, faults>>

\* Answered, and memory saved.
Replies(d, s) ==
    /\ daemons[d].stage \in {"serving", "closing"} /\ s \in daemons[d].requests
    /\ daemons' = [daemons EXCEPT ![d].requests = @ \ {s}, ![d].memory = @ \cup {s}]
    /\ state_file' = daemons'[d].memory /\ answered' = answered \cup {s}
    /\ plugins' = [plugins EXCEPT ![s[1]].signal =
                      IF plugins[s[1]].sent = s[2] THEN "none" ELSE @]
    /\ UNCHANGED faults

Finishes(d) ==
    /\ daemons[d].stage = "closing" /\ daemons[d].requests = {}
    /\ Becomes(d, "gone")
    /\ UNCHANGED <<plugins, state_file, answered, faults>>

\* It dies, or its files are invalid; whoever waits for it sees the socket close.
Crashes(d) ==
    /\ daemons[d].stage # "gone" /\ faults.crashes < MaxFaults
    /\ daemons' = [daemons EXCEPT ![d].stage = "gone", ![d].requests = {}]
    /\ plugins' = [p \in Plugins |->
         IF <<p, plugins[p].sent>> \in daemons[d].requests
         THEN [plugins[p] EXCEPT !.signal = "none"] ELSE plugins[p]]
    /\ faults' = [faults EXCEPT !.crashes = @ + 1]
    /\ UNCHANGED <<state_file, answered>>

\* The service manager starts its daemon, and again when it stopped.
ManagerStarts(version) ==
    /\ Len(daemons) < MaxDaemons
    /\ \A d \in DOMAIN daemons : daemons[d].managed => daemons[d].stage = "gone"
    /\ daemons' = Append(daemons, Process(version, NoToken, TRUE))
    /\ UNCHANGED <<plugins, state_file, answered, faults>>

StartupNext ==
    \/ \E p \in Plugins :
         \/ Looks(p) \/ LooksInVain(p) \/ Shuts(p) \/ ShutsUnheard(p) \/ WaitsForPort(p)
         \/ Starts(p) \/ ChecksStart(p) \/ Reopens(p) \/ Sends(p) \/ Reaches(p)
         \/ TimesOut(p)
    \/ \E d \in DOMAIN daemons :
         \/ Loads(d) \/ Binds(d) \/ Closes(d) \/ Finishes(d) \/ Crashes(d)
         \/ \E s \in daemons[d].requests : Replies(d, s)
    \/ \E version \in Releases : ManagerStarts(version)

StartupSpec == StartupInit /\ [][StartupNext]_startupVars

-----------------------------------------------------------------------------
(* Properties.                                                               *)

Listens(d) == daemons[d].stage = "serving" /\ ~daemons[d].told

\* Whichever plugins start, stop and replace daemons beside each other, a
\* daemon is left, or coming, when all have settled: nobody looks again.
Served ==
    (\A p \in Plugins : Settled(p)) /\ faults.crashes = 0 /\ faults.lost = 0 =>
        \/ \A p \in Plugins : plugins[p].configured
        \/ \E d \in DOMAIN daemons : Listens(d) \/ daemons[d].stage \in {"booting", "loaded"}

\* A daemon that a plugin found is told to stop by it only if it is of another
\* version, and no manager's, nor the user's (daemon.ts: so an older session
\* cannot stop a newer service and the port keeps one owner).
OthersLeft ==
    /\ Cardinality(On("serving")) <= 1
    /\ \A p \in Plugins :
         plugins[p].stage \in {"replace", "waiting"} /\ plugins[p].seen # 0 =>
             LET found == daemons[plugins[p].seen]
             IN  ~plugins[p].configured /\ ~found.managed /\ found.version # VersionOf[p]

\* However many daemons are started at once, the one that gets the port has
\* what was answered so far, and saves all of it, as long as none before it
\* was told to stop or died.
MemoryKept ==
    faults.crashes = 0 /\ (\A d \in DOMAIN daemons : ~daemons[d].told) =>
        answered \subseteq state_file

DaemonServed == Served /\ OthersLeft /\ MemoryKept
=============================================================================
