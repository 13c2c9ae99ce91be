------------------------------- MODULE Login --------------------------------
(* System Two: reasoning calls of the daemon's workers (reasoning.rs), their *)
(* budget and verdict (system_two.rs), and the Codex login they share with   *)
(* the Codex CLI (plugins/openai/src/codex).                                 *)
(*                                                                           *)
(* The provider issues an access and a refresh token together, the n-th of a *)
(* login; a refresh token is good once.  The CLI, the user and the clock go  *)
(* on at every step of a worker; only the lock keeps workers apart.          *)
EXTENDS Integers, FiniteSets, Sequences

CONSTANTS
    Callers,      \* workers of System Two, each with a registry of its own
    NoCaller,     \* of a lock nobody has
    MaxAsked,     \* bound: calls
    MaxIssued,    \* bound: refreshes of a login
    MaxLogins,    \* bound: logins of the user
    MaxFaults     \* bound: replies and writes lost, and deaths of the daemon

ASSUME LoginAssumption ==
    /\ NoCaller \notin Callers
    /\ {MaxAsked, MaxIssued, MaxLogins, MaxFaults} \subseteq Nat

VARIABLES
    login,      \* auth.json: which login's which tokens
    issued,     \* provider: how often each login's tokens were issued
    expired,    \* access tokens about to expire, or past it
    cached,     \* CodexAuth.cached
    locked,     \* who holds its lock
    call,       \* each worker's call
    client,     \* what the CLI does
    profiles,   \* judge.json: a profile that can be used, one switched off, no JSON
    asked,      \* calls so far
    faults,     \* faults so far
    spent,      \* history: refresh tokens the workers used up
    resent,     \* history: one of them was sent again
    unsaved,    \* history: logins with tokens issued that nobody kept
    overtaken   \* history: logins that were written while another was refreshed

loginVars == <<login, issued, expired, cached, locked, call, client, profiles,
               asked, faults, spent, resent, unsaved, overtaken>>

Tokens(l, n) == [login |-> l, issue |-> n]
NoTokens == Tokens(0, 0)

\* A worker without a call: of the last, whether it brought a verdict stays, and
\* whether the model had refused.
Idle == [at |-> "idle", file |-> NoTokens, knows |-> "on", verdict |-> FALSE,
         refused |-> FALSE]

LoginInit ==
    /\ login = Tokens(1, 1) /\ issued = <<1>>
    /\ expired = {}
    /\ cached = NoTokens /\ locked = NoCaller
    /\ call = [w \in Callers |-> Idle]
    /\ client = [at |-> "idle", file |-> NoTokens]
    /\ profiles = "on" /\ asked = 0 /\ faults = 0
    /\ spent = {} /\ resent = FALSE /\ unsaved = {} /\ overtaken = {}

Fresh(tokens) == tokens # NoTokens /\ tokens \notin expired

At(w, place) == call[w].at = place

\* A worker goes on, and what it knows of the profiles stays.
Goes(w, place) == call' = [call EXCEPT ![w].at = place]

Fails(w) ==
    call' = [call EXCEPT ![w] = [Idle EXCEPT !.knows = call[w].knows]]

Fault == faults < MaxFaults /\ faults' = faults + 1

Unlock == locked' = NoCaller

files == <<login, issued, expired>>
history == <<spent, resent, unsaved, overtaken>>

-----------------------------------------------------------------------------
(* A call: run_attempt, Registry::reason_with, CodexBackend::send.           *)

\* Registry.config.current: a file that is no profile changes nothing.
Knows(w) == IF profiles = "broken" THEN call[w].knows ELSE profiles

\* The request is too large, System Two is off, its profile or backend is
\* missing, or there is no time: nothing is sent.
Ask(w) ==
    /\ At(w, "idle") /\ asked < MaxAsked /\ asked' = asked + 1
    /\ \/ /\ Knows(w) = "on"
          /\ call' = [call EXCEPT ![w] = [Idle EXCEPT !.at = "lock", !.knows = "on"]]
       \/ call' = [call EXCEPT ![w] = [Idle EXCEPT !.knows = Knows(w)]]
    /\ UNCHANGED <<files, cached, locked, client, profiles, faults, history>>

\* Without the lock: the file is read while another worker refreshes it.
LockableAlways(w) == TRUE

Lockable(w) == locked = NoCaller

Lock(w) ==
    /\ At(w, "lock") /\ Lockable(w)
    /\ IF Fresh(cached) THEN Goes(w, "send") /\ UNCHANGED locked
       ELSE Goes(w, "read") /\ locked' = w
    /\ UNCHANGED <<files, cached, client, profiles, asked, faults, history>>

\* CodexAuth::read, after the CLI may have refreshed it.
ReadLogin(w) ==
    /\ At(w, "read")
    /\ IF Fresh(login)
       THEN cached' = login /\ Goes(w, "send") /\ Unlock
       ELSE /\ call' = [call EXCEPT ![w].at = "post", ![w].file = login]
            /\ UNCHANGED <<cached, locked>>
    /\ UNCHANGED <<files, client, profiles, asked, faults, history>>

Current(tokens) == issued[tokens.login] = tokens.issue

Issue(l) ==
    /\ issued[l] < MaxIssued
    /\ issued' = [issued EXCEPT ![l] = @ + 1]

Spends(tokens) ==
    /\ spent' = IF Current(tokens) THEN spent \cup {tokens} ELSE spent
    /\ resent' = (resent \/ (tokens \in spent /\ tokens.login \notin unsaved))

\* CodexAuth::refresh: the provider takes a refresh token once.
Refresh(w) ==
    /\ At(w, "post")
    /\ Spends(call[w].file)
    /\ IF Current(call[w].file)
       THEN Issue(call[w].file.login) /\ Goes(w, "save") /\ UNCHANGED locked
       ELSE Fails(w) /\ Unlock /\ UNCHANGED issued
    /\ UNCHANGED <<login, expired, cached, client, profiles, asked, faults,
                   unsaved, overtaken>>

\* It does not get there, or its reply does not come back.
RefreshLost(w) ==
    /\ At(w, "post") /\ Fault
    /\ Fails(w) /\ Unlock
    /\ \/ UNCHANGED <<issued, unsaved, spent, resent>>
       \/ /\ Current(call[w].file) /\ Issue(call[w].file.login)
          /\ Spends(call[w].file)
          /\ unsaved' = unsaved \cup {call[w].file.login}
    /\ UNCHANGED <<login, expired, cached, client, profiles, asked, overtaken>>

\* What is written over: a login of the user's, made since the file was read.
Overtakes(read) ==
    overtaken' = IF login.login # read.login THEN overtaken \cup {login.login}
                 ELSE overtaken

Refreshed(read) == Tokens(read.login, issued[read.login])

\* write: a temporary file, then renamed.
SaveLogin(w) ==
    /\ At(w, "save")
    /\ login' = Refreshed(call[w].file) /\ cached' = login'
    /\ Overtakes(call[w].file)
    /\ call' = [call EXCEPT ![w].at = "send", ![w].file = NoTokens] /\ Unlock
    /\ UNCHANGED <<issued, expired, client, profiles, asked, faults,
                   spent, resent, unsaved>>

SaveFails(w) ==
    /\ At(w, "save") /\ Fault
    /\ unsaved' = unsaved \cup {call[w].file.login}
    /\ Fails(w) /\ Unlock
    /\ UNCHANGED <<files, cached, client, profiles, asked, spent, resent,
                   overtaken>>

\* CodexBackend::send: there is no time left, the provider fails, or it rejects
\* the token.
SendFails(w) ==
    /\ At(w, "send")
    /\ Fails(w) \/ Goes(w, "forget")
    /\ UNCHANGED <<files, cached, locked, client, profiles, asked, faults, history>>

\* CodexAuth::forget.
Forget(w) ==
    /\ At(w, "forget") /\ locked = NoCaller
    /\ cached' = NoTokens /\ Fails(w)
    /\ UNCHANGED <<files, locked, client, profiles, asked, faults, history>>

\* What a completed stream is read as.
MayBeVerdict(text, refused) == text /\ ~refused

\* run_attempt: text that is no JSON, or does not fit the schema, is no verdict.
Verdict(text, refused, fits) == MayBeVerdict(text, refused) /\ fits

\* read_stream: what came of text and refusals, in any order, and whether the
\* response was completed, not cut off, filtered or failed.
Answers(w) ==
    /\ At(w, "send")
    /\ \E text, refused, completed, fits \in BOOLEAN :
         LET verdict == completed /\ Verdict(text, refused, fits)
         IN  call' = [call EXCEPT ![w] = [Idle EXCEPT !.knows = call[w].knows,
                                                      !.verdict = verdict,
                                                      !.refused = verdict /\ refused]]
    /\ UNCHANGED <<files, cached, locked, client, profiles, asked, faults, history>>

-----------------------------------------------------------------------------
(* Around them.                                                              *)

\* The Codex CLI reads, refreshes and writes on its own.
CLIReads ==
    /\ client.at = "idle" /\ ~Fresh(login)
    /\ client' = [at |-> "post", file |-> login]
    /\ UNCHANGED <<files, cached, locked, call, profiles, asked, faults, history>>

CLIRefreshes ==
    /\ client.at = "post"
    /\ IF Current(client.file)
       THEN Issue(client.file.login) /\ client' = [client EXCEPT !.at = "save"]
       ELSE client' = [client EXCEPT !.at = "idle"] /\ UNCHANGED issued
    /\ UNCHANGED <<login, expired, cached, locked, call, profiles, asked, faults,
                   history>>

CLISaves ==
    /\ client.at = "save"
    /\ login' = Tokens(client.file.login, issued[client.file.login])
    /\ Overtakes(client.file)
    /\ client' = [client EXCEPT !.at = "idle"]
    /\ UNCHANGED <<issued, expired, cached, locked, call, profiles, asked, faults,
                   spent, resent, unsaved>>

\* The user logs in.
LogsIn ==
    /\ Len(issued) < MaxLogins
    /\ issued' = Append(issued, 1)
    /\ login' = Tokens(Len(issued'), 1)
    /\ UNCHANGED <<expired, cached, locked, call, client, profiles, asked, faults,
                   history>>

\* Access tokens expire.
Expires(l) ==
    /\ Tokens(l, issued[l]) \notin expired
    /\ expired' = expired \cup {Tokens(l, issued[l])}
    /\ UNCHANGED <<login, issued, cached, locked, call, client, profiles, asked,
                   faults, history>>

EditProfiles(to) ==
    /\ profiles = "on" /\ to # profiles /\ profiles' = to
    /\ UNCHANGED <<files, cached, locked, call, client, asked, faults, history>>

\* The daemon dies, with what nobody wrote.
LoginCrash ==
    /\ Fault
    /\ unsaved' = unsaved \cup {call[w].file.login : w \in {v \in Callers : At(v, "save")}}
    /\ call' = [w \in Callers |-> Idle]
    /\ cached' = NoTokens /\ Unlock
    /\ UNCHANGED <<files, client, profiles, asked, spent, resent, overtaken>>

LoginNext ==
    \/ \E w \in Callers :
         \/ Ask(w) \/ Lock(w) \/ ReadLogin(w)
         \/ Refresh(w) \/ RefreshLost(w) \/ SaveLogin(w) \/ SaveFails(w)
         \/ SendFails(w) \/ Forget(w) \/ Answers(w)
    \/ CLIReads \/ CLIRefreshes \/ CLISaves \/ LogsIn \/ LoginCrash
    \/ \E l \in DOMAIN issued : Expires(l)
    \/ \E to \in {"off", "broken"} : EditProfiles(to)

LoginSpec == LoginInit /\ [][LoginNext]_loginVars

-----------------------------------------------------------------------------
(* Properties.                                                               *)

\* The file holds the refresh token the provider still takes.
StaysLoggedIn ==
    (/\ client.at # "save" /\ \A w \in Callers : ~At(w, "save")
     /\ login.login \notin unsaved)
    => Current(login)

\* The login the user made last is in it.
LatestLogin == login.login = Len(issued) \/ Len(issued) \in overtaken

\* Unless a reply or a write is lost, or the daemon dies in between, the Codex
\* CLI stays logged in whatever the daemon refreshes beside it; a login of the
\* user's is lost only if it came while tokens of another were refreshed; no
\* worker sends a refresh token another has used up; and text that came with
\* a refusal is never a verdict (auth.rs: so only one refreshes at a time, the
\* refreshed tokens are written back so the Codex CLI keeps working).
LoginKept ==
    /\ StaysLoggedIn /\ LatestLogin /\ ~resent
    /\ \A w \in Callers : call[w].verdict => ~call[w].refused
=============================================================================
