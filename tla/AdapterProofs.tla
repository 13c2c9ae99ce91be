----------------------------- MODULE AdapterProofs -----------------------------
(* Proofs about Permission and Renewal, what the OpenCode plugin does between *)
(* the host and the daemon: nothing is granted but on a judge's word, what    *)
(* was judged irreversible is denied, warming reads no session that went on,  *)
(* and a context is renewed only cold; for any agents, contracts, requests,   *)
(* sessions, providers and bounds.                                            *)
EXTENDS Permission, Renewal, FiniteSetTheorems, SequenceTheorems, TLAPS

-----------------------------------------------------------------------------
(* Permission: the types.                                                    *)

AnswersOf == UNION {[asked -> Branches] : asked \in SUBSET Ids}

PermissionCall ==
    [stage : {"sent", "judging", "left", "replied", "settled"},
     request : Requests, host : HostDecisions, at : Nat, retries : Nat,
     decision : HostDecisions, answers : AnswersOf, known : BOOLEAN,
     reached : BOOLEAN]

PermissionTypeOK ==
    /\ calls \in [Askers -> {NoCall} \cup PermissionCall]
    /\ taught \subseteq Learnable
    /\ time \in Nat

-----------------------------------------------------------------------------
(* The inductive invariants.                                                 *)

Under(call) == call.stage \in {"sent", "judging", "left", "replied"}
Over(call) == call.stage \in {"replied", "settled"}

\* What the host asked about is allowed on a judge's word alone.
Granted(call) ==
    Over(call) /\ call.host = "ask" /\ call.decision = "allow" =>
        /\ ~call.request.vetoed /\ ~call.request.confirmed
        /\ \E id \in DOMAIN call.answers :
             Contracts[id].outcomes[call.answers[id]] = "allow"
        /\ \A id \in Matching(call) : Agrees(call, id)

\* What the host decided stands.
Stands(call) ==
    Over(call) =>
        /\ call.host = "deny" => call.decision = "deny"
        /\ call.host = "allow" /\ call.decision = "ask" => call.request.confirmed

\* No request the host denies is under way, and none is judged that the
\* backstop or the user had a say in.
EarnedInv ==
    \A a \in Askers : LET call == calls[a] IN
        /\ Under(call) => call.host # "deny"
        /\ call.stage \in {"judging", "left"} =>
             ~call.request.vetoed /\ ~call.request.confirmed
        /\ Granted(call) /\ Stands(call)

\* Known harm is in the backstop, and a request that has it is not judged.
Harmful(call) ==
    call.reached /\ call.known /\ call.request.command \in Learnable

HarmInv ==
    /\ condemned \cap Learnable \subseteq taught
    /\ \A a \in Askers : LET call == calls[a] IN
         /\ call.stage = "sent" => ~call.reached
         /\ call.stage \in {"judging", "left"} => ~Harmful(call)
         /\ Over(call) /\ Harmful(call) => call.decision = "deny"

-----------------------------------------------------------------------------
(* Contracts and decisions.                                                  *)

LEMMA ContractsAreValid ==
    ASSUME NEW id \in Ids
    PROVE  /\ Contracts[id].outcomes \in [Resolutions -> Outcomes]
           /\ \A o \in Resolutions \ {"positive", "negative"} :
                Contracts[id].outcomes[o] # "allow"
           /\ "allow" \in Contracts[id].hosts =>
                \A o \in Resolutions : Contracts[id].outcomes[o] \in {"deny", "abstain"}
  BY PermissionAssumption DEF ValidContract

\* A contract is resolved by its answer, if it was asked and has one, or by one
\* of the reasons it was not.
LEMMA ResolutionIs ==
    ASSUME NEW a \in Askers, NEW call, NEW answers \in AnswersOf, NEW id \in Ids
    PROVE  LET o == Resolution(a, call, answers, id)
           IN  /\ \/ id \in DOMAIN answers /\ o = answers[id]
                  \/ o \in Resolutions \ Branches
               /\ id \in Questioned(a, call) /\ id \in DOMAIN answers => o = answers[id]
<1> DEFINE missing == MissingEvidence(id, call.request)
           cooling == Cooling(a, id, call.at)
<1>1. Resolution(a, call, answers, id) =
        CASE missing -> "missing_evidence"
          [] ~missing /\ cooling -> "cooldown"
          [] OTHER -> IF id \in DOMAIN answers THEN answers[id] ELSE "judge_failure"
  BY DEF Resolution
<1>2. id \in Questioned(a, call) => ~missing /\ ~cooling
  BY DEF Questioned
<1> HIDE DEF missing, cooling
<1>3. QED
  BY <1>1, <1>2 DEF Resolutions, Branches

LEMMA AnswersAre ==
    ASSUME NEW answers \in AnswersOf
    PROVE  /\ DOMAIN answers \subseteq Ids
           /\ \A id \in DOMAIN answers : answers[id] \in Branches
  BY DEF AnswersOf

\* What contracts decide: for what the host allows never that it asks, and for
\* what it asks about an allow only by an answer and by none against it.
LEMMA DecisionIs ==
    ASSUME NEW a \in Askers, NEW call, call.host \in {"allow", "ask"},
           NEW answers \in AnswersOf,
           DOMAIN answers \in {{}, Questioned(a, call)}
    PROVE  LET decision == Decision(a, call, answers)
           IN  /\ decision \in HostDecisions
               /\ call.host = "allow" => decision # "ask"
               /\ call.host = "ask" /\ decision = "allow" =>
                    /\ \E id \in DOMAIN answers :
                         Contracts[id].outcomes[answers[id]] = "allow"
                    /\ \A id \in Matching(call) :
                         \E o \in IF id \in DOMAIN answers THEN {answers[id]}
                                   ELSE Resolutions \ Branches :
                            Contracts[id].outcomes[o] \in {"allow", "abstain"}
<1> DEFINE By(id) == Resolution(a, call, answers, id)
           outcomes == {Contracts[id].outcomes[By(id)] : id \in Matching(call)}
           decision == Decision(a, call, answers)
<1>1. /\ Matching(call) \subseteq Ids
      /\ \A id \in Matching(call) : call.host \in Contracts[id].hosts
  BY DEF Matching
<1>2. \A id \in Matching(call) :
        \/ id \in DOMAIN answers /\ By(id) = answers[id]
        \/ By(id) \in Resolutions \ Branches
  BY <1>1, ResolutionIs
<1>3. \A id \in Matching(call) : id \in DOMAIN answers => By(id) = answers[id]
  BY <1>1, ResolutionIs
<1>4. \A id \in Matching(call) : By(id) \in Resolutions
  BY <1>2, AnswersAre DEF Resolutions
<1> HIDE DEF By
<1>5. outcomes \subseteq Outcomes
  BY <1>1, <1>4, ContractsAreValid
<1>6. decision = Combined(call.host, outcomes)
  BY DEF Decision, By
<1>7. decision \in HostDecisions
  BY <1>6 DEF Combined, HostDecisions
<1>8. ASSUME call.host = "allow" PROVE decision # "ask"
  <2>1. outcomes \subseteq {"deny", "abstain"}
    BY <1>1, <1>4, <1>8, ContractsAreValid
  <2> HIDE DEF outcomes, decision
  <2>2. QED
    BY <1>6, <1>8, <2>1 DEF Combined
<1>9. ASSUME call.host = "ask", decision = "allow"
      PROVE  "allow" \in outcomes /\ outcomes \subseteq {"allow", "abstain"}
  <2> HIDE DEF outcomes, decision
  <2>1. QED
    BY <1>5, <1>6, <1>9 DEF Combined, Outcomes
<1>10. ASSUME call.host = "ask", decision = "allow"
       PROVE  \E id \in DOMAIN answers : Contracts[id].outcomes[answers[id]] = "allow"
  <2>1. PICK id \in Matching(call) : Contracts[id].outcomes[By(id)] = "allow"
    BY <1>9, <1>10
  <2>2. By(id) \notin Resolutions \ Branches
    BY <1>1, <2>1, ContractsAreValid DEF Branches
  <2>3. id \in DOMAIN answers /\ By(id) = answers[id]
    BY <1>2, <2>2
  <2>4. QED
    BY <2>1, <2>3
<1>11. ASSUME call.host = "ask", decision = "allow", NEW id \in Matching(call)
       PROVE  \E o \in IF id \in DOMAIN answers THEN {answers[id]}
                        ELSE Resolutions \ Branches :
                 Contracts[id].outcomes[o] \in {"allow", "abstain"}
  <2>1. Contracts[id].outcomes[By(id)] \in {"allow", "abstain"}
    BY <1>9, <1>11
  <2>2. CASE id \in DOMAIN answers
    BY <1>3, <2>1, <2>2
  <2>3. CASE id \notin DOMAIN answers
    BY <1>2, <2>1, <2>3
  <2>4. QED
    BY <2>2, <2>3
<1>12. QED
  BY <1>7, <1>8, <1>10, <1>11

-----------------------------------------------------------------------------
(* What a step makes of a call.                                              *)

LEMMA SettledIs ==
    ASSUME NEW call \in PermissionCall, NEW decision \in HostDecisions
    PROVE  LET new == Settled(call, decision)
           IN  /\ new \in PermissionCall
               /\ new.stage = "settled" /\ new.decision = decision
               /\ new.host = call.host /\ new.request = call.request
               /\ new.answers = call.answers /\ new.known = call.known
               /\ new.reached = call.reached
  BY DEF Settled, PermissionCall

LEMMA OnFailureIs ==
    ASSUME NEW call
    PROVE  /\ OnFailure(call) \in {"allow", "ask"}
           /\ call.host = "allow" => OnFailure(call) = "allow"
           /\ call.host # "allow" => OnFailure(call) = "ask"
  BY DEF OnFailure

\* A call that is settled as on failure is in order.
Fine(call) ==
    /\ Under(call) => call.host # "deny"
    /\ call.stage \in {"judging", "left"} =>
         ~call.request.vetoed /\ ~call.request.confirmed
    /\ Granted(call) /\ Stands(call)

LEMMA FailedIsFine ==
    ASSUME NEW call \in PermissionCall, NEW new \in PermissionCall,
           call.host # "deny", new.stage = "settled", new.host = call.host,
           new.decision = OnFailure(call)
    PROVE  Fine(new)
  BY OnFailureIs DEF Fine, Under, Over, Granted, Stands, PermissionCall, HostDecisions

\* A call that is settled as it was decided stays in order.
LEMMA AppliedIsFine ==
    ASSUME NEW call \in PermissionCall, NEW new \in PermissionCall,
           Fine(call), call.stage = "replied", new.stage = "settled",
           new.host = call.host, new.request = call.request,
           new.answers = call.answers, new.decision = call.decision
    PROVE  Fine(new)
  BY DEF Fine, Under, Over, Granted, Stands, Matching, Agrees

\* A call changes, and the others do not.
LEMMA OneCallChanges ==
    ASSUME PermissionTypeOK, EarnedInv, NEW a \in Askers, NEW new \in PermissionCall,
           Fine(new), calls' = [calls EXCEPT ![a] = new]
    PROVE  /\ calls' \in [Askers -> {NoCall} \cup PermissionCall]
           /\ EarnedInv'
<1>1. calls' \in [Askers -> {NoCall} \cup PermissionCall]
  BY DEF PermissionTypeOK
<1>2. \A b \in Askers : calls'[b] = IF b = a THEN new ELSE calls[b]
  BY DEF PermissionTypeOK
<1>3. \A b \in Askers : Fine(calls[b])
  BY DEF EarnedInv, Fine
<1>4. \A b \in Askers : Fine(calls'[b])
  BY <1>2, <1>3
<1>5. QED
  BY <1>1, <1>4 DEF EarnedInv, Fine

-----------------------------------------------------------------------------
(* The first invariant, one step per action.                                 *)

PermissionInv == PermissionTypeOK /\ EarnedInv

LEMMA PermissionStart == PermissionInit => PermissionInv
<1> SUFFICES ASSUME PermissionInit PROVE PermissionInv
  OBVIOUS
<1>1. \A a \in Askers : calls[a].stage = "none"
  BY DEF PermissionInit, NoCall
<1>2. PermissionTypeOK
  BY DEF PermissionInit, PermissionTypeOK
<1>3. QED
  BY <1>1, <1>2 DEF PermissionInv, EarnedInv, Under, Over, Granted, Stands

\* A call in any stage but the first is a call.
LEMMA IsACall ==
    ASSUME PermissionTypeOK, NEW a \in Askers, calls[a].stage # "none"
    PROVE  calls[a] \in PermissionCall
  BY DEF PermissionTypeOK, NoCall

LEMMA CallIsFine ==
    ASSUME EarnedInv, NEW a \in Askers
    PROVE  Fine(calls[a])
  BY DEF EarnedInv, Fine

LEMMA EvaluateKeeps ==
    ASSUME PermissionInv, NEW a \in Askers, NEW r \in Requests, NEW host \in HostDecisions,
           Evaluate(a, r, host)
    PROVE  PermissionInv'
<1> DEFINE call == [stage |-> "sent", request |-> r, host |-> host,
                    at |-> time, retries |-> 0, decision |-> host,
                    answers |-> << >>, known |-> FALSE, reached |-> FALSE]
           new == CASE host = "deny" -> Settled(call, "deny")
                    [] host # "deny" /\ r.oversized -> Settled(call, OnFailure(call))
                    [] OTHER -> call
<1>1. << >> \in AnswersOf
  <2>1. << >> \in [{} -> Branches]
    OBVIOUS
  <2>2. QED
    BY <2>1 DEF AnswersOf
<1>2. call \in PermissionCall
  BY <1>1 DEF PermissionCall, PermissionInv, PermissionTypeOK
<1>3. calls' = [calls EXCEPT ![a] = new] /\ taught' = taught /\ time' = time
  BY DEF Evaluate
<1>4. call.host = host /\ call.stage = "sent" /\ OnFailure(call) \in HostDecisions
  BY OnFailureIs DEF HostDecisions
<1> HIDE DEF call
<1>5. new \in PermissionCall /\ Fine(new)
  <2>1. CASE host = "deny"
    <3>1. new = Settled(call, "deny")
      BY <2>1
    <3>2. new \in PermissionCall /\ new.stage = "settled" /\ new.decision = "deny"
          /\ new.host = "deny"
      BY <1>2, <1>4, <2>1, <3>1, SettledIs DEF HostDecisions
    <3> HIDE DEF new
    <3>3. QED
      BY <3>2 DEF Fine, Under, Over, Granted, Stands
  <2>2. CASE host # "deny" /\ r.oversized
    <3>1. new = Settled(call, OnFailure(call))
      BY <2>2
    <3> HIDE DEF new
    <3>2. QED
      BY <1>2, <1>4, <2>2, <3>1, SettledIs, FailedIsFine
  <2>3. CASE host # "deny" /\ ~r.oversized
    <3>1. new = call
      BY <2>3
    <3> HIDE DEF new
    <3>2. QED
      BY <1>2, <1>4, <2>3, <3>1 DEF Fine, Under, Over, Granted, Stands
  <2>4. QED
    BY <2>1, <2>2, <2>3
<1> HIDE DEF new
<1>6. QED
  BY <1>3, <1>5, OneCallChanges DEF PermissionInv, PermissionTypeOK

\* What fails is settled by the host.
LEMMA FailedKeeps ==
    ASSUME PermissionInv, NEW a \in Askers, calls[a].stage # "none", Under(calls[a]),
           NEW reached \in BOOLEAN,
           calls' = [calls EXCEPT ![a] =
                       [Settled(calls[a], OnFailure(calls[a])) EXCEPT !.reached = reached]],
           taught' \subseteq Learnable, time' \in Nat
    PROVE  PermissionInv'
<1> DEFINE call == calls[a]
           settled == Settled(call, OnFailure(call))
           new == [settled EXCEPT !.reached = reached]
<1>1. call \in PermissionCall /\ call.host # "deny" /\ OnFailure(call) \in HostDecisions
  BY IsACall, OnFailureIs DEF PermissionInv, EarnedInv, HostDecisions
<1>2. /\ settled \in PermissionCall /\ settled.stage = "settled"
      /\ settled.host = call.host /\ settled.decision = OnFailure(call)
  BY <1>1, SettledIs
<1> HIDE DEF settled
<1>3. /\ new \in PermissionCall /\ new.stage = "settled"
      /\ new.host = call.host /\ new.decision = OnFailure(call)
  BY <1>2 DEF PermissionCall
<1>4. calls' = [calls EXCEPT ![a] = new]
  BY DEF settled
<1> HIDE DEF new, call
<1>5. QED
  BY <1>1, <1>3, <1>4, FailedIsFine, OneCallChanges DEF PermissionInv, PermissionTypeOK

LEMMA UnreachableKeeps ==
    ASSUME PermissionInv, NEW a \in Askers, Unreachable(a)
    PROVE  PermissionInv'
<1>1. calls[a].stage = "sent" /\ taught' = taught /\ time' = time
  BY DEF Unreachable
<1>2. calls[a] \in PermissionCall /\ Fine(calls[a])
  BY <1>1, IsACall, CallIsFine DEF PermissionInv
<1>3. CASE calls[a].retries < 2
  <2> DEFINE new == [calls[a] EXCEPT !.retries = @ + 1]
  <2>1. calls' = [calls EXCEPT ![a] = new]
    BY <1>3 DEF Unreachable
  <2>2. /\ new \in PermissionCall /\ new.stage = "sent"
        /\ new.host = calls[a].host
    BY <1>1, <1>2 DEF PermissionCall
  <2>3. Fine(new)
    BY <1>1, <1>2, <2>2 DEF Fine, Under, Over, Granted, Stands
  <2> HIDE DEF new
  <2>4. QED
    BY <1>1, <2>1, <2>2, <2>3, OneCallChanges DEF PermissionInv, PermissionTypeOK
<1>4. CASE ~(calls[a].retries < 2)
  <2> DEFINE settled == Settled(calls[a], OnFailure(calls[a]))
  <2>1. calls' = [calls EXCEPT ![a] = settled]
    BY <1>4 DEF Unreachable
  <2>2. settled \in PermissionCall /\ settled.reached = calls[a].reached
    BY <1>2, OnFailureIs, SettledIs DEF HostDecisions
  <2>3. settled = [settled EXCEPT !.reached = calls[a].reached]
    <3> HIDE DEF settled
    <3>1. QED
      BY <2>2 DEF PermissionCall
  <2>4. calls[a].reached \in BOOLEAN
    BY <1>2 DEF PermissionCall
  <2>5. Under(calls[a]) /\ calls[a].stage # "none"
    BY <1>1 DEF Under
  <2>6. calls' = [calls EXCEPT ![a] = [settled EXCEPT !.reached = calls[a].reached]]
    <3> HIDE DEF settled
    <3>1. QED
      BY <2>1, <2>3
  <2>7. taught' \subseteq Learnable /\ time' \in Nat
    BY <1>1 DEF PermissionInv, PermissionTypeOK
  <2>8. QED
    BY <2>4, <2>5, <2>6, <2>7, FailedKeeps
<1>5. QED
  BY <1>3, <1>4

LEMMA GiveUpKeeps ==
    ASSUME PermissionInv, NEW a \in Askers, GiveUp(a)
    PROVE  PermissionInv'
<1>1. calls[a].stage \in {"sent", "judging", "replied"} /\ taught' = taught /\ time' = time
  BY DEF GiveUp
<1>2. calls[a] \in PermissionCall /\ Fine(calls[a])
  BY <1>1, IsACall, CallIsFine DEF PermissionInv
<1>3. CASE calls[a].stage = "judging"
  <2> DEFINE new == [calls[a] EXCEPT !.stage = "left"]
  <2>1. calls' = [calls EXCEPT ![a] = new]
    BY <1>3 DEF GiveUp
  <2>2. /\ new \in PermissionCall /\ new.stage = "left"
        /\ new.host = calls[a].host /\ new.request = calls[a].request
    BY <1>2 DEF PermissionCall
  <2> HIDE DEF new
  <2>3. Fine(new)
    BY <1>2, <1>3, <2>2 DEF Fine, Under, Over, Granted, Stands
  <2>4. QED
    BY <1>1, <2>1, <2>2, <2>3, OneCallChanges DEF PermissionInv, PermissionTypeOK
<1>4. CASE calls[a].stage # "judging"
  <2>1. calls' = [calls EXCEPT ![a] =
                    [Settled(calls[a], OnFailure(calls[a])) EXCEPT !.reached = FALSE]]
    BY <1>4 DEF GiveUp
  <2>2. /\ Under(calls[a]) /\ calls[a].stage # "none"
        /\ taught' \subseteq Learnable /\ time' \in Nat
    BY <1>1 DEF Under, PermissionInv, PermissionTypeOK
  <2>3. QED
    BY <2>1, <2>2, FailedKeeps
<1>5. QED
  BY <1>3, <1>4

LEMMA AppliedKeeps ==
    ASSUME PermissionInv, NEW a \in Askers, Applied(a)
    PROVE  PermissionInv'
<1> DEFINE new == Settled(calls[a], calls[a].decision)
<1>1. /\ calls[a].stage = "replied" /\ calls' = [calls EXCEPT ![a] = new]
      /\ taught' = taught /\ time' = time
  BY DEF Applied
<1>2. calls[a] \in PermissionCall /\ Fine(calls[a])
  BY <1>1, IsACall, CallIsFine DEF PermissionInv
<1>3. /\ new \in PermissionCall /\ new.stage = "settled"
      /\ new.decision = calls[a].decision /\ new.host = calls[a].host
      /\ new.request = calls[a].request /\ new.answers = calls[a].answers
  <2>1. calls[a].decision \in HostDecisions
    BY <1>2 DEF PermissionCall
  <2>2. QED
    BY <1>2, <2>1, SettledIs
<1> HIDE DEF new
<1>4. Fine(new)
  BY <1>1, <1>2, <1>3, AppliedIsFine
<1>5. QED
  BY <1>1, <1>3, <1>4, OneCallChanges DEF PermissionInv, PermissionTypeOK

LEMMA CancelKeeps ==
    ASSUME PermissionInv, NEW a \in Askers, Cancel(a)
    PROVE  PermissionInv'
<1>1. /\ calls[a].stage = "left"
      /\ calls' = [calls EXCEPT ![a] =
                     [Settled(calls[a], OnFailure(calls[a])) EXCEPT !.reached = FALSE]]
      /\ taught' = taught /\ time' = time
  BY DEF Cancel
<1>2. /\ Under(calls[a]) /\ calls[a].stage # "none"
      /\ taught' \subseteq Learnable /\ time' \in Nat
  BY <1>1 DEF Under, PermissionInv, PermissionTypeOK
<1>3. QED
  BY <1>1, <1>2, FailedKeeps

\* A request that is taken: what the backstop and the user say comes first.
LEMMA TakeKeeps ==
    ASSUME PermissionInv, NEW a \in Askers, Take(a)
    PROVE  PermissionInv'
<1> DEFINE known == calls[a].request.command \in condemned
           call == [calls[a] EXCEPT !.known = known, !.reached = TRUE, !.retries = 0]
           r == call.request
           says == [call EXCEPT !.stage = "replied",
                                !.decision = IF Vetoed(r) THEN "deny" ELSE "ask"]
           unasked == [call EXCEPT !.stage = "replied",
                                   !.decision = Decision(a, call, << >>)]
           judging == [call EXCEPT !.stage = "judging"]
<1>1. /\ calls[a].stage = "sent" /\ taught' = taught /\ time' = time
      /\ IF Vetoed(r) \/ r.confirmed THEN calls' = [calls EXCEPT ![a] = says]
         ELSE IF Questioned(a, call) = {} /\ r.command = NoCommand
         THEN calls' = [calls EXCEPT ![a] = unasked]
         ELSE calls' = [calls EXCEPT ![a] = judging]
  BY DEF Take
<1>2. calls[a] \in PermissionCall /\ calls[a].host # "deny"
  BY <1>1, IsACall DEF PermissionInv, EarnedInv, Under
<1>3. /\ call \in PermissionCall /\ call.stage = "sent"
      /\ call.host \in {"allow", "ask"}
  <2>1. known \in BOOLEAN
    OBVIOUS
  <2> HIDE DEF known
  <2>2. call \in PermissionCall /\ call.stage = "sent" /\ call.host = calls[a].host
    BY <1>1, <1>2, <2>1 DEF PermissionCall
  <2>3. calls[a].host \in {"allow", "ask"}
    BY <1>2 DEF PermissionCall, HostDecisions
  <2>4. QED
    BY <2>2, <2>3
<1>4. << >> \in AnswersOf /\ DOMAIN << >> = {}
  <2>1. << >> \in [{} -> Branches]
    OBVIOUS
  <2>2. QED
    BY <2>1 DEF AnswersOf
<1> HIDE DEF call
<1>5. CASE Vetoed(r) \/ r.confirmed
  <2>1. /\ says \in PermissionCall /\ says.stage = "replied" /\ says.host = call.host
        /\ says.request = r /\ says.decision \in {"deny", "ask"}
        /\ says.decision = "ask" => ~Vetoed(r)
    BY <1>3 DEF PermissionCall, HostDecisions
  <2>2. calls' = [calls EXCEPT ![a] = says]
    BY <1>1, <1>5
  <2> HIDE DEF says
  <2>3. Fine(says)
    BY <1>3, <1>5, <2>1 DEF Fine, Under, Over, Granted, Stands
  <2>4. QED
    BY <1>1, <2>1, <2>2, <2>3, OneCallChanges DEF PermissionInv, PermissionTypeOK
<1>6. CASE ~(Vetoed(r) \/ r.confirmed) /\ Questioned(a, call) = {} /\ r.command = NoCommand
  <2> DEFINE decision == Decision(a, call, << >>)
  <2>1. /\ decision \in HostDecisions
        /\ call.host = "allow" => decision # "ask"
        /\ call.host = "ask" => decision # "allow"
    BY <1>3, <1>4, DecisionIs
  <2> HIDE DEF decision
  <2>2. /\ unasked \in PermissionCall /\ unasked.stage = "replied"
        /\ unasked.host = call.host /\ unasked.decision = decision
    BY <1>3, <2>1 DEF PermissionCall, decision
  <2>3. calls' = [calls EXCEPT ![a] = unasked]
    BY <1>1, <1>6
  <2> HIDE DEF unasked
  <2>4. Fine(unasked)
    BY <1>3, <2>1, <2>2 DEF Fine, Under, Over, Granted, Stands
  <2>5. QED
    BY <1>1, <2>2, <2>3, <2>4, OneCallChanges DEF PermissionInv, PermissionTypeOK
<1>7. CASE ~(Vetoed(r) \/ r.confirmed) /\ ~(Questioned(a, call) = {} /\ r.command = NoCommand)
  <2>1. /\ judging \in PermissionCall /\ judging.stage = "judging"
        /\ judging.host = call.host /\ judging.request = r
    BY <1>3 DEF PermissionCall
  <2>2. calls' = [calls EXCEPT ![a] = judging]
    BY <1>1, <1>7
  <2>3. ~r.vetoed /\ ~r.confirmed
    BY <1>7 DEF Vetoed
  <2> HIDE DEF judging
  <2>4. Fine(judging)
    BY <1>3, <2>1, <2>3 DEF Fine, Under, Over, Granted, Stands
  <2>5. QED
    BY <1>1, <2>1, <2>2, <2>4, OneCallChanges DEF PermissionInv, PermissionTypeOK
<1>8. QED
  BY <1>5, <1>6, <1>7

LEMMA TaughtIsLearnable ==
    ASSUME PermissionInv, NEW a \in Askers, NEW answers, NEW irreversible \in BOOLEAN,
           Judged(a, answers, irreversible)
    PROVE  taught' \subseteq Learnable
  BY DEF Judged, PermissionInv, PermissionTypeOK

LEMMA JudgedKeeps ==
    ASSUME PermissionInv, NEW a \in Askers, NEW answers \in AnswersOf,
           NEW irreversible \in BOOLEAN, Judged(a, answers, irreversible)
    PROVE  PermissionInv'
<1>1. /\ calls[a].stage \in {"judging", "left"} /\ time' = time
      /\ DOMAIN answers \in {{}, Questioned(a, calls[a])}
  BY DEF Judged
<1>2. taught' \subseteq Learnable /\ time' \in Nat
  BY <1>1, TaughtIsLearnable DEF PermissionInv, PermissionTypeOK
<1>3. /\ calls[a] \in PermissionCall /\ calls[a].host \in {"allow", "ask"}
      /\ ~calls[a].request.vetoed /\ ~calls[a].request.confirmed
  <2>1. /\ calls[a] \in PermissionCall /\ calls[a].host # "deny"
        /\ ~calls[a].request.vetoed /\ ~calls[a].request.confirmed
    BY <1>1, IsACall DEF PermissionInv, EarnedInv, Under
  <2>2. QED
    BY <2>1 DEF PermissionCall, HostDecisions
<1>4. CASE calls[a].stage = "left"
  <2>1. calls' = [calls EXCEPT ![a] =
                    [Settled(calls[a], OnFailure(calls[a])) EXCEPT !.reached = FALSE]]
    BY <1>4 DEF Judged
  <2>2. Under(calls[a]) /\ calls[a].stage # "none"
    BY <1>4 DEF Under
  <2>3. QED
    BY <1>2, <2>1, <2>2, FailedKeeps
<1>5. CASE calls[a].stage = "judging"
  <2> DEFINE decided == Decision(a, calls[a], answers)
             decision == IF irreversible THEN "deny" ELSE decided
             new == [calls[a] EXCEPT !.stage = "replied", !.answers = answers,
                                     !.decision = decision]
  <2>1. calls' = [calls EXCEPT ![a] = new]
    BY <1>5 DEF Judged
  <2>2. /\ decided \in HostDecisions
        /\ calls[a].host = "allow" => decided # "ask"
        /\ calls[a].host = "ask" /\ decided = "allow" =>
             /\ \E id \in DOMAIN answers :
                  Contracts[id].outcomes[answers[id]] = "allow"
             /\ \A id \in Matching(calls[a]) :
                  \E o \in IF id \in DOMAIN answers THEN {answers[id]}
                            ELSE Resolutions \ Branches :
                     Contracts[id].outcomes[o] \in {"allow", "abstain"}
    BY <1>1, <1>3, DecisionIs
  <2> HIDE DEF decided
  <2>3. decision \in HostDecisions /\ (decision = "deny" \/ decision = decided)
    BY <2>2 DEF HostDecisions
  <2> HIDE DEF decision
  <2>4. /\ new \in PermissionCall /\ new.stage = "replied"
        /\ new.host = calls[a].host /\ new.request = calls[a].request
        /\ new.answers = answers /\ new.decision = decision
    BY <1>3, <2>3 DEF PermissionCall
  <2> HIDE DEF new
  <2>5. Matching(new) = Matching(calls[a])
    BY <2>4 DEF Matching
  <2>6. Granted(new)
    <3> SUFFICES ASSUME new.host = "ask", new.decision = "allow"
                 PROVE  /\ ~new.request.vetoed /\ ~new.request.confirmed
                        /\ \E id \in DOMAIN new.answers :
                             Contracts[id].outcomes[new.answers[id]] = "allow"
                        /\ \A id \in Matching(new) : Agrees(new, id)
      BY DEF Granted
    <3>1. calls[a].host = "ask" /\ decided = "allow"
      BY <2>3, <2>4
    <3>2. \A id \in Matching(new) : Agrees(new, id)
      BY <2>2, <2>4, <2>5, <3>1 DEF Agrees
    <3>3. QED
      BY <1>3, <2>2, <2>4, <3>1, <3>2
  <2>7. Stands(new)
    BY <1>3, <2>2, <2>3, <2>4 DEF Stands
  <2>8. Fine(new)
    BY <1>3, <2>4, <2>6, <2>7 DEF Fine, Under
  <2>9. QED
    BY <1>2, <2>1, <2>4, <2>8, OneCallChanges DEF PermissionInv, PermissionTypeOK
<1>6. QED
  BY <1>1, <1>4, <1>5

LEMMA PermissionStep ==
    PermissionInv /\ [PermissionNext]_permissionVars => PermissionInv'
<1> SUFFICES ASSUME PermissionInv, [PermissionNext]_permissionVars PROVE PermissionInv'
  OBVIOUS
<1>1. ASSUME NEW a \in Askers, NEW r \in Requests, NEW host \in HostDecisions,
             Evaluate(a, r, host)
      PROVE  PermissionInv'
  BY <1>1, EvaluateKeeps
<1>2. ASSUME NEW a \in Askers,
             Unreachable(a) \/ GiveUp(a) \/ Applied(a) \/ Take(a) \/ Cancel(a)
      PROVE  PermissionInv'
  BY <1>2, UnreachableKeeps, GiveUpKeeps, AppliedKeeps, TakeKeeps, CancelKeeps
<1>3. ASSUME NEW a \in Askers, NEW asked \in SUBSET Ids, NEW irreversible \in BOOLEAN,
             NEW given \in [asked -> PermissionAnswer],
             Judged(a, [id \in asked |-> Branch(id, given[id])], irreversible)
      PROVE  PermissionInv'
  <2> DEFINE answers == [id \in asked |-> Branch(id, given[id])]
  <2>1. \A id \in asked : Branch(id, given[id]) \in Branches
    BY DEF Branch, Branches
  <2>2. answers \in [asked -> Branches]
    BY <2>1
  <2>3. answers \in AnswersOf
    BY <2>2 DEF AnswersOf
  <2> HIDE DEF answers
  <2>4. Judged(a, answers, irreversible)
    BY <1>3 DEF answers
  <2>5. QED
    BY <2>3, <2>4, JudgedKeeps
<1>4. CASE PermissionTick \/ UNCHANGED permissionVars
  <2>1. UNCHANGED <<calls, taught>> /\ time' \in Nat
    BY <1>4 DEF PermissionTick, permissionVars, PermissionInv, PermissionTypeOK
  <2>2. QED
    BY <2>1 DEF PermissionInv, PermissionTypeOK, EarnedInv, Under, Over, Granted, Stands,
                Matching, Agrees
<1>5. QED
  BY <1>1, <1>2, <1>3, <1>4 DEF PermissionNext

-----------------------------------------------------------------------------
(* The first theorems.                                                       *)

\* In every reachable state each agent's request is one of a stage, a decision
\* and answers of contracts, and the backstop was taught learnable commands.
THEOREM PermissionTypeCorrect == PermissionSpec => []PermissionTypeOK
<1>1. PermissionInv => PermissionTypeOK
  BY DEF PermissionInv
<1>2. QED
  BY <1>1, PermissionStart, PermissionStep, PTL DEF PermissionSpec

\* For any contracts the skill's validation lets through: what the host would
\* ask about is allowed only by an answer of this request, with no matching
\* contract against it and nothing on the backstop's own list, and what the host
\* denied or allowed stands but for a veto and the user's wish to confirm
\* (Permission::answer, combine, Engine::start, permission.ts).
THEOREM OnJudgesWord == PermissionSpec => []DecisionsEarned
<1>1. PermissionInv => DecisionsEarned
  <2> SUFFICES ASSUME PermissionInv PROVE DecisionsEarned
    OBVIOUS
  <2>1. \A a \in Askers : Granted(calls[a]) /\ Stands(calls[a])
    BY DEF PermissionInv, EarnedInv
  <2>2. GrantsJudged
    BY <2>1 DEF GrantsJudged, Decided, Granted, Over
  <2>3. HostStands
    BY <2>1 DEF HostStands, Decided, Stands, Over
  <2>4. QED
    BY <2>2, <2>3 DEF DecisionsEarned
<1>2. QED
  BY <1>1, PermissionStart, PermissionStep, PTL DEF PermissionSpec

-----------------------------------------------------------------------------
(* Harm.                                                                     *)

\* A request that knows of harm is under way only undecided by a judge, and
\* denied once it is over.
HarmFine(call) ==
    /\ call.stage = "sent" => ~call.reached
    /\ call.stage \in {"judging", "left"} => ~Harmful(call)
    /\ Over(call) /\ Harmful(call) => call.decision = "deny"

LEMMA OneHarmChanges ==
    ASSUME PermissionTypeOK, HarmInv, NEW a \in Askers, NEW new,
           HarmFine(new), calls' = [calls EXCEPT ![a] = new],
           condemned' \cap Learnable \subseteq taught'
    PROVE  HarmInv'
<1>1. \A b \in Askers : calls'[b] = IF b = a THEN new ELSE calls[b]
  BY DEF PermissionTypeOK
<1>2. \A b \in Askers : HarmFine(calls[b])
  BY DEF HarmInv, HarmFine
<1>3. \A b \in Askers : HarmFine(calls'[b])
  BY <1>1, <1>2
<1>4. QED
  BY <1>3 DEF HarmInv, HarmFine

LEMMA UnreachedIsFine ==
    ASSUME NEW call, call.reached = FALSE
    PROVE  HarmFine(call)
  BY DEF HarmFine, Harmful

LEMMA HarmStart == PermissionInit => HarmInv
<1> SUFFICES ASSUME PermissionInit PROVE HarmInv
  OBVIOUS
<1>1. \A a \in Askers : calls[a].stage = "none"
  BY DEF PermissionInit, NoCall
<1>2. condemned = {}
  BY DEF PermissionInit
<1>3. QED
  BY <1>1, <1>2 DEF HarmInv, Over

\* The host's steps: what fails counts as never having reached the daemon.
LEMMA HostHarm ==
    ASSUME PermissionTypeOK, HarmInv, NEW a \in Askers,
           \/ Unreachable(a) \/ GiveUp(a) \/ Applied(a) \/ Cancel(a)
           \/ \E r \in Requests, host \in HostDecisions : Evaluate(a, r, host)
    PROVE  HarmInv'
<1>1. condemned' \cap Learnable \subseteq taught'
  BY DEF Unreachable, GiveUp, Applied, Cancel, Evaluate, HarmInv
<1>2. HarmFine(calls[a])
  BY DEF HarmInv, HarmFine
<1> DEFINE settled == Settled(calls[a], OnFailure(calls[a]))
<1>3. ASSUME calls[a] \in PermissionCall, NEW reached \in BOOLEAN
      PROVE  /\ settled \in PermissionCall /\ settled.reached = calls[a].reached
             /\ [settled EXCEPT !.reached = reached].reached = reached
  <2>1. settled \in PermissionCall /\ settled.reached = calls[a].reached
    BY <1>3, OnFailureIs, SettledIs DEF HostDecisions
  <2> HIDE DEF settled
  <2>2. QED
    BY <2>1 DEF PermissionCall
<1> HIDE DEF settled
<1>4. CASE Unreachable(a)
  <2>1. calls[a].stage = "sent" /\ calls[a] \in PermissionCall
    BY <1>4, IsACall DEF Unreachable
  <2>2. calls[a].reached = FALSE
    BY <1>2, <2>1 DEF HarmFine, PermissionCall
  <2> DEFINE again == [calls[a] EXCEPT !.retries = @ + 1]
  <2>3. again.reached = FALSE
    BY <2>1, <2>2 DEF PermissionCall
  <2>4. \/ calls' = [calls EXCEPT ![a] = again]
        \/ calls' = [calls EXCEPT ![a] = settled]
    BY <1>4 DEF Unreachable, settled
  <2>5. settled.reached = FALSE
    BY <1>3, <2>1, <2>2
  <2> HIDE DEF again
  <2>6. QED
    BY <1>1, <2>3, <2>4, <2>5, UnreachedIsFine, OneHarmChanges
<1>5. CASE GiveUp(a) \/ Cancel(a)
  <2> DEFINE left == [calls[a] EXCEPT !.stage = "left"]
             failed == [settled EXCEPT !.reached = FALSE]
  <2>1. calls[a] \in PermissionCall
    BY <1>5, IsACall DEF GiveUp, Cancel
  <2>2. \/ calls[a].stage = "judging" /\ calls' = [calls EXCEPT ![a] = left]
        \/ calls' = [calls EXCEPT ![a] = failed]
    BY <1>5 DEF GiveUp, Cancel, settled
  <2>3. calls[a].stage = "judging" => HarmFine(left)
    <3>1. /\ left.stage = "left" /\ left.reached = calls[a].reached
          /\ left.known = calls[a].known /\ left.request = calls[a].request
      BY <2>1 DEF PermissionCall
    <3> HIDE DEF left
    <3>2. QED
      BY <1>2, <3>1 DEF HarmFine, Harmful, Over
  <2>4. failed.reached = FALSE
    BY <1>3, <2>1
  <2> HIDE DEF left, failed
  <2>5. QED
    BY <1>1, <2>2, <2>3, <2>4, UnreachedIsFine, OneHarmChanges
<1>6. CASE Applied(a)
  <2> DEFINE new == Settled(calls[a], calls[a].decision)
  <2>1. /\ calls[a].stage = "replied" /\ calls' = [calls EXCEPT ![a] = new]
        /\ calls[a] \in PermissionCall
    BY <1>6, IsACall DEF Applied
  <2>2. calls[a].decision \in HostDecisions
    BY <2>1 DEF PermissionCall
  <2>3. /\ new.stage = "settled" /\ new.decision = calls[a].decision
        /\ new.known = calls[a].known /\ new.request = calls[a].request
        /\ new.reached = calls[a].reached
    BY <2>1, <2>2, SettledIs
  <2> HIDE DEF new
  <2>4. HarmFine(new)
    BY <1>2, <2>1, <2>3 DEF HarmFine, Harmful, Over
  <2>5. QED
    BY <1>1, <2>1, <2>4, OneHarmChanges
<1>7. ASSUME NEW r \in Requests, NEW host \in HostDecisions, Evaluate(a, r, host)
      PROVE  HarmInv'
  <2> DEFINE call == [stage |-> "sent", request |-> r, host |-> host,
                      at |-> time, retries |-> 0, decision |-> host,
                      answers |-> << >>, known |-> FALSE, reached |-> FALSE]
             denied == Settled(call, "deny")
             failed == Settled(call, OnFailure(call))
  <2>1. call.reached = FALSE /\ denied.reached = FALSE /\ failed.reached = FALSE
    BY DEF Settled
  <2>2. \/ calls' = [calls EXCEPT ![a] = call]
        \/ calls' = [calls EXCEPT ![a] = denied]
        \/ calls' = [calls EXCEPT ![a] = failed]
    <3> DEFINE new == CASE host = "deny" -> denied
                        [] host # "deny" /\ r.oversized -> failed
                        [] OTHER -> call
    <3>1. calls' = [calls EXCEPT ![a] = new]
      BY <1>7 DEF Evaluate
    <3>2. new \in {call, denied, failed}
      <4> HIDE DEF call, denied, failed
      <4>1. QED
        BY DEF HostDecisions
    <3> HIDE DEF call, denied, failed, new
    <3>3. QED
      BY <3>1, <3>2
  <2> HIDE DEF call, denied, failed
  <2>3. QED
    BY <1>1, <2>1, <2>2, UnreachedIsFine, OneHarmChanges
<1>8. QED
  BY <1>4, <1>5, <1>6, <1>7

\* A request that knows of harm is vetoed when it is taken.
LEMMA TakeHarm ==
    ASSUME PermissionTypeOK, HarmInv, NEW a \in Askers, Take(a)
    PROVE  HarmInv'
<1> DEFINE known == calls[a].request.command \in condemned
           call == [calls[a] EXCEPT !.known = known, !.reached = TRUE, !.retries = 0]
           r == call.request
           decision == IF Vetoed(r) THEN "deny" ELSE "ask"
           says == [call EXCEPT !.stage = "replied", !.decision = decision]
           decided == Decision(a, call, << >>)
           unasked == [call EXCEPT !.stage = "replied", !.decision = decided]
           judging == [call EXCEPT !.stage = "judging"]
<1>1. /\ calls[a].stage = "sent" /\ condemned' = condemned /\ taught' = taught
      /\ IF Vetoed(r) \/ r.confirmed THEN calls' = [calls EXCEPT ![a] = says]
         ELSE \/ calls' = [calls EXCEPT ![a] = unasked]
              \/ calls' = [calls EXCEPT ![a] = judging]
  BY DEF Take
<1>2. calls[a] \in PermissionCall
  BY <1>1, IsACall
<1>3. known \in BOOLEAN
  OBVIOUS
<1>4. known /\ calls[a].request.command \in Learnable => Vetoed(calls[a].request)
  BY DEF HarmInv, Vetoed
<1> HIDE DEF known
<1>5. /\ call \in PermissionCall /\ call.known = known
      /\ call.request = calls[a].request
  BY <1>2, <1>3 DEF PermissionCall
<1> HIDE DEF call
<1>6. /\ says.stage = "replied" /\ says.decision = decision
      /\ says.known = known /\ says.request = r
      /\ unasked.known = known /\ unasked.request = r /\ unasked.stage = "replied"
      /\ judging.known = known /\ judging.request = r /\ judging.stage = "judging"
  <2> HIDE DEF decision, decided
  <2>1. QED
    BY <1>5 DEF PermissionCall
<1>7. Vetoed(r) => decision = "deny"
  OBVIOUS
<1>8. condemned' \cap Learnable \subseteq taught'
  BY <1>1 DEF HarmInv
<1> HIDE DEF says, unasked, judging, decision, decided
<1>9. CASE Vetoed(r) \/ r.confirmed
  <2>1. HarmFine(says)
    BY <1>4, <1>5, <1>6, <1>7 DEF HarmFine, Harmful, Over
  <2>2. QED
    BY <1>1, <1>8, <1>9, <2>1, OneHarmChanges
<1>10. CASE ~(Vetoed(r) \/ r.confirmed)
  <2>1. ~(known /\ r.command \in Learnable)
    BY <1>4, <1>5, <1>10
  <2>2. HarmFine(unasked) /\ HarmFine(judging)
    BY <1>6, <2>1 DEF HarmFine, Harmful, Over
  <2>3. QED
    BY <1>1, <1>8, <1>10, <2>2, OneHarmChanges
<1>11. QED
  BY <1>9, <1>10

\* What is judged irreversible is learned, as long as everything learnable fits.
LEMMA JudgedHarm ==
    ASSUME IsFiniteSet(Learnable), Cardinality(Learnable) <= MaxLearned,
           PermissionTypeOK, HarmInv, NEW a \in Askers, NEW answers,
           NEW irreversible \in BOOLEAN, Judged(a, answers, irreversible)
    PROVE  HarmInv'
<1> DEFINE command == calls[a].request.command
<1>1. /\ calls[a].stage \in {"judging", "left"} /\ calls[a] \in PermissionCall
  BY IsACall DEF Judged
<1>2. condemned' \cap Learnable \subseteq taught'
  <2>1. CASE ~irreversible
    BY <2>1 DEF Judged, HarmInv
  <2>2. CASE irreversible
    <3>1. /\ condemned' = condemned \cup {command}
          /\ taught' = IF command \in Learnable /\ Cardinality(taught) < MaxLearned
                       THEN taught \cup {command} ELSE taught
      BY <2>2 DEF Judged
    <3>2. CASE Cardinality(taught) < MaxLearned
      BY <3>1, <3>2 DEF HarmInv
    <3>3. CASE ~(Cardinality(taught) < MaxLearned)
      <4>1. MaxLearned \in Nat
        BY PermissionAssumption
      <4>2. /\ taught \subseteq Learnable /\ IsFiniteSet(taught)
            /\ Cardinality(taught) <= Cardinality(Learnable)
            /\ Cardinality(taught) = Cardinality(Learnable) => taught = Learnable
        BY FS_Subset DEF PermissionTypeOK
      <4>3. Cardinality(taught) \in Nat /\ Cardinality(Learnable) \in Nat
        BY <4>2, FS_CardinalityType
      <4>4. taught = Learnable
        BY <3>3, <4>1, <4>2, <4>3
      <4>5. taught \subseteq taught'
        BY <3>1
      <4>6. QED
        BY <4>4, <4>5
    <3>4. QED
      BY <3>2, <3>3
  <2>3. QED
    BY <2>1, <2>2
<1>3. HarmFine(calls[a])
  BY DEF HarmInv, HarmFine
<1>4. CASE calls[a].stage = "left"
  <2> DEFINE settled == Settled(calls[a], OnFailure(calls[a]))
             failed == [settled EXCEPT !.reached = FALSE]
  <2>1. calls' = [calls EXCEPT ![a] = failed]
    BY <1>4 DEF Judged
  <2>2. settled \in PermissionCall
    BY <1>1, OnFailureIs, SettledIs DEF HostDecisions
  <2> HIDE DEF settled
  <2>3. failed.reached = FALSE
    BY <2>2 DEF PermissionCall
  <2> HIDE DEF failed
  <2>4. QED
    BY <1>2, <2>1, <2>3, UnreachedIsFine, OneHarmChanges
<1>5. CASE calls[a].stage = "judging"
  <2> DEFINE decision == IF irreversible THEN "deny" ELSE Decision(a, calls[a], answers)
             new == [calls[a] EXCEPT !.stage = "replied", !.answers = answers,
                                     !.decision = decision]
  <2>1. calls' = [calls EXCEPT ![a] = new]
    BY <1>5 DEF Judged
  <2> HIDE DEF decision
  <2>2. /\ new.reached = calls[a].reached /\ new.known = calls[a].known
        /\ new.request = calls[a].request /\ new.stage = "replied"
    BY <1>1 DEF PermissionCall
  <2> HIDE DEF new
  <2>3. HarmFine(new)
    BY <1>3, <1>5, <2>2 DEF HarmFine, Harmful, Over
  <2>4. QED
    BY <1>2, <2>1, <2>3, OneHarmChanges
<1>6. QED
  BY <1>1, <1>4, <1>5

\* A command once judged irreversible is denied to every agent whose request
\* reaches the daemon after that, whatever contracts say, hosts leave or calls
\* fail, as long as everything the backstop can learn fits its list
\* (Engine::start, Backstop::learn, MAX_LEARNED).
THEOREM HarmStaysDenied ==
    ASSUME IsFiniteSet(Learnable), Cardinality(Learnable) <= MaxLearned
    PROVE  PermissionSpec => []HarmRemembered
<1> DEFINE Inv == PermissionInv /\ HarmInv
<1>1. PermissionInit => Inv
  BY PermissionStart, HarmStart
<1>2. Inv /\ [PermissionNext]_permissionVars => Inv'
  <2> SUFFICES ASSUME PermissionInv, HarmInv, [PermissionNext]_permissionVars
               PROVE  HarmInv'
    BY PermissionStep
  <2>1. PermissionTypeOK
    BY DEF PermissionInv
  <2>2. ASSUME NEW a \in Askers,
               \/ Unreachable(a) \/ GiveUp(a) \/ Applied(a) \/ Cancel(a)
               \/ \E r \in Requests, host \in HostDecisions : Evaluate(a, r, host)
        PROVE  HarmInv'
    BY <2>1, <2>2, HostHarm
  <2>3. ASSUME NEW a \in Askers, Take(a) PROVE HarmInv'
    BY <2>1, <2>3, TakeHarm
  <2>4. ASSUME NEW a \in Askers, NEW asked \in SUBSET Ids, NEW irreversible \in BOOLEAN,
               NEW given \in [asked -> PermissionAnswer],
               Judged(a, [id \in asked |-> Branch(id, given[id])], irreversible)
        PROVE  HarmInv'
    BY <2>1, <2>4, JudgedHarm
  <2>5. CASE PermissionTick \/ UNCHANGED permissionVars
    <3>1. UNCHANGED <<calls, taught, condemned>>
      BY <2>5 DEF PermissionTick, permissionVars
    <3>2. QED
      BY <3>1 DEF HarmInv, Harmful, Over
  <2>6. QED
    BY <2>2, <2>3, <2>4, <2>5 DEF PermissionNext
<1>3. Inv => HarmRemembered
  BY DEF HarmInv, HarmRemembered, Harmful, Over, Decided
<1>4. QED
  BY <1>1, <1>2, <1>3, PTL DEF PermissionSpec

-----------------------------------------------------------------------------
(* Renewal: the types.                                                       *)

MapOf(S, T) == UNION {[D -> T] : D \in SUBSET S}

Events == {"started", "succeeded"} \X Sessions

WarmerStages == {"asleep", "sending", "stopping", "over"}

Warmers ==
    [of : Sessions, turn : Nat, stage : WarmerStages, left : Int, at : Int]

Plans == [of : Sessions, execution : Nat, turn : Nat]

Contexts == [running : BOOLEAN, turns : Nat, ended : Nat, read : Nat]

JudgedFacts == [stage : {"judging"}, idle : Int, usable : SUBSET Providers,
           cold : BOOLEAN, failing : SUBSET Providers]

RenewalMemo == [forgot : BOOLEAN, unseen : SUBSET Sessions,
                failed : MapOf(Providers, Nat), trials : Nat]

WarmingTypes ==
    /\ clock \in Nat
    /\ contexts \in [Sessions -> Contexts]
    /\ events \in Seq(Events)
    /\ executions \in MapOf(Sessions, Nat)
    /\ warmed \in MapOf(Sessions, Nat)
    /\ loops \in MapOf(Sessions, Nat)
    /\ plans \subseteq Plans
    /\ warmers \in Seq(Warmers)

Noted == [provider : Providers, at : Nat]

CompactionTypes ==
    compactions \in [Sessions -> {NoneYet, [stage |-> "queued"], [stage |-> "own"]}
                                 \cup [stage : {"cheap"}, provider : Providers]]

PendingTypes ==
    /\ CompactionTypes
    /\ pending \in MapOf(Sessions, Noted)
    /\ resumes \in [Sessions -> {NoneYet} \cup JudgedFacts]
    /\ passed_over \in MapOf(Providers, Nat)
    /\ stored \in MapOf(Providers, Nat)
    /\ memo \in RenewalMemo

RenewalTypeOK == WarmingTypes /\ PendingTypes

LEMMA MapSet ==
    ASSUME NEW S, NEW T, NEW f \in MapOf(S, T), NEW k \in S, NEW v \in T
    PROVE  /\ Set(f, k, v) \in MapOf(S, T)
           /\ DOMAIN Set(f, k, v) = DOMAIN f \cup {k}
           /\ Set(f, k, v)[k] = v
           /\ \A j \in DOMAIN f \ {k} : Set(f, k, v)[j] = f[j]
<1>1. PICK D \in SUBSET S : f \in [D -> T]
  BY DEF MapOf
<1>2. Set(f, k, v) \in [D \cup {k} -> T]
  BY <1>1 DEF Set
<1>3. D \cup {k} \in SUBSET S
  OBVIOUS
<1>4. Set(f, k, v) \in MapOf(S, T)
  BY <1>2, <1>3 DEF MapOf
<1>5. QED
  BY <1>4 DEF Set

LEMMA MapWithout ==
    ASSUME NEW S, NEW T, NEW f \in MapOf(S, T), NEW k
    PROVE  /\ Without(f, k) \in MapOf(S, T)
           /\ DOMAIN Without(f, k) = DOMAIN f \ {k}
           /\ \A j \in DOMAIN f \ {k} : Without(f, k)[j] = f[j]
<1>1. PICK D \in SUBSET S : f \in [D -> T]
  BY DEF MapOf
<1>2. Without(f, k) \in [D \ {k} -> T]
  BY <1>1 DEF Without
<1>3. D \ {k} \in SUBSET S
  OBVIOUS
<1>4. Without(f, k) \in MapOf(S, T)
  BY <1>2, <1>3 DEF MapOf
<1>5. QED
  BY <1>4 DEF Without

LEMMA MapEmpty ==
    ASSUME NEW S, NEW T
    PROVE  NoMap \in MapOf(S, T) /\ DOMAIN NoMap = {}
<1>1. NoMap \in [{} -> T]
  BY DEF NoMap
<1>2. QED
  BY <1>1 DEF MapOf

LEMMA MapRoom ==
    ASSUME NEW S, NEW T, NEW f \in MapOf(S, T), NEW k
    PROVE  /\ Room(f, k) \in MapOf(S, T)
           /\ Room(f, k) = f \/ DOMAIN Room(f, k) = {}
  BY MapEmpty DEF Room

LEMMA MapValue ==
    ASSUME NEW S, NEW T, NEW f \in MapOf(S, T), NEW k \in DOMAIN f
    PROVE  k \in S /\ f[k] \in T
  BY DEF MapOf


\* Interrupting loops changes the stage of warmers alone.
LEMMA StoppedWarmers ==
    ASSUME warmers \in Seq(Warmers), NEW s
    PROVE  /\ Stopped(s, warmers) \in Seq(Warmers)
           /\ DOMAIN Stopped(s, warmers) = DOMAIN warmers
           /\ \A n \in DOMAIN warmers :
                \/ Stopped(s, warmers)[n] = warmers[n]
                \/ /\ warmers[n].stage \in {"asleep", "sending"}
                   /\ Stopped(s, warmers)[n] = [warmers[n] EXCEPT !.stage = "stopping"]
           /\ \A n \in DOMAIN warmers :
                s \in DOMAIN loops /\ loops[s] = n =>
                  Stopped(s, warmers)[n].stage \notin {"asleep", "sending"}
<1>1. \A n \in DOMAIN warmers : warmers[n] \in Warmers
  OBVIOUS
<1>2. \A n \in DOMAIN warmers : [warmers[n] EXCEPT !.stage = "stopping"] \in Warmers
  <2> TAKE n \in DOMAIN warmers
  <2>1. PICK w : w = warmers[n]
    OBVIOUS
  <2>2. w \in Warmers
    BY <1>1, <2>1
  <2>3. [w EXCEPT !.stage = "stopping"] \in Warmers
    BY <2>2 DEF Warmers, WarmerStages
  <2> QED
    BY <2>1, <2>3
<1>3. DOMAIN warmers = 1 .. Len(warmers) /\ Len(warmers) \in Nat
  OBVIOUS
<1>4. \A n \in 1 .. Len(warmers) :
        IF s \in DOMAIN loops /\ loops[s] = n /\ warmers[n].stage \in {"asleep", "sending"}
        THEN [warmers[n] EXCEPT !.stage = "stopping"] \in Warmers
        ELSE warmers[n] \in Warmers
  BY <1>1, <1>2, <1>3
<1>5. Stopped(s, warmers) \in [1 .. Len(warmers) -> Warmers]
  BY <1>3, <1>4 DEF Stopped
<1>6. Stopped(s, warmers) \in Seq(Warmers)
  BY <1>3, <1>5
<1>7. DOMAIN Stopped(s, warmers) = DOMAIN warmers
  BY DEF Stopped
<1>8. \A n \in DOMAIN warmers :
        Stopped(s, warmers)[n] =
          IF s \in DOMAIN loops /\ loops[s] = n /\ warmers[n].stage \in {"asleep", "sending"}
          THEN [warmers[n] EXCEPT !.stage = "stopping"] ELSE warmers[n]
  BY DEF Stopped
<1>9. \A n \in DOMAIN warmers :
        [warmers[n] EXCEPT !.stage = "stopping"].stage = "stopping"
  BY <1>1 DEF Warmers
<1>10. QED
  BY <1>6, <1>7, <1>8, <1>9

LEMMA StopsTyped ==
    ASSUME WarmingTypes, NEW s, Stops(s)
    PROVE  warmers' \in Seq(Warmers) /\ loops' \in MapOf(Sessions, Nat)
  BY StoppedWarmers, MapWithout DEF WarmingTypes, Stops

LEMMA WarmTimesInt ==
    ASSUME RenewalAssumption, NEW s
    PROVE  /\ WarmPlan(s) \in Int
           /\ WarmPlan(s) # 0 => Lifetime > LeadSeconds
<1> USE DEF RenewalAssumption
<1>1. /\ Lifetime \in Nat /\ LeadSeconds \in Nat /\ MaxSeconds \in Nat
      /\ Prices.read \in Nat /\ Prices.write \in Nat /\ Prices.input \in Nat
  OBVIOUS
<1> DEFINE every == Lifetime - LeadSeconds
           write == IF Prices.write > 0 THEN Prices.write ELSE Prices.input
           saved == IF write > Prices.read THEN write - Prices.read ELSE 0
<1>2. WarmTimes # 0 => Lifetime > LeadSeconds
  BY <1>1 DEF WarmTimes
<1>3. Lifetime > LeadSeconds => (MaxSeconds - 1) \div every \in Int
  BY <1>1
<1>4. write \in Nat
  BY <1>1
<1>5. saved \in Nat
  BY <1>1, <1>4
<1>6. Prices.read # 0 => saved \div Prices.read \in Int
  <2> HIDE DEF saved
  <2> QED
    BY <1>1, <1>5
<1>7. WarmTimes \in Int
  BY <1>1, <1>3, <1>6 DEF WarmTimes
<1>8. QED
  BY <1>2, <1>7 DEF WarmPlan

\* The summarizer is usable, not excluded, and on no limit.
LEMMA SummarizerIs ==
    ASSUME NEW s, NEW usable, NEW p \in Summarizers(s, usable)
    PROVE  p \in usable \ Banned /\ <<s, p>> \notin exhausted
  BY DEF Summarizers

-----------------------------------------------------------------------------
(* Each action keeps the types.                                              *)

LEMMA RenewalInitTypes == RenewalInit => RenewalTypeOK
<1> SUFFICES ASSUME RenewalInit PROVE RenewalTypeOK
  OBVIOUS
<1>1. contexts \in [Sessions -> Contexts]
  BY DEF RenewalInit, Contexts
<1>2. events \in Seq(Events) /\ warmers \in Seq(Warmers) /\ plans \subseteq Plans
  BY DEF RenewalInit
<1>3. WarmingTypes
  BY <1>1, <1>2, MapEmpty DEF WarmingTypes, RenewalInit
<1>4. resumes \in [Sessions -> {NoneYet} \cup JudgedFacts]
  BY DEF RenewalInit
<1>5. memo \in RenewalMemo
  BY MapEmpty DEF RenewalInit, RenewalMemo
<1>6. PendingTypes
  BY <1>4, <1>5, MapEmpty DEF RenewalInit, PendingTypes, CompactionTypes
<1>7. QED
  BY <1>3, <1>6 DEF RenewalTypeOK

LEMMA MemoForgets ==
    ASSUME memo \in RenewalMemo, NEW b \in BOOLEAN
    PROVE  /\ [memo EXCEPT !.forgot = b] \in RenewalMemo
           /\ [memo EXCEPT !.forgot = b].forgot = b
           /\ [memo EXCEPT !.forgot = b].unseen = memo.unseen
           /\ [memo EXCEPT !.forgot = b].failed = memo.failed
  BY DEF RenewalMemo

LEMMA MemoSees ==
    ASSUME memo \in RenewalMemo, NEW S \in SUBSET Sessions
    PROVE  /\ [memo EXCEPT !.unseen = S] \in RenewalMemo
           /\ [memo EXCEPT !.unseen = S].forgot = memo.forgot
           /\ [memo EXCEPT !.unseen = S].unseen = S
           /\ [memo EXCEPT !.unseen = S].failed = memo.failed
  BY DEF RenewalMemo

LEMMA MemoTries ==
    ASSUME memo \in RenewalMemo
    PROVE  /\ [memo EXCEPT !.trials = @ + 1] \in RenewalMemo
           /\ [memo EXCEPT !.trials = @ + 1].forgot = memo.forgot
           /\ [memo EXCEPT !.trials = @ + 1].unseen = memo.unseen
           /\ [memo EXCEPT !.trials = @ + 1].failed = memo.failed
<1>1. memo.trials + 1 \in Nat
  BY DEF RenewalMemo
<1>2. [memo EXCEPT !.trials = @ + 1] = [memo EXCEPT !.trials = memo.trials + 1]
  BY DEF RenewalMemo
<1>3. QED
  BY <1>1, <1>2 DEF RenewalMemo


\* Actions that leave the loops, the host and the plugin's counts alone.
WarmingSame ==
    UNCHANGED <<clock, contexts, events, executions, warmed, loops, plans, warmers>>

LEMMA WarmingSameTypes == WarmingTypes /\ WarmingSame => WarmingTypes'
  BY DEF WarmingTypes, WarmingSame

LEMMA QuietSteps ==
    ASSUME \/ Stores \/ UNCHANGED renewalVars
           \/ \E s \in Sessions :
                \/ Resumes(s) \/ GoesOn(s) \/ Fills(s) \/ Compacts(s)
                \/ \E accepted \in BOOLEAN : Renewed(s, accepted)
    PROVE  WarmingSame
  BY DEF Stores, Resumes, Renewed, GoesOn, Fills, Compacts, renewalVars, timeVars,
         warmVars, WarmingSame

LEMMA EventsTail ==
    ASSUME events \in Seq(Events), events # << >>
    PROVE  /\ Tail(events) \in Seq(Events) /\ Head(events) = events[1]
           /\ 1 \in DOMAIN events /\ Len(Tail(events)) = Len(events) - 1
           /\ \A i \in DOMAIN events : i # 1 =>
                i - 1 \in DOMAIN Tail(events) /\ Tail(events)[i - 1] = events[i]
           /\ \A i \in DOMAIN Tail(events) :
                i + 1 \in DOMAIN events /\ Tail(events)[i] = events[i + 1]
<1>1. Len(events) \in Nat /\ Len(events) # 0
  BY EmptySeq
<1>2. QED
  BY <1>1

LEMMA HostTypes ==
    ASSUME WarmingTypes, RenewalAssumption, NEW s \in Sessions,
           \/ Tick \/ Executes(s) \/ \E limit \in BOOLEAN : Ends(s, limit)
           \/ HandlesStart(s) \/ HandlesEnd(s)
    PROVE  WarmingTypes'
<1> USE DEF timeVars, warmVars
<1>1. contexts[s] \in Contexts /\ clock \in Nat
  BY DEF WarmingTypes
<1>2. <<"started", s>> \in Events /\ <<"succeeded", s>> \in Events
  BY DEF Events
<1>3. CASE Tick
  BY <1>1, <1>3 DEF WarmingTypes, Tick
<1>4. CASE Executes(s)
  <2>1. contexts' \in [Sessions -> Contexts]
    <3> DEFINE c == [contexts[s] EXCEPT !.running = TRUE,
                                        !.turns = contexts[s].turns + 1, !.read = clock]
    <3>1. contexts[s].turns + 1 \in Nat
      BY <1>1 DEF Contexts
    <3>2. c \in Contexts
      BY <1>1, <3>1 DEF Contexts
    <3>3. contexts' = [contexts EXCEPT ![s] = c]
      BY <1>1, <1>4 DEF Executes, WarmingTypes, Contexts
    <3> HIDE DEF c
    <3> QED
      BY <3>2, <3>3 DEF WarmingTypes
  <2>2. events' \in Seq(Events)
    BY <1>2, <1>4 DEF Executes, WarmingTypes
  <2>3. UNCHANGED <<clock, executions, warmed, plans>> /\ Stops(s)
    BY <1>4 DEF Executes
  <2> QED
    BY <2>1, <2>2, <2>3, StopsTyped DEF WarmingTypes
<1>5. CASE \E limit \in BOOLEAN : Ends(s, limit)
  <2>1. PICK limit \in BOOLEAN : Ends(s, limit)
    BY <1>5
  <2>2. contexts' \in [Sessions -> Contexts]
    <3> DEFINE e == IF limit THEN contexts[s].ended ELSE clock
               c == [contexts[s] EXCEPT !.running = FALSE, !.ended = e, !.read = clock]
    <3>1. e \in Nat
      BY <1>1 DEF Contexts
    <3>2. c \in Contexts
      <4> HIDE DEF e
      <4> QED
        BY <1>1, <3>1 DEF Contexts
    <3>3. contexts' = [contexts EXCEPT ![s] = c]
      BY <1>1, <2>1 DEF Ends, WarmingTypes, Contexts
    <3> HIDE DEF c
    <3> QED
      BY <3>2, <3>3 DEF WarmingTypes
  <2>3. events' \in Seq(Events)
    <3>1. events' = events \/ events' = Append(events, <<"succeeded", s>>)
      BY <2>1 DEF Ends
    <3>2. PICK e : e = <<"succeeded", s>>
      OBVIOUS
    <3>3. e \in Events /\ (events' = events \/ events' = Append(events, e))
      BY <1>2, <3>1, <3>2
    <3>4. events \in Seq(Events)
      BY DEF WarmingTypes
    <3>5. Append(events, e) \in Seq(Events)
      BY <3>3, <3>4, AppendProperties
    <3> QED
      BY <3>3, <3>4, <3>5
  <2> QED
    BY <2>1, <2>2, <2>3 DEF Ends, WarmingTypes
<1>6. CASE HandlesStart(s)
  <2> DEFINE room == Room(executions, s)
             count == IF s \in DOMAIN room THEN room[s] + 1 ELSE 1
  <2>1. room \in MapOf(Sessions, Nat)
    BY MapRoom DEF WarmingTypes
  <2>2. s \in DOMAIN room => room[s] \in Nat
    BY <2>1, MapValue
  <2>3. count \in Nat
    <3> HIDE DEF room
    <3> QED
      BY <2>2
  <2>4. executions' = Set(room, s, count)
    BY <1>6 DEF HandlesStart
  <2>5. executions' \in MapOf(Sessions, Nat)
    <3> HIDE DEF room, count
    <3> QED
      BY <2>1, <2>3, <2>4, MapSet
  <2>6. events' \in Seq(Events)
    <3>1. events # << >> /\ events' = Tail(events)
      BY <1>6 DEF HandlesStart
    <3> QED
      BY <3>1, EventsTail DEF WarmingTypes
  <2>7. UNCHANGED <<clock, contexts, warmed, plans>> /\ Stops(s)
    BY <1>6 DEF HandlesStart
  <2> QED
    BY <2>5, <2>6, <2>7, StopsTyped DEF WarmingTypes
<1>7. CASE HandlesEnd(s)
  <2>1. ExecutionsOf(s) \in Nat
    BY MapValue DEF ExecutionsOf, WarmingTypes
  <2>2. plans' \subseteq Plans
    <3> DEFINE new == [of |-> s, execution |-> ExecutionsOf(s),
                       turn |-> contexts[s].turns]
    <3>1. contexts[s].turns \in Nat
      BY <1>1 DEF Contexts
    <3>2. new \in Plans
      BY <2>1, <3>1 DEF Plans
    <3>3. plans' = plans \cup {new}
      BY <1>7 DEF HandlesEnd
    <3> HIDE DEF new
    <3> QED
      BY <3>2, <3>3 DEF WarmingTypes
  <2>3. events' \in Seq(Events)
    BY <1>7, EventsTail DEF HandlesEnd, WarmingTypes
  <2> QED
    BY <1>7, <2>2, <2>3 DEF HandlesEnd, WarmingTypes
<1>8. QED
  BY <1>3, <1>4, <1>5, <1>6, <1>7

\* The loop a plan begins.
NewWarmer(plan) ==
    [of |-> plan.of, turn |-> plan.turn, stage |-> "asleep",
     left |-> WarmPlan(plan.of), at |-> clock + Lifetime - LeadSeconds]

\* Loops are stopped to make room, others left as they are.
LEMMA SchedulesHow ==
    ASSUME WarmingTypes, RenewalAssumption, NEW plan \in plans, Schedules(plan)
    PROVE  \/ Stops(plan.of)
           \/ /\ NoneBegan(plan) /\ Lifetime > LeadSeconds
              /\ warmers' \in Seq(Warmers) /\ loops' \in MapOf(Sessions, Nat)
              /\ DOMAIN warmers' = DOMAIN warmers \cup {Len(warmers) + 1}
              /\ Len(warmers) + 1 \notin DOMAIN warmers
              /\ warmers'[Len(warmers) + 1] = NewWarmer(plan)
              /\ plan.of \in DOMAIN loops' /\ loops'[plan.of] = Len(warmers) + 1
              /\ \A n \in DOMAIN warmers :
                   \/ warmers'[n] = warmers[n]
                   \/ /\ warmers[n].stage \in {"asleep", "sending"}
                      /\ warmers'[n] = [warmers[n] EXCEPT !.stage = "stopping"]
              /\ \A n \in DOMAIN warmers, s \in DOMAIN loops :
                   loops[s] = n /\ warmers'[n].stage \in {"asleep", "sending"} =>
                     s # plan.of /\ s \in DOMAIN loops' /\ loops'[s] = n
<1> DEFINE rest == Without(loops, plan.of)
           room == IF Cardinality(DOMAIN rest) >= MaxTracked THEN NoMap ELSE rest
           stopped == [n \in DOMAIN warmers |->
                         IF /\ \E s \in DOMAIN loops : loops[s] = n /\ s \notin DOMAIN room
                            /\ warmers[n].stage \in {"asleep", "sending"}
                         THEN [warmers[n] EXCEPT !.stage = "stopping"] ELSE warmers[n]]
<1>1. plan \in Plans /\ clock \in Nat /\ warmers \in Seq(Warmers)
      /\ loops \in MapOf(Sessions, Nat)
  BY DEF WarmingTypes
<1>2. CASE WarmPlan(plan.of) = 0 \/ ~NoneBegan(plan)
  BY <1>2 DEF Schedules
<1>3. CASE ~(WarmPlan(plan.of) = 0 \/ ~NoneBegan(plan))
  <2>1. /\ warmers' = Append(stopped, NewWarmer(plan))
        /\ loops' = Set(room, plan.of, Len(warmers'))
    BY <1>3 DEF Schedules, NewWarmer
  <2>2. rest \in MapOf(Sessions, Nat) /\ DOMAIN rest = DOMAIN loops \ {plan.of}
        /\ \A j \in DOMAIN rest : rest[j] = loops[j]
    <3> HIDE DEF room, stopped
    <3>1. /\ rest \in MapOf(Sessions, Nat)
          /\ DOMAIN rest = DOMAIN loops \ {plan.of}
          /\ \A j \in DOMAIN loops \ {plan.of} : rest[j] = loops[j]
      <4>1. PICK k : k = plan.of
        OBVIOUS
      <4>2. /\ Without(loops, k) \in MapOf(Sessions, Nat)
            /\ DOMAIN Without(loops, k) = DOMAIN loops \ {k}
            /\ \A j \in DOMAIN loops \ {k} : Without(loops, k)[j] = loops[j]
        <5>1. loops \in MapOf(Sessions, Nat)
          BY <1>1
        <5>2. Without(loops, k) \in MapOf(Sessions, Nat)
          BY <5>1, MapWithout
        <5>3. DOMAIN Without(loops, k) = DOMAIN loops \ {k}
          BY DEF Without
        <5>4. \A j \in DOMAIN loops \ {k} : Without(loops, k)[j] = loops[j]
          BY DEF Without
        <5> QED
          BY <5>2, <5>3, <5>4
      <4> QED
        BY <4>1, <4>2
    <3> HIDE DEF rest
    <3> QED
      BY <3>1
  <2>3. /\ room \in MapOf(Sessions, Nat)
        /\ DOMAIN room \subseteq DOMAIN loops \ {plan.of}
        /\ \A j \in DOMAIN room : room[j] = loops[j]
    <3> HIDE DEF rest
    <3> QED
      BY <2>2, MapEmpty
  <2> HIDE DEF rest, room
  <2>4. \A n \in DOMAIN warmers :
          /\ warmers[n] \in Warmers
          /\ [warmers[n] EXCEPT !.stage = "stopping"] \in Warmers
          /\ [warmers[n] EXCEPT !.stage = "stopping"].stage = "stopping"
    <3> TAKE n \in DOMAIN warmers
    <3>1. PICK w : w = warmers[n]
      OBVIOUS
    <3>2. w \in Warmers
      BY <1>1, <3>1
    <3>3. /\ [w EXCEPT !.stage = "stopping"] \in Warmers
          /\ [w EXCEPT !.stage = "stopping"].stage = "stopping"
      BY <3>2 DEF Warmers, WarmerStages
    <3> QED
      BY <3>1, <3>2, <3>3
  <2>5. DOMAIN warmers = 1 .. Len(warmers) /\ Len(warmers) \in Nat
    BY <1>1
  <2>6. stopped \in [1 .. Len(warmers) -> Warmers]
    BY <2>4, <2>5
  <2>7. /\ stopped \in Seq(Warmers) /\ Len(stopped) = Len(warmers)
        /\ DOMAIN stopped = DOMAIN warmers
    BY <2>5, <2>6
  <2>8. \A n \in DOMAIN warmers :
          stopped[n] =
            IF /\ \E s \in DOMAIN loops : loops[s] = n /\ s \notin DOMAIN room
               /\ warmers[n].stage \in {"asleep", "sending"}
            THEN [warmers[n] EXCEPT !.stage = "stopping"] ELSE warmers[n]
    OBVIOUS
  <2> HIDE DEF stopped
  <2>9. NewWarmer(plan) \in Warmers
    BY <1>1, WarmTimesInt, SMTT(20) DEF NewWarmer, Warmers, WarmerStages, Plans, RenewalAssumption
  <2>10. /\ warmers' \in Seq(Warmers) /\ Len(warmers') = Len(warmers) + 1
         /\ DOMAIN warmers' = 1 .. Len(warmers) + 1
         /\ warmers'[Len(warmers) + 1] = NewWarmer(plan)
         /\ \A n \in 1 .. Len(warmers) : warmers'[n] = stopped[n]
    BY <2>1, <2>5, <2>7, <2>9
  <2>11. /\ loops' \in MapOf(Sessions, Nat)
         /\ plan.of \in DOMAIN loops' /\ loops'[plan.of] = Len(warmers) + 1
         /\ \A j \in DOMAIN room : j \in DOMAIN loops' /\ loops'[j] = loops[j]
    <3>1. plan.of \in Sessions /\ Len(warmers') \in Nat
      BY <1>1, <2>5, <2>10 DEF Plans
    <3>2. PICK new : new = Len(warmers')
      OBVIOUS
    <3>3. /\ Set(room, plan.of, new) \in MapOf(Sessions, Nat)
          /\ DOMAIN Set(room, plan.of, new) = DOMAIN room \cup {plan.of}
          /\ Set(room, plan.of, new)[plan.of] = new
          /\ \A j \in DOMAIN room \ {plan.of} : Set(room, plan.of, new)[j] = room[j]
      <4>1. PICK k : k = plan.of
        OBVIOUS
      <4>2. /\ Set(room, k, new) \in MapOf(Sessions, Nat)
            /\ DOMAIN Set(room, k, new) = DOMAIN room \cup {k}
            /\ Set(room, k, new)[k] = new
            /\ \A j \in DOMAIN room \ {k} : Set(room, k, new)[j] = room[j]
        <5>1. room \in MapOf(Sessions, Nat) /\ k \in Sessions /\ new \in Nat
          BY <2>3, <3>1, <3>2, <4>1
        <5> QED
          BY <5>1, MapSet
      <4> QED
        BY <4>1, <4>2
    <3>4. loops' = Set(room, plan.of, new) /\ new = Len(warmers) + 1
      BY <2>1, <2>10, <3>2
    <3>5. plan.of \notin DOMAIN room
      BY <2>3
    <3> QED
      BY <2>3, <3>3, <3>4, <3>5
  <2>12. \A n \in DOMAIN warmers, s \in DOMAIN loops :
           loops[s] = n /\ warmers'[n].stage \in {"asleep", "sending"} =>
             s # plan.of /\ s \in DOMAIN loops' /\ loops'[s] = n
    <3> SUFFICES ASSUME NEW n \in DOMAIN warmers, NEW s \in DOMAIN loops, loops[s] = n,
                        warmers'[n].stage \in {"asleep", "sending"}
                 PROVE  s # plan.of /\ s \in DOMAIN loops' /\ loops'[s] = n
      OBVIOUS
    <3>1. warmers'[n] = stopped[n]
      BY <2>5, <2>10
    <3>2. s \in DOMAIN room
      BY <2>4, <2>8, <3>1
    <3> QED
      BY <2>3, <2>11, <3>2
  <2>13. Lifetime > LeadSeconds /\ NoneBegan(plan)
    BY <1>3, WarmTimesInt
  <2>14. \A n \in DOMAIN warmers :
           \/ warmers'[n] = warmers[n]
           \/ /\ warmers[n].stage \in {"asleep", "sending"}
              /\ warmers'[n] = [warmers[n] EXCEPT !.stage = "stopping"]
    BY <2>5, <2>8, <2>10
  <2>15. /\ DOMAIN warmers' = DOMAIN warmers \cup {Len(warmers) + 1}
         /\ Len(warmers) + 1 \notin DOMAIN warmers
    BY <2>5, <2>10
  <2> QED
    BY <2>10, <2>11, <2>12, <2>13, <2>14, <2>15
<1>4. QED
  BY <1>2, <1>3


LEMMA LoopTypes ==
    ASSUME WarmingTypes, RenewalAssumption,
           \/ \E plan \in plans : Schedules(plan) \/ PlanFails(plan)
           \/ \E n \in DOMAIN warmers :
                Warms(n) \/ Interrupted(n) \/ \E ok \in BOOLEAN : Warmed(n, ok)
    PROVE  WarmingTypes'
<1> USE DEF timeVars, warmVars
<1>1. clock \in Nat /\ warmers \in Seq(Warmers) /\ contexts \in [Sessions -> Contexts]
      /\ warmed \in MapOf(Sessions, Nat)
  BY DEF WarmingTypes
<1>2. ASSUME NEW plan \in plans, Schedules(plan)
      PROVE  WarmingTypes'
  <2>1. warmers' \in Seq(Warmers) /\ loops' \in MapOf(Sessions, Nat)
    BY <1>2, SchedulesHow, StopsTyped
  <2> QED
    BY <1>2, <2>1 DEF Schedules, WarmingTypes
<1>3. ASSUME NEW plan \in plans, PlanFails(plan)
      PROVE  WarmingTypes'
  BY <1>3 DEF PlanFails, WarmingTypes
<1>4. ASSUME NEW n \in DOMAIN warmers, Warms(n)
      PROVE  WarmingTypes'
  <2>1. PICK w : w = warmers[n]
    OBVIOUS
  <2>2. w \in Warmers
    BY <1>1, <2>1
  <2> DEFINE stage == IF w.stage = "stopping" THEN "stopping" ELSE "sending"
  <2>3. stage \in WarmerStages /\ w.left - 1 \in Int
    BY <2>2 DEF Warmers, WarmerStages
  <2>4. warmers' = [warmers EXCEPT ![n] = [w EXCEPT !.stage = stage, !.left = w.left - 1]]
    BY <1>1, <1>4, <2>1, <2>2 DEF Warms, Warmers
  <2> HIDE DEF stage
  <2>5. [w EXCEPT !.stage = stage, !.left = w.left - 1] \in Warmers
    BY <2>2, <2>3 DEF Warmers
  <2>6. warmers' \in Seq(Warmers)
    BY <1>1, <2>4, <2>5
  <2>7. contexts' \in [Sessions -> Contexts]
    <3>1. w.of \in Sessions
      BY <2>2 DEF Warmers
    <3>2. contexts' = [contexts EXCEPT ![w.of] = [contexts[w.of] EXCEPT !.read = clock]]
      BY <1>1, <1>4, <2>1, <3>1 DEF Warms
    <3>3. PICK c : c = contexts[w.of]
      OBVIOUS
    <3>4. c \in Contexts /\ clock \in Nat
      BY <1>1, <3>1, <3>3
    <3>5. [c EXCEPT !.read = clock] \in Contexts
      BY <3>4 DEF Contexts
    <3> QED
      BY <1>1, <3>2, <3>3, <3>5
  <2> QED
    BY <1>4, <2>6, <2>7 DEF Warms, WarmingTypes
<1>5. ASSUME NEW n \in DOMAIN warmers, Interrupted(n)
      PROVE  WarmingTypes'
  <2>1. PICK w : w = warmers[n]
    OBVIOUS
  <2>2. w \in Warmers
    BY <1>1, <2>1
  <2>3. warmers' = [warmers EXCEPT ![n] = [w EXCEPT !.stage = "over"]]
    BY <1>1, <1>5, <2>1 DEF Interrupted
  <2>4. [w EXCEPT !.stage = "over"] \in Warmers
    BY <2>2 DEF Warmers, WarmerStages
  <2>5. warmers' \in Seq(Warmers)
    BY <1>1, <2>3, <2>4
  <2> QED
    BY <1>5, <2>5 DEF Interrupted, WarmingTypes
<1>6. ASSUME NEW n \in DOMAIN warmers, NEW ok \in BOOLEAN, Warmed(n, ok)
      PROVE  WarmingTypes'
  <2>1. PICK w : w = warmers[n]
    OBVIOUS
  <2>2. w \in Warmers
    BY <1>1, <2>1
  <2> DEFINE stage == IF w.left = 0 THEN "over" ELSE "asleep"
             next == clock + Lifetime - LeadSeconds
  <2>3. stage \in WarmerStages /\ next \in Int
    BY <1>1 DEF WarmerStages, RenewalAssumption
  <2>4. warmers' = [warmers EXCEPT ![n] = [w EXCEPT !.stage = stage, !.at = next]]
    BY <1>1, <1>6, <2>1, <2>2 DEF Warmed, Warmers
  <2> HIDE DEF stage, next
  <2>5. [w EXCEPT !.stage = stage, !.at = next] \in Warmers
    BY <2>2, <2>3 DEF Warmers
  <2>6. warmers' \in Seq(Warmers)
    BY <1>1, <2>4, <2>5
  <2>7. warmed' \in MapOf(Sessions, Nat)
    <3>1. w.of \in Sessions
      BY <2>2 DEF Warmers
    <3>2. warmed' = warmed \/ warmed' = Set(Room(warmed, w.of), w.of, clock)
      BY <1>6, <2>1 DEF Warmed
    <3>3. PICK room : room = Room(warmed, w.of)
      OBVIOUS
    <3>4. room \in MapOf(Sessions, Nat)
      BY <1>1, <3>3, MapRoom
    <3>5. Set(room, w.of, clock) \in MapOf(Sessions, Nat)
      BY <1>1, <3>1, <3>4, MapSet
    <3> QED
      BY <1>1, <3>2, <3>3, <3>5
  <2> QED
    BY <1>6, <2>6, <2>7 DEF Warmed, WarmingTypes
<1>7. QED
  BY <1>2, <1>3, <1>4, <1>5, <1>6

\* A summary starts a context that is yet to be measured.
LEMMA SummaryHow ==
    ASSUME contexts \in [Sessions -> Contexts], clock \in Nat, NEW s \in Sessions,
           \/ \E how \in {"filled", "unfilled", "fails"} : Summarized(s, how)
           \/ OwnSummary(s)
    PROVE  /\ contexts' \in [Sessions -> Contexts]
           /\ \A u \in Sessions :
                /\ contexts'[u].running = contexts[u].running
                /\ contexts'[u].turns = contexts[u].turns
                /\ contexts'[u] = contexts[u] \/ contexts'[u].ended = 0
                /\ contexts'[u].read \in {contexts[u].read, clock}
<1>1. PICK c : c = contexts[s]
  OBVIOUS
<1>2. c \in Contexts
  BY <1>1
<1> DEFINE one == [c EXCEPT !.ended = 0]
           two == [c EXCEPT !.ended = 0, !.read = clock]
<1>3. /\ one \in Contexts /\ one.running = c.running /\ one.turns = c.turns
      /\ one.ended = 0 /\ one.read = c.read
  BY <1>2 DEF Contexts
<1>4. /\ two \in Contexts /\ two.running = c.running /\ two.turns = c.turns
      /\ two.ended = 0 /\ two.read = clock
  BY <1>2 DEF Contexts
<1>5. \/ contexts' = contexts
      \/ contexts' = [contexts EXCEPT ![s] = one]
      \/ contexts' = [contexts EXCEPT ![s] = two]
  BY <1>1 DEF Summarized, OwnSummary
<1> HIDE DEF one, two
<1>6. QED
  BY <1>1, <1>3, <1>4, <1>5

LEMMA SummaryTypes ==
    ASSUME WarmingTypes, NEW s \in Sessions,
           \/ \E how \in {"filled", "unfilled", "fails"} : Summarized(s, how)
           \/ OwnSummary(s)
    PROVE  WarmingTypes'
<1>1. contexts' \in [Sessions -> Contexts]
  BY SummaryHow DEF WarmingTypes
<1>2. UNCHANGED <<clock, events, executions, warmed, loops, plans, warmers>>
  BY DEF Summarized, OwnSummary, warmVars
<1>3. QED
  BY <1>1, <1>2 DEF WarmingTypes

LEMMA ReinstallTypes ==
    ASSUME WarmingTypes, Reinstalls
    PROVE  WarmingTypes'
<1>1. /\ events' = << >> /\ plans' = {} /\ warmers' = << >>
      /\ executions' = NoMap /\ warmed' = NoMap /\ loops' = NoMap
      /\ UNCHANGED <<clock, contexts>>
  BY DEF Reinstalls
<1>2. events' \in Seq(Events) /\ warmers' \in Seq(Warmers)
  BY <1>1
<1>3. QED
  BY <1>1, <1>2, MapEmpty DEF WarmingTypes

LEMMA WarmingStep ==
    ASSUME RenewalAssumption, WarmingTypes, [RenewalNext]_renewalVars
    PROVE  WarmingTypes'
<1>1. CASE \/ Stores \/ UNCHANGED renewalVars
           \/ \E s \in Sessions :
                \/ Resumes(s) \/ GoesOn(s) \/ Fills(s) \/ Compacts(s)
                \/ \E accepted \in BOOLEAN : Renewed(s, accepted)
  BY <1>1, QuietSteps, WarmingSameTypes
<1>2. CASE Tick
  BY <1>2 DEF Tick, WarmingTypes, timeVars, warmVars
<1>3. CASE \E s \in Sessions :
             \/ Executes(s) \/ \E limit \in BOOLEAN : Ends(s, limit)
             \/ HandlesStart(s) \/ HandlesEnd(s)
  BY <1>3, HostTypes
<1>4. CASE \/ \E plan \in plans : Schedules(plan) \/ PlanFails(plan)
           \/ \E n \in DOMAIN warmers :
                Warms(n) \/ Interrupted(n) \/ \E ok \in BOOLEAN : Warmed(n, ok)
  BY <1>4, LoopTypes
<1>5. CASE \E s \in Sessions :
             \/ OwnSummary(s)
             \/ \E how \in {"filled", "unfilled", "fails"} : Summarized(s, how)
  BY <1>5, SummaryTypes
<1>6. CASE Reinstalls
  BY <1>6, ReinstallTypes
<1>7. QED
  BY <1>1, <1>2, <1>3, <1>4, <1>5, <1>6 DEF RenewalNext


LEMMA MemoFrame ==
    ASSUME memo \in RenewalMemo, NEW b \in BOOLEAN, NEW S \in SUBSET Sessions,
           \/ memo' = memo
           \/ memo' = [memo EXCEPT !.forgot = memo.forgot \/ b]
           \/ memo' = [memo EXCEPT !.unseen = S]
           \/ memo' = [memo EXCEPT !.trials = @ + 1]
    PROVE  /\ memo' \in RenewalMemo
           /\ memo'.failed = memo.failed
           /\ memo.forgot => memo'.forgot
<1>1. memo.forgot \in BOOLEAN
  BY DEF RenewalMemo
<1>2. PICK c : c = (memo.forgot \/ b)
  OBVIOUS
<1>3. c \in BOOLEAN /\ (memo.forgot => c)
  BY <1>2
<1>4. /\ [memo EXCEPT !.forgot = c] \in RenewalMemo
      /\ [memo EXCEPT !.forgot = c].forgot = c
      /\ [memo EXCEPT !.forgot = c].failed = memo.failed
  BY <1>3, MemoForgets
<1>5. CASE memo' = [memo EXCEPT !.forgot = memo.forgot \/ b]
  BY <1>2, <1>3, <1>4, <1>5
<1>6. CASE memo' = [memo EXCEPT !.unseen = S]
  BY <1>6, MemoSees
<1>7. CASE memo' = [memo EXCEPT !.trials = @ + 1]
  BY <1>7, MemoTries
<1>8. QED
  BY <1>5, <1>6, <1>7

\* A provider fails: noted in the memo and passed over at once.
Fails(s) ==
    LET p == compactions[s].provider
    IN  /\ passed_over' = Set(passed_over, p, clock + PassOverSeconds)
        /\ memo' = [memo EXCEPT !.failed = Set(@, p, clock), !.trials = @ + 1]

KeptFailures ==
    {p \in DOMAIN memo.failed \cap DOMAIN stored : stored[p] = passed_over[p]}

ReinstalledMemo ==
    [memo EXCEPT !.unseen = Sessions, !.trials = @ + 1,
                 !.failed = [p \in KeptFailures |-> memo.failed[p]]]

\* What may become of the memo, and of the providers passed over.
LEMMA MemoStep ==
    ASSUME RenewalTypeOK, [RenewalNext]_renewalVars
    PROVE  \/ /\ memo' \in RenewalMemo /\ memo'.failed = memo.failed
              /\ memo.forgot => memo'.forgot
              /\ passed_over' = passed_over
           \/ \E s \in Sessions : Fails(s) /\ compactions[s].stage = "cheap"
           \/ Reinstalls /\ memo' = ReinstalledMemo /\ passed_over' = stored
<1> USE DEF RenewalTypeOK, timeVars, warmVars, renewVars
<1>0. memo \in RenewalMemo /\ memo.unseen \in SUBSET Sessions
      /\ warmed \in MapOf(Sessions, Nat) /\ warmers \in Seq(Warmers)
  BY DEF PendingTypes, WarmingTypes, RenewalMemo
<1>1. CASE UNCHANGED <<memo, passed_over>>
  BY <1>0, <1>1
<1>2. ASSUME NEW s \in Sessions, NEW limit \in BOOLEAN, Ends(s, limit)
      PROVE  memo' \in RenewalMemo /\ memo'.failed = memo.failed
             /\ (memo.forgot => memo'.forgot) /\ passed_over' = passed_over
  <2> DEFINE seen == IF limit THEN memo.unseen \cup {s} ELSE memo.unseen \ {s}
  <2>1. seen \in SUBSET Sessions
    BY <1>0
  <2>2. memo' = [memo EXCEPT !.unseen = seen] /\ passed_over' = passed_over
    BY <1>0, <1>2 DEF Ends, RenewalMemo
  <2> HIDE DEF seen
  <2> QED
    BY <1>0, <2>1, <2>2, MemoFrame
<1>3. ASSUME NEW s \in Sessions, HandlesStart(s)
      PROVE  memo' \in RenewalMemo /\ memo'.failed = memo.failed
             /\ (memo.forgot => memo'.forgot) /\ passed_over' = passed_over
  <2> DEFINE lost == Room(executions, s) # executions
  <2>1. memo' = [memo EXCEPT !.forgot = memo.forgot \/ lost]
    BY <1>0, <1>3 DEF HandlesStart, RenewalMemo
  <2>2. passed_over' = passed_over
    BY <1>3 DEF HandlesStart
  <2>3. lost \in BOOLEAN
    OBVIOUS
  <2> HIDE DEF lost
  <2> QED
    BY <1>0, <2>1, <2>2, <2>3, MemoFrame
<1>4. ASSUME NEW n \in DOMAIN warmers,
             \/ Warms(n) \/ Interrupted(n) \/ \E ok \in BOOLEAN : Warmed(n, ok)
      PROVE  memo' \in RenewalMemo /\ memo'.failed = memo.failed
             /\ (memo.forgot => memo'.forgot) /\ passed_over' = passed_over
  <2>1. PICK s : s = warmers[n].of
    OBVIOUS
  <2>2. s \in Sessions
    <3>1. warmers[n] \in Warmers
      BY <1>0
    <3> QED
      BY <2>1, <3>1 DEF Warmers
  <2>3. DOMAIN warmed \subseteq Sessions
    BY <1>0, MapValue
  <2>4. \E S \in SUBSET Sessions : memo' = memo \/ memo' = [memo EXCEPT !.unseen = S]
    <3>1. CASE Warms(n) \/ Interrupted(n)
      <4> DEFINE S == memo.unseen \cup {s}
      <4>1. memo' = memo \/ memo' = [memo EXCEPT !.unseen = S]
        BY <1>0, <2>1, <3>1 DEF Warms, Interrupted, RenewalMemo
      <4> QED
        BY <1>0, <2>2, <4>1
    <3>2. ASSUME NEW ok \in BOOLEAN, Warmed(n, ok)
          PROVE  \E S \in SUBSET Sessions : memo' = [memo EXCEPT !.unseen = S]
      <4> DEFINE S == memo.unseen
                        \cup (IF ok THEN DOMAIN warmed \ DOMAIN warmed' ELSE {s})
      <4>1. memo' = [memo EXCEPT !.unseen = S]
        BY <1>0, <2>1, <3>2 DEF Warmed, RenewalMemo
      <4>2. S \in SUBSET Sessions
        BY <1>0, <2>2, <2>3
      <4> QED
        BY <4>1, <4>2
    <3> QED
      BY <1>4, <3>1, <3>2
  <2>5. passed_over' = passed_over
    BY <1>4 DEF Warms, Interrupted, Warmed
  <2> QED
    BY <1>0, <2>4, <2>5, MemoFrame
<1>5. ASSUME NEW s \in Sessions, Fills(s)
      PROVE  memo' \in RenewalMemo /\ memo'.failed = memo.failed
             /\ (memo.forgot => memo'.forgot) /\ passed_over' = passed_over
  <2>1. memo' = [memo EXCEPT !.trials = @ + 1] /\ passed_over' = passed_over
    BY <1>5 DEF Fills
  <2> QED
    BY <1>0, <2>1, MemoTries
<1>6. ASSUME NEW s \in Sessions, NEW how, Summarized(s, how)
      PROVE  \/ UNCHANGED <<memo, passed_over>>
             \/ Fails(s) /\ compactions[s].stage = "cheap"
  BY <1>6 DEF Summarized, Fails
<1>7. CASE Reinstalls
  BY <1>7 DEF Reinstalls, ReinstalledMemo, KeptFailures
<1>8. CASE \/ Tick \/ Stores \/ UNCHANGED renewalVars
           \/ \E s \in Sessions :
                \/ Executes(s) \/ HandlesEnd(s) \/ Resumes(s) \/ GoesOn(s)
                \/ Compacts(s) \/ OwnSummary(s)
                \/ \E accepted \in BOOLEAN : Renewed(s, accepted)
           \/ \E plan \in plans : Schedules(plan) \/ PlanFails(plan)
  <2>1. UNCHANGED <<memo, passed_over>>
    BY <1>8 DEF Tick, Stores, renewalVars, Executes, HandlesEnd, Resumes, GoesOn,
         Compacts, OwnSummary, Renewed, Schedules, PlanFails
  <2> QED
    BY <1>1, <2>1
<1>9. QED
  BY <1>1, <1>2, <1>3, <1>4, <1>5, <1>6, <1>7, <1>8 DEF RenewalNext

-----------------------------------------------------------------------------
(* Providers that failed are passed over.                                    *)

\* Until at least PassOverSeconds after, as far as the plugin stored it.
FailedInv ==
    \A p \in DOMAIN memo.failed :
        p \in DOMAIN passed_over /\ passed_over[p] >= memo.failed[p] + PassOverSeconds

LEMMA FailedStep ==
    ASSUME RenewalAssumption, RenewalTypeOK, FailedInv,
           [RenewalNext]_renewalVars
    PROVE  /\ memo' \in RenewalMemo /\ passed_over' \in MapOf(Providers, Nat)
           /\ FailedInv'
<1> USE DEF RenewalTypeOK, FailedInv
<1>1. /\ memo \in RenewalMemo /\ passed_over \in MapOf(Providers, Nat)
      /\ stored \in MapOf(Providers, Nat) /\ clock \in Nat /\ PassOverSeconds \in Nat
      /\ memo.failed \in MapOf(Providers, Nat)
  BY DEF PendingTypes, WarmingTypes, RenewalMemo, RenewalAssumption
<1>2. CASE memo' \in RenewalMemo /\ memo'.failed = memo.failed /\ passed_over' = passed_over
  BY <1>1, <1>2
<1>3. ASSUME NEW s \in Sessions, Fails(s), compactions[s].stage = "cheap"
      PROVE  memo' \in RenewalMemo /\ passed_over' \in MapOf(Providers, Nat) /\ FailedInv'
  <2>1. PICK p : p = compactions[s].provider
    OBVIOUS
  <2>2. p \in Providers
    BY <1>3, <2>1 DEF PendingTypes, CompactionTypes, NoneYet
  <2>3. PICK until : until = clock + PassOverSeconds
    OBVIOUS
  <2>4. until \in Nat
    BY <1>1, <2>3
  <2>5. passed_over' = Set(passed_over, p, until)
    BY <1>3, <2>1, <2>3 DEF Fails
  <2>6. PICK failed : failed = Set(memo.failed, p, clock)
    OBVIOUS
  <2>7. /\ failed \in MapOf(Providers, Nat)
        /\ DOMAIN failed = DOMAIN memo.failed \cup {p} /\ failed[p] = clock
        /\ \A q \in DOMAIN memo.failed \ {p} : failed[q] = memo.failed[q]
    <3>1. failed \in MapOf(Providers, Nat)
      BY <1>1, <2>2, <2>6, MapSet
    <3> QED
      BY <2>6, <3>1 DEF Set
  <2>8. /\ passed_over' \in MapOf(Providers, Nat)
        /\ DOMAIN passed_over' = DOMAIN passed_over \cup {p} /\ passed_over'[p] = until
        /\ \A q \in DOMAIN passed_over \ {p} : passed_over'[q] = passed_over[q]
    <3>1. passed_over' \in MapOf(Providers, Nat)
      BY <1>1, <2>2, <2>4, <2>5, MapSet
    <3> QED
      BY <2>5, <3>1 DEF Set
  <2>9. memo.trials + 1 \in Nat
    BY <1>1 DEF RenewalMemo
  <2>10. memo' = [memo EXCEPT !.failed = failed, !.trials = memo.trials + 1]
    BY <1>1, <1>3, <2>1, <2>6 DEF Fails, RenewalMemo
  <2>11. memo' \in RenewalMemo /\ memo'.failed = failed
    BY <1>1, <2>7, <2>9, <2>10 DEF RenewalMemo
  <2>12. FailedInv'
    BY <1>1, <2>3, <2>7, <2>8, <2>11
  <2> QED
    BY <2>8, <2>11, <2>12
<1>4. ASSUME memo' = ReinstalledMemo, passed_over' = stored
      PROVE  memo' \in RenewalMemo /\ passed_over' \in MapOf(Providers, Nat) /\ FailedInv'
  <2> DEFINE failed == [p \in KeptFailures |-> memo.failed[p]]
  <2>1. KeptFailures \subseteq Providers
    BY <1>1, MapValue DEF KeptFailures
  <2>2. failed \in [KeptFailures -> Nat]
    BY <1>1, MapValue DEF KeptFailures
  <2>3. failed \in MapOf(Providers, Nat)
    BY <2>1, <2>2 DEF MapOf
  <2>4. DOMAIN failed = KeptFailures /\ \A p \in KeptFailures : failed[p] = memo.failed[p]
    OBVIOUS
  <2>5. memo.trials + 1 \in Nat
    BY <1>1 DEF RenewalMemo
  <2>6. memo' = [memo EXCEPT !.unseen = Sessions, !.trials = memo.trials + 1,
                             !.failed = failed]
    BY <1>1, <1>4 DEF ReinstalledMemo, RenewalMemo
  <2> HIDE DEF failed
  <2>7. memo' \in RenewalMemo /\ memo'.failed = failed
    BY <1>1, <2>3, <2>5, <2>6 DEF RenewalMemo
  <2>8. FailedInv'
    BY <1>4, <2>4, <2>7 DEF KeptFailures
  <2> QED
    BY <1>1, <1>4, <2>7, <2>8
<1>5. QED
  BY <1>2, <1>3, <1>4, MemoStep


LEMMA CompactionStep ==
    ASSUME RenewalTypeOK, [RenewalNext]_renewalVars
    PROVE  CompactionTypes'
<1> USE DEF RenewalTypeOK, PendingTypes, CompactionTypes
<1> DEFINE Plain == {NoneYet, [stage |-> "queued"], [stage |-> "own"]}
           Cheap == [stage : {"cheap"}, provider : Providers]
<1>1. CASE UNCHANGED compactions
  BY <1>1
<1>2. ASSUME NEW s \in Sessions, NEW c \in Plain \cup Cheap,
             compactions' = [compactions EXCEPT ![s] = c]
      PROVE  CompactionTypes'
  BY <1>2
<1>3. ASSUME NEW s \in Sessions, Compacts(s)
      PROVE  CompactionTypes'
  <2>1. CASE s \in DOMAIN pending /\ clock - pending[s].at <= PendingSeconds
    <3>1. pending[s].provider \in Providers
      <4>1. PICK asked : asked = pending[s]
        OBVIOUS
      <4>2. asked \in Noted
        BY <2>1, <4>1, MapValue
      <4> QED
        BY <4>1, <4>2 DEF Noted
    <3>2. compactions' = [compactions EXCEPT ![s] =
                            [stage |-> "cheap", provider |-> pending[s].provider]]
      BY <1>3, <2>1 DEF Compacts
    <3> QED
      BY <1>2, <3>1, <3>2
  <2>2. CASE ~(s \in DOMAIN pending /\ clock - pending[s].at <= PendingSeconds)
    <3>1. compactions' = [compactions EXCEPT ![s] = [stage |-> "own"]]
      BY <1>3, <2>2 DEF Compacts
    <3> QED
      BY <1>2, <3>1
  <2> QED
    BY <2>1, <2>2
<1>4. ASSUME NEW s \in Sessions, NEW accepted, Renewed(s, accepted)
      PROVE  CompactionTypes'
  <2>1. \/ compactions' = compactions
        \/ compactions' = [compactions EXCEPT ![s] = [stage |-> "queued"]]
    BY <1>4 DEF Renewed
  <2> QED
    BY <1>1, <1>2, <2>1
<1>5. ASSUME NEW s \in Sessions,
             \/ Fills(s) \/ OwnSummary(s)
             \/ \E how \in {"filled", "unfilled", "fails"} : Summarized(s, how)
      PROVE  CompactionTypes'
  <2>1. \E c \in Plain : compactions' = [compactions EXCEPT ![s] = c]
    BY <1>5 DEF Fills, OwnSummary, Summarized
  <2> QED
    BY <1>2, <2>1
<1>6. CASE Reinstalls
  BY <1>6 DEF Reinstalls
<1>7. CASE \/ Tick \/ Stores \/ UNCHANGED renewalVars
           \/ \E s \in Sessions :
                \/ Executes(s) \/ \E limit \in BOOLEAN : Ends(s, limit)
                \/ HandlesStart(s) \/ HandlesEnd(s) \/ Resumes(s) \/ GoesOn(s)
           \/ \E plan \in plans : Schedules(plan) \/ PlanFails(plan)
           \/ \E n \in DOMAIN warmers :
                Warms(n) \/ Interrupted(n) \/ \E ok \in BOOLEAN : Warmed(n, ok)
  <2>1. UNCHANGED compactions
    BY <1>7 DEF Tick, Stores, renewalVars, renewVars, Executes, Ends, HandlesStart,
         HandlesEnd, Resumes, GoesOn, Schedules, PlanFails, Warms, Interrupted, Warmed
  <2> QED
    BY <1>1, <2>1
<1>8. QED
  BY <1>3, <1>4, <1>5, <1>6, <1>7 DEF RenewalNext

\* What a prompt's facts say is so: cold, and of providers that may be asked.
ResumeSays(resume) ==
    resume.stage = "judging" =>
        /\ resume.idle >= Lifetime => resume.cold
        /\ resume.usable \cap resume.failing = {}

ResumeInv == \A s \in Sessions : ResumeSays(resumes[s])

WarmedAt(s) == IF s \in DOMAIN warmed THEN warmed[s] ELSE 0

\* Whatever the plugin saw of a session, it knows when it was read last.
ReadAt(s) ==
    /\ contexts[s].read <= clock
    /\ contexts[s].ended > 0 /\ ~InFlight(s) /\ s \notin memo.unseen =>
         contexts[s].read <= contexts[s].ended \/ contexts[s].read <= WarmedAt(s)

ReadInv == \A s \in Sessions : ReadAt(s)

LEMMA ResumeSeen ==
    ASSUME RenewalAssumption, RenewalTypeOK, FailedInv, ReadInv,
           NEW s \in Sessions, Resumes(s)
    PROVE  resumes'[s] \in JudgedFacts /\ ResumeSays(resumes'[s])
<1> DEFINE now ==
      [stage |-> "judging", idle |-> IdleSeconds(s), usable |-> Usable,
       cold |-> \/ contexts[s].read + Lifetime <= clock
                \/ InFlight(s) \/ s \in memo.unseen,
       failing |-> {p \in DOMAIN memo.failed :
                      clock < memo.failed[p] + PassOverSeconds}]
<1>1. resumes'[s] = now
  BY DEF Resumes, RenewalTypeOK, PendingTypes
<1>2. /\ clock \in Nat /\ contexts[s] \in Contexts /\ Lifetime \in Nat
      /\ PassOverSeconds \in Nat
      /\ warmed \in MapOf(Sessions, Nat) /\ passed_over \in MapOf(Providers, Nat)
      /\ memo.failed \in MapOf(Providers, Nat)
  BY DEF RenewalTypeOK, WarmingTypes, PendingTypes, RenewalMemo, RenewalAssumption
<1>3. WarmedAt(s) \in Nat /\ contexts[s].ended \in Nat /\ contexts[s].read \in Nat
  BY <1>2, MapValue DEF WarmedAt, Contexts
<1>4. IdleSeconds(s) = clock - (IF WarmedAt(s) > contexts[s].ended
                                THEN WarmedAt(s) ELSE contexts[s].ended)
  BY DEF IdleSeconds, WarmedAt
<1>5. IdleSeconds(s) \in Int
  BY <1>2, <1>3, <1>4
<1>6. \A p \in DOMAIN memo.failed : p \in Providers /\ memo.failed[p] \in Nat
  BY <1>2, MapValue
<1>7. \A p \in DOMAIN passed_over : passed_over[p] \in Nat
  BY <1>2, MapValue
<1>8. now.cold \in BOOLEAN
  BY <1>2, <1>3
<1>9. now \in JudgedFacts
  BY <1>5, <1>6, <1>8 DEF JudgedFacts, Usable
<1>10. Usable \cap now.failing = {}
  BY <1>2, <1>6, <1>7 DEF Usable, FailedInv
<1>11. contexts[s].ended > 0
  BY DEF Resumes
<1>12. IdleSeconds(s) >= Lifetime =>
         \/ contexts[s].read + Lifetime <= clock \/ InFlight(s) \/ s \in memo.unseen
  BY <1>2, <1>3, <1>4, <1>11 DEF ReadInv, ReadAt
<1>13. QED
  BY <1>1, <1>9, <1>10, <1>12 DEF ResumeSays

LEMMA ResumeStep ==
    ASSUME RenewalAssumption, RenewalTypeOK, FailedInv, ReadInv, ResumeInv,
           [RenewalNext]_renewalVars
    PROVE  resumes' \in [Sessions -> {NoneYet} \cup JudgedFacts] /\ ResumeInv'
<1>1. resumes \in [Sessions -> {NoneYet} \cup JudgedFacts]
  BY DEF RenewalTypeOK, PendingTypes
<1>2. ResumeSays(NoneYet)
  BY DEF ResumeSays, NoneYet
<1>3. ASSUME NEW s \in Sessions, NEW r \in {NoneYet} \cup JudgedFacts, ResumeSays(r),
             resumes' = [resumes EXCEPT ![s] = r]
      PROVE  resumes' \in [Sessions -> {NoneYet} \cup JudgedFacts] /\ ResumeInv'
  <2>1. \A u \in Sessions : resumes'[u] = IF u = s THEN r ELSE resumes[u]
    BY <1>1, <1>3
  <2>2. \A u \in Sessions : ResumeSays(resumes'[u])
    BY <1>3, <2>1 DEF ResumeInv
  <2>3. resumes' \in [Sessions -> {NoneYet} \cup JudgedFacts]
    BY <1>1, <1>3
  <2> QED
    BY <2>2, <2>3 DEF ResumeInv, ResumeSays
<1>4. CASE UNCHANGED resumes
  BY <1>1, <1>4 DEF ResumeInv, ResumeSays
<1>5. ASSUME NEW s \in Sessions, Resumes(s)
      PROVE  resumes' \in [Sessions -> {NoneYet} \cup JudgedFacts] /\ ResumeInv'
  <2>1. PICK r : r = resumes'[s]
    OBVIOUS
  <2>2. r \in JudgedFacts /\ ResumeSays(r)
    BY <1>5, <2>1, ResumeSeen
  <2>3. resumes' = [resumes EXCEPT ![s] = r]
    BY <1>1, <1>5, <2>1 DEF Resumes
  <2> QED
    BY <1>3, <2>2, <2>3
<1>6. ASSUME NEW s \in Sessions, GoesOn(s) \/ \E accepted \in BOOLEAN : Renewed(s, accepted)
      PROVE  resumes' \in [Sessions -> {NoneYet} \cup JudgedFacts] /\ ResumeInv'
  <2>1. resumes' = [resumes EXCEPT ![s] = NoneYet]
    BY <1>6 DEF GoesOn, Renewed
  <2> QED
    BY <1>2, <1>3, <2>1
<1>7. CASE Reinstalls
  <2>1. resumes' = [u \in Sessions |-> NoneYet]
    BY <1>7 DEF Reinstalls
  <2>2. \A u \in Sessions : resumes'[u] = NoneYet
    BY <2>1
  <2>3. \A u \in Sessions : ResumeSays(resumes'[u])
    BY <1>2, <2>2
  <2> QED
    BY <2>1, <2>3 DEF ResumeInv, ResumeSays
<1>8. CASE \/ Tick \/ Stores \/ UNCHANGED renewalVars
           \/ \E s \in Sessions :
                \/ Executes(s) \/ \E limit \in BOOLEAN : Ends(s, limit)
                \/ HandlesStart(s) \/ HandlesEnd(s) \/ Fills(s) \/ Compacts(s)
                \/ OwnSummary(s)
                \/ \E how \in {"filled", "unfilled", "fails"} : Summarized(s, how)
           \/ \E plan \in plans : Schedules(plan) \/ PlanFails(plan)
           \/ \E n \in DOMAIN warmers :
                Warms(n) \/ Interrupted(n) \/ \E ok \in BOOLEAN : Warmed(n, ok)
  <2>1. UNCHANGED resumes
    BY <1>8 DEF Tick, Stores, renewalVars, renewVars, Executes, Ends, HandlesStart,
         HandlesEnd, Fills, Compacts, OwnSummary, Summarized, Schedules, PlanFails,
         Warms, Interrupted, Warmed
  <2> QED
    BY <1>4, <2>1
<1>9. QED
  BY <1>5, <1>6, <1>7, <1>8 DEF RenewalNext


LEMMA PendingStep ==
    ASSUME RenewalTypeOK, [RenewalNext]_renewalVars
    PROVE  /\ pending' \in MapOf(Sessions, Noted)
           /\ stored' \in MapOf(Providers, Nat)
<1>1. /\ pending \in MapOf(Sessions, Noted) /\ stored \in MapOf(Providers, Nat)
      /\ passed_over \in MapOf(Providers, Nat) /\ clock \in Nat
      /\ resumes \in [Sessions -> {NoneYet} \cup JudgedFacts]
  BY DEF RenewalTypeOK, PendingTypes, WarmingTypes
<1>2. CASE UNCHANGED <<pending, stored>>
  BY <1>1, <1>2
<1>3. ASSUME NEW s \in Sessions, NEW accepted, Renewed(s, accepted)
      PROVE  pending' \in MapOf(Sessions, Noted) /\ UNCHANGED stored
  <2>1. PICK resume : resume = resumes[s]
    OBVIOUS
  <2>2. resume \in JudgedFacts
    BY <1>1, <1>3, <2>1 DEF Renewed, NoneYet
  <2>3. PICK p \in IF Own \in Fast \cup Free THEN {} ELSE Summarizers(s, resume.usable) :
          pending' = IF accepted
                     THEN Set(Room(pending, s), s, [provider |-> p, at |-> clock])
                     ELSE Without(Set(Room(pending, s), s, [provider |-> p, at |-> clock]), s)
    BY <1>3, <2>1 DEF Renewed
  <2>4. p \in Providers
    BY <2>2, <2>3, SummarizerIs DEF JudgedFacts
  <2>5. PICK asked : asked = [provider |-> p, at |-> clock]
    OBVIOUS
  <2>6. asked \in Noted
    BY <1>1, <2>4, <2>5 DEF Noted
  <2>7. PICK room : room = Room(pending, s)
    OBVIOUS
  <2>8. room \in MapOf(Sessions, Noted)
    BY <1>1, <2>7, MapRoom
  <2>9. PICK noted : noted = Set(room, s, asked)
    OBVIOUS
  <2>10. noted \in MapOf(Sessions, Noted)
    BY <2>6, <2>8, <2>9, MapSet
  <2>11. Without(noted, s) \in MapOf(Sessions, Noted)
    BY <2>10, MapWithout
  <2>12. pending' = IF accepted THEN noted ELSE Without(noted, s)
    BY <2>3, <2>5, <2>7, <2>9
  <2>13. UNCHANGED stored
    BY <1>3 DEF Renewed
  <2> QED
    BY <2>10, <2>11, <2>12, <2>13
<1>4. ASSUME NEW s \in Sessions, Compacts(s)
      PROVE  pending' \in MapOf(Sessions, Noted) /\ UNCHANGED stored
  <2>1. pending' = Without(pending, s) /\ UNCHANGED stored
    BY <1>4 DEF Compacts
  <2>2. Without(pending, s) \in MapOf(Sessions, Noted)
    BY <1>1, MapWithout
  <2> QED
    BY <2>1, <2>2
<1>5. CASE Stores
  BY <1>1, <1>5 DEF Stores
<1>6. CASE Reinstalls
  <2>1. pending' = NoMap /\ UNCHANGED stored
    BY <1>6 DEF Reinstalls
  <2> QED
    BY <1>1, <2>1, MapEmpty
<1>7. CASE \/ Tick \/ UNCHANGED renewalVars
           \/ \E s \in Sessions :
                \/ Executes(s) \/ \E limit \in BOOLEAN : Ends(s, limit)
                \/ HandlesStart(s) \/ HandlesEnd(s) \/ Fills(s) \/ Resumes(s)
                \/ OwnSummary(s) \/ GoesOn(s)
                \/ \E how \in {"filled", "unfilled", "fails"} : Summarized(s, how)
           \/ \E plan \in plans : Schedules(plan) \/ PlanFails(plan)
           \/ \E n \in DOMAIN warmers :
                Warms(n) \/ Interrupted(n) \/ \E ok \in BOOLEAN : Warmed(n, ok)
  <2>1. UNCHANGED <<pending, stored>>
    BY <1>7 DEF Tick, renewalVars, renewVars, Executes, Ends, HandlesStart, HandlesEnd,
         Fills, Resumes, OwnSummary, GoesOn, Summarized, Schedules, PlanFails, Warms,
         Interrupted, Warmed
  <2> QED
    BY <1>2, <2>1
<1>8. QED
  BY <1>1, <1>3, <1>4, <1>5, <1>6, <1>7 DEF RenewalNext

-----------------------------------------------------------------------------
(* What the plugin saw of a session.                                         *)

\* A session's own requests: what they leave of its context.
LEMMA ExecutesHow ==
    ASSUME WarmingTypes, NEW s \in Sessions, Executes(s)
    PROVE  /\ contexts'[s].running /\ contexts'[s].read = clock
           /\ ~contexts[s].running
           /\ \A u \in Sessions \ {s} : contexts'[u] = contexts[u]
<1>1. contexts \in [Sessions -> Contexts]
  BY DEF WarmingTypes
<1>2. PICK c : c = contexts[s]
  OBVIOUS
<1>3. c \in Contexts
  BY <1>1, <1>2
<1>4. contexts' = [contexts EXCEPT ![s] = [c EXCEPT !.running = TRUE,
                                             !.turns = c.turns + 1, !.read = clock]]
  BY <1>1, <1>2, <1>3 DEF Executes, Contexts
<1>5. PICK d : d = [c EXCEPT !.running = TRUE, !.turns = c.turns + 1, !.read = clock]
  OBVIOUS
<1>6. d.running = TRUE /\ d.read = clock
  BY <1>3, <1>5 DEF Contexts
<1>7. contexts' = [contexts EXCEPT ![s] = d]
  BY <1>4, <1>5
<1>8. ~contexts[s].running
  BY DEF Executes
<1>9. QED
  BY <1>1, <1>6, <1>7, <1>8

LEMMA EndsHow ==
    ASSUME WarmingTypes, NEW s \in Sessions, NEW limit \in BOOLEAN, Ends(s, limit)
    PROVE  /\ contexts[s].running
           /\ contexts'[s].running = FALSE /\ contexts'[s].turns = contexts[s].turns
           /\ contexts'[s].read = clock
           /\ contexts'[s].ended = IF limit THEN contexts[s].ended ELSE clock
           /\ \A u \in Sessions \ {s} : contexts'[u] = contexts[u]
<1>1. contexts \in [Sessions -> Contexts]
  BY DEF WarmingTypes
<1>2. PICK c : c = contexts[s]
  OBVIOUS
<1>3. c \in Contexts
  BY <1>1, <1>2
<1> DEFINE e == IF limit THEN c.ended ELSE clock
           d == [c EXCEPT !.running = FALSE, !.ended = e, !.read = clock]
<1>4. contexts' = [contexts EXCEPT ![s] = d]
  BY <1>1, <1>2, <1>3 DEF Ends, Contexts
<1>5. /\ d.running = FALSE /\ d.turns = c.turns /\ d.read = clock
      /\ d.ended = e
  <2> HIDE DEF e
  <2> QED
    BY <1>3 DEF Contexts
<1> HIDE DEF d
<1>6. contexts[s].running
  BY DEF Ends
<1>7. contexts'[s] = d /\ \A u \in Sessions \ {s} : contexts'[u] = contexts[u]
  BY <1>1, <1>4
<1>8. QED
  BY <1>2, <1>5, <1>6, <1>7

LEMMA ReadHost ==
    ASSUME WarmingTypes, ReadInv, memo \in RenewalMemo, NEW s \in Sessions,
           \/ Tick \/ Executes(s) \/ \E limit \in BOOLEAN : Ends(s, limit)
           \/ HandlesStart(s) \/ HandlesEnd(s)
    PROVE  ReadInv'
<1> SUFFICES ASSUME NEW u \in Sessions PROVE ReadAt(u)'
  BY DEF ReadInv
<1> USE DEF timeVars, warmVars
<1>0. ReadAt(u) /\ clock \in Nat /\ contexts[u] \in Contexts
      /\ warmers \in Seq(Warmers)
  BY DEF ReadInv, WarmingTypes
<1>1. contexts[u].read \in Nat /\ contexts[u].ended \in Nat
  BY <1>0 DEF Contexts
<1>2. CASE Tick \/ HandlesEnd(s)
  <2>1. /\ UNCHANGED <<contexts, warmed, warmers, memo>>
        /\ clock' \in Nat /\ clock' >= clock
    BY <1>0, <1>2 DEF Tick, HandlesEnd
  <2>2. (InFlight(u)' <=> InFlight(u)) /\ WarmedAt(u)' = WarmedAt(u)
    BY <2>1 DEF InFlight, WarmedAt
  <2> QED
    BY <1>0, <1>1, <2>1, <2>2 DEF ReadAt
\* A loop that is stopped is still in flight.
<1>3. ASSUME Stops(s), contexts'[u] = contexts[u]
      PROVE  InFlight(u) => InFlight(u)'
  <2>1. warmers' = Stopped(s, warmers)
    BY <1>3 DEF Stops
  <2>2. \A n \in DOMAIN warmers :
          /\ n \in DOMAIN warmers' /\ warmers'[n].of = warmers[n].of
          /\ warmers[n].stage \in {"sending", "stopping"} =>
               warmers'[n].stage \in {"sending", "stopping"}
    <3> TAKE n \in DOMAIN warmers
    <3>1. warmers[n] \in Warmers
      BY <1>0
    <3>2. /\ DOMAIN warmers' = DOMAIN warmers
          /\ \/ warmers'[n] = warmers[n]
             \/ warmers'[n] = [warmers[n] EXCEPT !.stage = "stopping"]
      BY <1>0, <2>1, StoppedWarmers
    <3>3. /\ [warmers[n] EXCEPT !.stage = "stopping"].of = warmers[n].of
          /\ [warmers[n] EXCEPT !.stage = "stopping"].stage = "stopping"
      BY <3>1 DEF Warmers
    <3> QED
      BY <3>2, <3>3
  <2> QED
    BY <1>3, <2>2 DEF InFlight
<1>4. CASE Executes(s)
  <2>1. UNCHANGED <<clock, warmed, memo>> /\ Stops(s)
    BY <1>4 DEF Executes
  <2>2. WarmedAt(u)' = WarmedAt(u)
    BY <2>1 DEF WarmedAt
  <2>3. CASE u = s
    BY <1>0, <1>4, <2>1, <2>3, ExecutesHow DEF ReadAt, InFlight
  <2>4. CASE u # s
    <3>1. contexts'[u] = contexts[u]
      BY <1>4, <2>4, ExecutesHow
    <3> QED
      BY <1>0, <1>3, <2>1, <2>2, <3>1 DEF ReadAt
  <2> QED
    BY <2>3, <2>4
<1>5. ASSUME NEW limit \in BOOLEAN, Ends(s, limit)
      PROVE  ReadAt(u)'
  <2>1. UNCHANGED <<clock, warmed, warmers>>
    BY <1>5 DEF Ends
  <2>2. WarmedAt(u)' = WarmedAt(u)
    BY <2>1 DEF WarmedAt
  <2>3. memo'.unseen = IF limit THEN memo.unseen \cup {s} ELSE memo.unseen \ {s}
    BY <1>5 DEF Ends, RenewalMemo
  <2>4. CASE u = s
    <3>1. /\ contexts'[s].read = clock
          /\ contexts'[s].ended = IF limit THEN contexts[s].ended ELSE clock
      BY <1>5, EndsHow
    <3> QED
      BY <1>0, <2>1, <2>3, <2>4, <3>1 DEF ReadAt
  <2>5. CASE u # s
    <3>1. contexts'[u] = contexts[u]
      BY <1>5, <2>5, EndsHow
    <3>2. InFlight(u)' <=> InFlight(u)
      BY <2>1, <3>1 DEF InFlight
    <3>3. u \in memo.unseen => u \in memo'.unseen
      BY <2>3, <2>5
    <3> QED
      BY <1>0, <2>1, <2>2, <3>1, <3>2, <3>3 DEF ReadAt
  <2> QED
    BY <2>4, <2>5
<1>6. CASE HandlesStart(s)
  <2>1. UNCHANGED <<clock, contexts, warmed>> /\ Stops(s)
    BY <1>6 DEF HandlesStart
  <2>2. memo'.unseen = memo.unseen
    BY <1>6 DEF HandlesStart, RenewalMemo
  <2>3. WarmedAt(u)' = WarmedAt(u)
    BY <2>1 DEF WarmedAt
  <2> QED
    BY <1>0, <1>3, <2>1, <2>2, <2>3 DEF ReadAt
<1>7. QED
  BY <1>2, <1>4, <1>5, <1>6


\* A warmer that moves stays its session's, and the others stay as they are.
LEMMA WarmerMoves ==
    ASSUME WarmingTypes, NEW n \in DOMAIN warmers,
           \/ Warms(n) \/ Interrupted(n) \/ \E ok \in BOOLEAN : Warmed(n, ok)
    PROVE  /\ DOMAIN warmers' = DOMAIN warmers
           /\ \A m \in DOMAIN warmers \ {n} : warmers'[m] = warmers[m]
           /\ warmers'[n].of = warmers[n].of /\ warmers'[n].turn = warmers[n].turn
           /\ Warms(n) =>
                /\ warmers'[n].stage = IF warmers[n].stage = "stopping"
                                       THEN "stopping" ELSE "sending"
                /\ warmers'[n].at = warmers[n].at
           /\ Interrupted(n) => warmers'[n].stage = "over"
           /\ warmers[n].stage = "sending" =>
                warmers'[n].stage \in {"over", "asleep"}
           /\ Warms(n) \/ warmers'[n].left = warmers[n].left
<1>1. warmers \in Seq(Warmers)
  BY DEF WarmingTypes
<1>2. PICK w : w = warmers[n]
  OBVIOUS
<1>3. w \in Warmers
  BY <1>1, <1>2
<1>4. CASE Warms(n)
  <2> DEFINE stage == IF w.stage = "stopping" THEN "stopping" ELSE "sending"
             next == [w EXCEPT !.stage = stage, !.left = w.left - 1]
  <2>1. warmers' = [warmers EXCEPT ![n] = next]
    BY <1>1, <1>2, <1>3, <1>4 DEF Warms, Warmers
  <2>2. next.of = w.of /\ next.turn = w.turn /\ next.stage = stage /\ next.at = w.at
    <3> HIDE DEF stage
    <3> QED
      BY <1>3 DEF Warmers
  <2>3. warmers[n].stage # "sending" /\ ~Interrupted(n)
    <3>1. warmers[n].stage \in {"asleep", "stopping"}
      BY <1>4 DEF Warms
    <3>2. next.stage # "over"
      BY <2>2
    <3>3. warmers'[n] = next
      BY <1>1, <2>1
    <3>4. Interrupted(n) => warmers'[n] = [w EXCEPT !.stage = "over"]
      BY <1>1, <1>2 DEF Interrupted
    <3>5. [w EXCEPT !.stage = "over"].stage = "over"
      BY <1>3 DEF Warmers
    <3> QED
      BY <3>1, <3>2, <3>3, <3>4, <3>5
  <2> HIDE DEF next
  <2> QED
    BY <1>1, <1>2, <1>4, <2>1, <2>2, <2>3
<1>5. CASE Interrupted(n)
  <2> DEFINE next == [w EXCEPT !.stage = "over"]
  <2>1. warmers' = [warmers EXCEPT ![n] = next] /\ w.stage = "stopping"
    BY <1>1, <1>2, <1>5 DEF Interrupted
  <2>2. /\ next.of = w.of /\ next.turn = w.turn /\ next.stage = "over"
        /\ next.left = w.left
    BY <1>3 DEF Warmers
  <2> HIDE DEF next
  <2>3. ~Warms(n)
    <3>1. Warms(n) => warmers'[n].stage \in {"stopping", "sending"}
      <4> SUFFICES ASSUME Warms(n) PROVE warmers'[n].stage \in {"stopping", "sending"}
        OBVIOUS
      <4> DEFINE stage == IF w.stage = "stopping" THEN "stopping" ELSE "sending"
                 sent == [w EXCEPT !.stage = stage, !.left = w.left - 1]
      <4>1. warmers' = [warmers EXCEPT ![n] = sent]
        BY <1>1, <1>2, <1>3 DEF Warms, Warmers
      <4>2. sent.stage = stage
        <5> HIDE DEF stage
        <5> QED
          BY <1>3 DEF Warmers
      <4> QED
        BY <1>1, <4>1, <4>2
    <3> QED
      BY <1>1, <2>1, <2>2, <3>1
  <2> QED
    BY <1>1, <1>2, <2>1, <2>2, <2>3
<1>6. ASSUME NEW ok \in BOOLEAN, Warmed(n, ok), ~Warms(n), ~Interrupted(n)
      PROVE  /\ DOMAIN warmers' = DOMAIN warmers
             /\ \A m \in DOMAIN warmers \ {n} : warmers'[m] = warmers[m]
             /\ warmers'[n].of = warmers[n].of /\ warmers'[n].turn = warmers[n].turn
             /\ warmers'[n].stage \in {"over", "asleep"}
             /\ warmers'[n].left = warmers[n].left
  <2> DEFINE stage == IF w.left = 0 THEN "over" ELSE "asleep"
             until == clock + Lifetime - LeadSeconds
             next == [w EXCEPT !.stage = stage, !.at = until]
  <2>1. warmers' = [warmers EXCEPT ![n] = next]
    BY <1>1, <1>2, <1>3, <1>6 DEF Warmed, Warmers
  <2>2. /\ next.of = w.of /\ next.turn = w.turn /\ next.stage = stage
        /\ next.left = w.left
    <3> HIDE DEF stage, until
    <3> QED
      BY <1>3 DEF Warmers
  <2> HIDE DEF next
  <2> QED
    BY <1>1, <1>2, <2>1, <2>2
<1>7. QED
  BY <1>4, <1>5, <1>6

LEMMA ReadLoops ==
    ASSUME RenewalAssumption, WarmingTypes, ReadInv, memo \in RenewalMemo,
           \/ \E plan \in plans : Schedules(plan) \/ PlanFails(plan)
           \/ \E n \in DOMAIN warmers :
                Warms(n) \/ Interrupted(n) \/ \E ok \in BOOLEAN : Warmed(n, ok)
    PROVE  ReadInv'
<1> SUFFICES ASSUME NEW u \in Sessions PROVE ReadAt(u)'
  BY DEF ReadInv
<1> USE DEF timeVars, warmVars
<1>0. ReadAt(u) /\ clock \in Nat /\ contexts[u] \in Contexts
      /\ contexts \in [Sessions -> Contexts] /\ warmed \in MapOf(Sessions, Nat)
      /\ warmers \in Seq(Warmers) /\ \A n \in DOMAIN warmers : warmers[n] \in Warmers
  BY DEF ReadInv, WarmingTypes
<1>1. contexts[u].read \in Nat /\ contexts[u].ended \in Nat
  BY <1>0 DEF Contexts
<1>2. ASSUME NEW plan \in plans, Schedules(plan)
      PROVE  ReadAt(u)'
  <2>1. UNCHANGED <<clock, contexts, warmed, memo>>
    BY <1>2 DEF Schedules
  <2>2. WarmedAt(u)' = WarmedAt(u)
    BY <2>1 DEF WarmedAt
  <2>3. \A n \in DOMAIN warmers :
          /\ n \in DOMAIN warmers'
          /\ \/ warmers'[n] = warmers[n]
             \/ warmers'[n] = [warmers[n] EXCEPT !.stage = "stopping"]
    <3>1. CASE Stops(plan.of)
      <4>1. warmers' = Stopped(plan.of, warmers)
        BY <3>1 DEF Stops
      <4> QED
        BY <1>0, <4>1, StoppedWarmers
    <3> QED
      BY <1>2, <3>1, SchedulesHow
  <2>4. \A n \in DOMAIN warmers :
          /\ [warmers[n] EXCEPT !.stage = "stopping"].of = warmers[n].of
          /\ [warmers[n] EXCEPT !.stage = "stopping"].stage = "stopping"
    BY <1>0 DEF Warmers
  <2>5. InFlight(u) => InFlight(u)'
    BY <2>1, <2>3, <2>4 DEF InFlight
  <2> QED
    BY <1>0, <2>1, <2>2, <2>5 DEF ReadAt
<1>3. ASSUME NEW plan \in plans, PlanFails(plan)
      PROVE  ReadAt(u)'
  <2>1. UNCHANGED <<clock, contexts, warmed, warmers, memo>>
    BY <1>3 DEF PlanFails
  <2> QED
    BY <1>0, <2>1 DEF ReadAt, InFlight, WarmedAt
\* Of the other sessions a warmer is not.
<1>4. ASSUME NEW n \in DOMAIN warmers, warmers[n].of # u,
             \/ Warms(n) \/ Interrupted(n) \/ \E ok \in BOOLEAN : Warmed(n, ok),
             contexts'[u] = contexts[u]
      PROVE  InFlight(u) => InFlight(u)'
  <2>1. \A m \in DOMAIN warmers : warmers[m].of = u => warmers'[m] = warmers[m]
    BY <1>4, WarmerMoves
  <2> QED
    BY <1>4, <2>1, WarmerMoves DEF InFlight
<1>5. ASSUME NEW n \in DOMAIN warmers, Warms(n)
      PROVE  ReadAt(u)'
  <2>1. UNCHANGED <<clock, warmed>> /\ warmers[n].of \in Sessions
    BY <1>0, <1>5 DEF Warms, Warmers
  <2>2. WarmedAt(u)' = WarmedAt(u)
    BY <2>1 DEF WarmedAt
  <2>3. PICK s : s = warmers[n].of
    OBVIOUS
  <2>4. contexts' = [contexts EXCEPT ![s] = [contexts[s] EXCEPT !.read = clock]]
    BY <1>0, <1>5, <2>1, <2>3 DEF Warms
  <2>5. memo.unseen \subseteq memo'.unseen
    BY <1>5 DEF Warms, RenewalMemo
  <2>6. CASE u # s
    <3>1. contexts'[u] = contexts[u]
      BY <1>0, <2>1, <2>3, <2>4, <2>6
    <3>2. InFlight(u) => InFlight(u)'
      BY <1>4, <1>5, <2>3, <2>6, <3>1
    <3> QED
      BY <1>0, <2>1, <2>2, <2>5, <3>1, <3>2 DEF ReadAt
  <2>7. CASE u = s
    <3>1. contexts'[u].read = clock
      BY <1>0, <2>4, <2>7 DEF Contexts
    <3>2. warmers'[n].stage \in {"sending", "stopping"} /\ warmers'[n].of = u
      BY <1>5, <2>3, <2>7, WarmerMoves
    <3>3. InFlight(u)'
      BY <1>5, <3>2, WarmerMoves DEF InFlight
    <3> QED
      BY <1>0, <2>1, <3>1, <3>3 DEF ReadAt
  <2> QED
    BY <2>6, <2>7
<1>6. ASSUME NEW n \in DOMAIN warmers, Interrupted(n)
      PROVE  ReadAt(u)'
  <2>1. UNCHANGED <<clock, warmed, contexts>>
    BY <1>6 DEF Interrupted
  <2>2. WarmedAt(u)' = WarmedAt(u)
    BY <2>1 DEF WarmedAt
  <2>3. memo'.unseen = memo.unseen \cup {warmers[n].of}
    BY <1>6 DEF Interrupted, RenewalMemo
  <2>4. CASE warmers[n].of # u
    <3>1. InFlight(u) => InFlight(u)'
      BY <1>4, <1>6, <2>1, <2>4
    <3> QED
      BY <1>0, <2>1, <2>2, <2>3, <3>1 DEF ReadAt
  <2>5. CASE warmers[n].of = u
    BY <1>0, <2>1, <2>3, <2>5 DEF ReadAt
  <2> QED
    BY <2>4, <2>5
<1>7. ASSUME NEW n \in DOMAIN warmers, NEW ok \in BOOLEAN, Warmed(n, ok)
      PROVE  ReadAt(u)'
  <2>1. UNCHANGED <<clock, contexts>>
    BY <1>7 DEF Warmed
  <2>2. PICK s : s = warmers[n].of
    OBVIOUS
  <2>3. s \in Sessions
    BY <1>0, <2>2 DEF Warmers
  <2>4. memo'.unseen = memo.unseen
                         \cup (IF ok THEN DOMAIN warmed \ DOMAIN warmed' ELSE {s})
    <3>1. PICK gone : gone = memo.unseen
                         \cup (IF ok THEN DOMAIN warmed \ DOMAIN warmed' ELSE {s})
      OBVIOUS
    <3>2. memo' = [memo EXCEPT !.unseen = gone]
      BY <1>7, <2>2, <3>1 DEF Warmed, RenewalMemo
    <3> QED
      BY <3>1, <3>2 DEF RenewalMemo
  <2>5. PICK room : room = Room(warmed, s)
    OBVIOUS
  <2>6. warmed' = IF ok THEN Set(room, s, clock) ELSE warmed
    BY <1>7, <2>2, <2>5 DEF Warmed
  <2>7. room = warmed \/ DOMAIN room = {}
    BY <1>0, <2>5, MapRoom
  <2>8. ok => /\ s \in DOMAIN warmed' /\ warmed'[s] = clock
              /\ u \in DOMAIN warmed' /\ u # s => warmed'[u] = warmed[u] /\ u \in DOMAIN warmed
    BY <2>6, <2>7 DEF Set
  <2>9. CASE u = s
    BY <1>0, <2>1, <2>4, <2>8, <2>9 DEF ReadAt, WarmedAt
  <2>10. CASE u # s
    <3>1. InFlight(u) => InFlight(u)'
      BY <1>4, <1>7, <2>1, <2>2, <2>10
    <3>2. u \in memo'.unseen \/ (u \notin memo.unseen /\ WarmedAt(u)' = WarmedAt(u))
      BY <2>4, <2>6, <2>8, <2>10 DEF WarmedAt
    <3> QED
      BY <1>0, <2>1, <3>1, <3>2 DEF ReadAt
  <2> QED
    BY <2>9, <2>10
<1>8. QED
  BY <1>2, <1>3, <1>5, <1>6, <1>7

LEMMA ReadStep ==
    ASSUME RenewalAssumption, RenewalTypeOK, ReadInv, [RenewalNext]_renewalVars
    PROVE  ReadInv'
<1> USE DEF RenewalTypeOK
<1>0. memo \in RenewalMemo
  BY DEF PendingTypes
<1>1. CASE \/ Stores \/ UNCHANGED renewalVars
           \/ \E s \in Sessions :
                \/ Resumes(s) \/ GoesOn(s) \/ Fills(s) \/ Compacts(s)
                \/ \E accepted \in BOOLEAN : Renewed(s, accepted)
  <2>1. UNCHANGED <<clock, contexts, warmed, warmers>>
    BY <1>1, QuietSteps DEF WarmingSame
  <2>2. memo'.unseen = memo.unseen
    <3>1. memo' = memo \/ memo' = [memo EXCEPT !.trials = @ + 1]
      BY <1>1 DEF Stores, renewalVars, Resumes, GoesOn, Fills, Compacts, Renewed
    <3> QED
      BY <1>0, <3>1 DEF RenewalMemo
  <2> QED
    BY <2>1, <2>2 DEF ReadInv, ReadAt, InFlight, WarmedAt
<1>2. CASE Tick
  <2>1. /\ UNCHANGED <<contexts, warmed, warmers, memo>>
        /\ clock' \in Nat /\ clock' >= clock
    BY <1>2 DEF Tick, timeVars, warmVars, WarmingTypes
  <2>2. \A u \in Sessions : contexts[u].read \in Nat /\ clock \in Nat
    BY DEF WarmingTypes, Contexts
  <2> QED
    BY <2>1, <2>2 DEF ReadInv, ReadAt, InFlight, WarmedAt
<1>3. CASE \E s \in Sessions :
             \/ Executes(s) \/ \E limit \in BOOLEAN : Ends(s, limit)
             \/ HandlesStart(s) \/ HandlesEnd(s)
  BY <1>0, <1>3, ReadHost
<1>4. CASE \/ \E plan \in plans : Schedules(plan) \/ PlanFails(plan)
           \/ \E n \in DOMAIN warmers :
                Warms(n) \/ Interrupted(n) \/ \E ok \in BOOLEAN : Warmed(n, ok)
  BY <1>0, <1>4, ReadLoops
<1>5. CASE \E s \in Sessions :
             \/ OwnSummary(s)
             \/ \E how \in {"filled", "unfilled", "fails"} : Summarized(s, how)
  <2>1. PICK s \in Sessions :
             \/ OwnSummary(s)
             \/ \E how \in {"filled", "unfilled", "fails"} : Summarized(s, how)
    BY <1>5
  <2>2. UNCHANGED <<clock, warmed, warmers>>
    BY <2>1 DEF OwnSummary, Summarized, warmVars
  <2>3. memo'.unseen = memo.unseen
    <3>1. \/ memo' = memo
          \/ memo' = [memo EXCEPT !.failed = Set(@, compactions[s].provider, clock),
                                  !.trials = @ + 1]
      BY <2>1 DEF OwnSummary, Summarized
    <3> QED
      BY <1>0, <3>1 DEF RenewalMemo
  <2>4. ASSUME NEW u \in Sessions PROVE ReadAt(u)'
    <3>1. /\ contexts'[u].running = contexts[u].running
          /\ contexts'[u] = contexts[u] \/ contexts'[u].ended = 0
          /\ contexts'[u].read \in {contexts[u].read, clock}
      BY <2>1, SummaryHow DEF WarmingTypes
    <3>2. ReadAt(u) /\ clock \in Nat /\ contexts[u].read \in Nat
      BY DEF ReadInv, WarmingTypes, Contexts
    <3> QED
      BY <2>2, <2>3, <3>1, <3>2 DEF ReadAt, InFlight, WarmedAt
  <2> QED
    BY <2>4 DEF ReadInv
<1>6. CASE Reinstalls
  <2>1. UNCHANGED <<clock, contexts>> /\ memo' = ReinstalledMemo
    BY <1>6 DEF Reinstalls, ReinstalledMemo, KeptFailures
  <2>2. memo'.unseen = Sessions
    BY <1>0, <2>1 DEF ReinstalledMemo, RenewalMemo
  <2> QED
    BY <2>1, <2>2 DEF ReadInv, ReadAt
<1>7. QED
  BY <1>1, <1>2, <1>3, <1>4, <1>5, <1>6 DEF RenewalNext


-----------------------------------------------------------------------------
(* Executions the plugin has not heard of yet.                               *)

\* A session goes on, and the plugin has not handled its start.
Begins(s) == \E i \in DOMAIN events : events[i] = <<"started", s>>

\* Of a session that runs again, an end not handled is followed by a start.
QueueAt(s) ==
    contexts[s].running =>
        \A i \in DOMAIN events : events[i] = <<"succeeded", s>> =>
            \E j \in DOMAIN events : j > i /\ events[j] = <<"started", s>>

QueueInv == \A s \in Sessions : QueueAt(s)

LEMMA EventsAppend ==
    ASSUME events \in Seq(Events), NEW e \in Events, events' = Append(events, e)
    PROVE  /\ Len(events) \in Nat /\ DOMAIN events = 1 .. Len(events)
           /\ DOMAIN events' = 1 .. Len(events) + 1
           /\ events'[Len(events) + 1] = e
           /\ \A i \in DOMAIN events : events'[i] = events[i]
  OBVIOUS

\* What is heard of one session leaves the others' starts in the queue.
LEMMA BeginsTail ==
    ASSUME events \in Seq(Events), events # << >>, events' = Tail(events),
           NEW s \in Sessions, Head(events) # <<"started", s>>, Begins(s)
    PROVE  Begins(s)'
<1>1. PICK i \in DOMAIN events : events[i] = <<"started", s>>
  BY DEF Begins
<1>2. i # 1
  BY <1>1, EventsTail
<1>3. i - 1 \in DOMAIN Tail(events) /\ Tail(events)[i - 1] = <<"started", s>>
  BY <1>1, <1>2, EventsTail
<1>4. QED
  BY <1>3 DEF Begins

LEMMA BeginsAppend ==
    ASSUME events \in Seq(Events), NEW e \in Events, events' = Append(events, e),
           NEW s \in Sessions
    PROVE  Begins(s) \/ e = <<"started", s>> => Begins(s)'
<1>1. CASE Begins(s)
  <2>1. PICK i \in DOMAIN events : events[i] = <<"started", s>>
    BY <1>1 DEF Begins
  <2>2. i \in DOMAIN events' /\ events'[i] = <<"started", s>>
    BY <2>1, EventsAppend
  <2> QED
    BY <2>2 DEF Begins
<1>2. CASE e = <<"started", s>>
  <2>1. PICK i : i = Len(events) + 1
    OBVIOUS
  <2>2. i \in DOMAIN events' /\ events'[i] = <<"started", s>>
    BY <1>2, <2>1, EventsAppend
  <2> QED
    BY <2>2 DEF Begins
<1>3. QED
  BY <1>1, <1>2

LEMMA QueueTail ==
    ASSUME events \in Seq(Events), events # << >>, events' = Tail(events),
           NEW s \in Sessions, QueueAt(s), contexts'[s].running => contexts[s].running
    PROVE  QueueAt(s)'
<1> SUFFICES ASSUME contexts'[s].running, NEW i \in DOMAIN events',
                    events'[i] = <<"succeeded", s>>
             PROVE  \E j \in DOMAIN events' : j > i /\ events'[j] = <<"started", s>>
  BY DEF QueueAt
<1>1. i + 1 \in DOMAIN events /\ events[i + 1] = <<"succeeded", s>> /\ i \in Nat /\ i >= 1
  BY EventsTail
<1>2. PICK j \in DOMAIN events : j > i + 1 /\ events[j] = <<"started", s>>
  BY <1>1 DEF QueueAt
<1>3. j \in Nat /\ j # 1 /\ j - 1 > i
  BY <1>1, <1>2
<1>4. j - 1 \in DOMAIN events' /\ events'[j - 1] = <<"started", s>>
  BY <1>2, <1>3, EventsTail
<1>5. QED
  BY <1>3, <1>4

LEMMA QueueStep ==
    ASSUME RenewalTypeOK, QueueInv, [RenewalNext]_renewalVars
    PROVE  QueueInv'
<1> SUFFICES ASSUME NEW u \in Sessions PROVE QueueAt(u)'
  BY DEF QueueInv
<1> USE DEF RenewalTypeOK
<1>0. events \in Seq(Events) /\ QueueAt(u) /\ contexts \in [Sessions -> Contexts]
      /\ clock \in Nat
  BY DEF QueueInv, WarmingTypes
<1>1. CASE UNCHANGED events /\ (contexts'[u].running = contexts[u].running)
  BY <1>0, <1>1 DEF QueueAt
<1>2. CASE \/ Tick \/ Stores \/ UNCHANGED renewalVars
           \/ \E s \in Sessions :
                \/ Resumes(s) \/ GoesOn(s) \/ Fills(s) \/ Compacts(s)
                \/ \E accepted \in BOOLEAN : Renewed(s, accepted)
           \/ \E plan \in plans : Schedules(plan) \/ PlanFails(plan)
           \/ \E n \in DOMAIN warmers :
                Interrupted(n) \/ \E ok \in BOOLEAN : Warmed(n, ok)
  <2>1. UNCHANGED <<events, contexts>>
    BY <1>2 DEF Tick, Stores, renewalVars, Resumes, GoesOn, Fills, Compacts, Renewed,
         Schedules, PlanFails, Interrupted, Warmed, timeVars
  <2> QED
    BY <1>1, <2>1
<1>3. ASSUME NEW n \in DOMAIN warmers, Warms(n)
      PROVE  QueueAt(u)'
  <2>1. PICK s : s = warmers[n].of
    OBVIOUS
  <2>2. UNCHANGED events
        /\ contexts' = [contexts EXCEPT ![s] = [contexts[s] EXCEPT !.read = clock]]
    BY <1>0, <1>3, <2>1 DEF Warms
  <2>3. contexts'[u].running = contexts[u].running
    BY <1>0, <2>2 DEF Contexts
  <2> QED
    BY <1>1, <2>2, <2>3
<1>4. ASSUME NEW s \in Sessions,
             \/ OwnSummary(s)
             \/ \E how \in {"filled", "unfilled", "fails"} : Summarized(s, how)
      PROVE  QueueAt(u)'
  <2>1. UNCHANGED events
    BY <1>4 DEF OwnSummary, Summarized
  <2>2. contexts'[u].running = contexts[u].running
    BY <1>0, <1>4, SummaryHow
  <2> QED
    BY <1>1, <2>1, <2>2
<1>5. CASE Reinstalls
  <2>1. events' = << >>
    BY <1>5 DEF Reinstalls
  <2>2. DOMAIN events' = {}
    BY <2>1
  <2> QED
    BY <2>2 DEF QueueAt
<1>6. ASSUME NEW s \in Sessions, HandlesStart(s) \/ HandlesEnd(s)
      PROVE  QueueAt(u)'
  <2>1. events # << >> /\ events' = Tail(events) /\ UNCHANGED contexts
    BY <1>6 DEF HandlesStart, HandlesEnd
  <2> QED
    BY <1>0, <2>1, QueueTail
<1>7. ASSUME NEW s \in Sessions, Executes(s)
      PROVE  QueueAt(u)'
  <2>1. PICK e : e = <<"started", s>>
    OBVIOUS
  <2>2. e \in Events /\ e # <<"succeeded", u>>
    BY <2>1 DEF Events
  <2>3. events' = Append(events, e)
    BY <1>7, <2>1 DEF Executes
  <2>4. /\ Len(events) \in Nat /\ DOMAIN events = 1 .. Len(events)
        /\ DOMAIN events' = 1 .. Len(events) + 1
        /\ events'[Len(events) + 1] = e
        /\ \A i \in DOMAIN events : events'[i] = events[i]
    BY <1>0, <2>2, <2>3, EventsAppend
  <2> SUFFICES ASSUME contexts'[u].running, NEW i \in DOMAIN events',
                      events'[i] = <<"succeeded", u>>
               PROVE  \E j \in DOMAIN events' : j > i /\ events'[j] = <<"started", u>>
    BY DEF QueueAt
  <2>5. i \in DOMAIN events
    <3>1. i # Len(events) + 1
      BY <2>2, <2>4
    <3>2. i \in 1 .. Len(events) + 1
      BY <2>4
    <3> QED
      BY <2>4, <3>1, <3>2
  <2>6. CASE u = s
    BY <2>1, <2>4, <2>5, <2>6
  <2>7. CASE u # s
    <3>1. contexts[u].running
      <4>1. WarmingTypes
        OBVIOUS
      <4>2. contexts'[u] = contexts[u]
        BY <1>7, <2>7, <4>1, ExecutesHow
      <4> QED
        BY <4>2
    <3>2. PICK j \in DOMAIN events : j > i /\ events[j] = <<"started", u>>
      BY <1>0, <2>4, <2>5, <3>1 DEF QueueAt
    <3> QED
      BY <2>4, <3>2
  <2> QED
    BY <2>6, <2>7
<1>8. ASSUME NEW s \in Sessions, NEW limit \in BOOLEAN, Ends(s, limit)
      PROVE  QueueAt(u)'
  <2>0. WarmingTypes
    OBVIOUS
  <2>1. CASE u = s
    <3>1. contexts'[u].running = FALSE
      BY <1>8, <2>0, <2>1, EndsHow
    <3> QED
      BY <3>1 DEF QueueAt
  <2>2. CASE u # s
    <3>1. contexts'[u] = contexts[u]
      BY <1>8, <2>0, <2>2, EndsHow
    <3>2. PICK e : e = <<"succeeded", s>>
      OBVIOUS
    <3>3. e \in Events /\ e # <<"succeeded", u>>
      BY <2>2, <3>2 DEF Events
    <3>4. events' = events \/ events' = Append(events, e)
      BY <1>8, <3>2 DEF Ends
    <3>5. CASE events' = Append(events, e)
      <4>1. /\ Len(events) \in Nat /\ DOMAIN events = 1 .. Len(events)
            /\ DOMAIN events' = 1 .. Len(events) + 1
            /\ events'[Len(events) + 1] = e
            /\ \A i \in DOMAIN events : events'[i] = events[i]
        BY <1>0, <3>3, <3>5, EventsAppend
      <4> SUFFICES ASSUME contexts'[u].running, NEW i \in DOMAIN events',
                          events'[i] = <<"succeeded", u>>
                   PROVE  \E j \in DOMAIN events' : j > i /\ events'[j] = <<"started", u>>
        BY DEF QueueAt
      <4>2. i \in DOMAIN events
        <5>1. i # Len(events) + 1
          BY <3>3, <4>1
        <5>2. i \in 1 .. Len(events) + 1
          BY <4>1
        <5> QED
          BY <4>1, <5>1, <5>2
      <4>3. PICK j \in DOMAIN events : j > i /\ events[j] = <<"started", u>>
        BY <1>0, <3>1, <4>1, <4>2 DEF QueueAt
      <4> QED
        BY <4>1, <4>3
    <3> QED
      BY <1>1, <3>1, <3>4, <3>5
  <2> QED
    BY <2>1, <2>2
<1>9. QED
  BY <1>2, <1>3, <1>4, <1>5, <1>6, <1>7, <1>8 DEF RenewalNext


-----------------------------------------------------------------------------
(* Warming reads no session that went on.                                    *)

\* A session is at rest after this turn.
RestsAfter(s, turn) == ~contexts[s].running /\ contexts[s].turns = turn

\* A plan of no execution since is for the last turn, unless a start is unheard.
PlanAt(plan) ==
    /\ plan.execution <= ExecutionsOf(plan.of)
    /\ NoneBegan(plan) => RestsAfter(plan.of, plan.turn) \/ Begins(plan.of)

PlanInv == ~memo.forgot => \A plan \in plans : PlanAt(plan)

\* A loop not stopped is its session's, and for the last turn, unless a start is
\* unheard, before its first request.
LoopAt(n) ==
    warmers[n].stage \in {"asleep", "sending"} =>
        /\ warmers[n].of \in DOMAIN loops /\ loops[warmers[n].of] = n
        /\ ~memo.forgot =>
             \/ RestsAfter(warmers[n].of, warmers[n].turn)
             \/ /\ Begins(warmers[n].of)
                /\ warmers[n].stage = "asleep" /\ warmers[n].at > clock

LoopInv == \A n \in DOMAIN warmers : LoopAt(n)

\* Of a session's context, its own requests change what it rests after.
RestSame(s) ==
    contexts'[s].running = contexts[s].running /\ contexts'[s].turns = contexts[s].turns

BeginsStay == \A s \in Sessions : Begins(s) => Begins(s)'

LEMMA PlanKept ==
    ASSUME WarmingTypes, NEW plan \in plans, ~memo.forgot, PlanInv,
           executions' = executions, Begins(plan.of) => Begins(plan.of)',
           RestSame(plan.of) \/ contexts[plan.of].running \/ Begins(plan.of)'
    PROVE  PlanAt(plan)'
<1>1. PlanAt(plan)
  BY DEF PlanInv
<1>2. ExecutionsOf(plan.of)' = ExecutionsOf(plan.of)
  BY DEF ExecutionsOf
<1>3. NoneBegan(plan)' <=> NoneBegan(plan)
  BY <1>2 DEF NoneBegan
<1>4. RestsAfter(plan.of, plan.turn) =>
        RestsAfter(plan.of, plan.turn)' \/ Begins(plan.of)'
  BY DEF RestsAfter, RestSame
<1>5. QED
  BY <1>1, <1>2, <1>3, <1>4 DEF PlanAt

LEMMA QuietRest ==
    ASSUME RenewalTypeOK,
           \/ Tick \/ Stores \/ UNCHANGED renewalVars
           \/ \E s \in Sessions :
                \/ Resumes(s) \/ GoesOn(s) \/ Fills(s) \/ Compacts(s) \/ OwnSummary(s)
                \/ \E accepted \in BOOLEAN : Renewed(s, accepted)
                \/ \E how \in {"filled", "unfilled", "fails"} : Summarized(s, how)
           \/ \E plan \in plans : Schedules(plan) \/ PlanFails(plan)
           \/ \E n \in DOMAIN warmers :
                Warms(n) \/ Interrupted(n) \/ \E ok \in BOOLEAN : Warmed(n, ok)
    PROVE  /\ UNCHANGED <<events, executions>> /\ plans' \subseteq plans
           /\ \A u \in Sessions : RestSame(u)
<1> USE DEF RenewalTypeOK
<1>1. /\ contexts \in [Sessions -> Contexts] /\ clock \in Nat
      /\ warmers \in Seq(Warmers)
  BY DEF WarmingTypes
<1>2. CASE \/ Tick \/ Stores \/ UNCHANGED renewalVars
           \/ \E s \in Sessions :
                \/ Resumes(s) \/ GoesOn(s) \/ Fills(s) \/ Compacts(s)
                \/ \E accepted \in BOOLEAN : Renewed(s, accepted)
           \/ \E plan \in plans : Schedules(plan) \/ PlanFails(plan)
           \/ \E n \in DOMAIN warmers :
                Interrupted(n) \/ \E ok \in BOOLEAN : Warmed(n, ok)
  <2>1. UNCHANGED <<events, executions, contexts>> /\ plans' \subseteq plans
    BY <1>2 DEF Tick, Stores, renewalVars, Resumes, GoesOn, Fills, Compacts, Renewed,
         Schedules, PlanFails, Interrupted, Warmed, timeVars, warmVars
  <2> QED
    BY <2>1 DEF RestSame
<1>3. ASSUME NEW n \in DOMAIN warmers, Warms(n)
      PROVE  /\ UNCHANGED <<events, executions>> /\ plans' \subseteq plans
             /\ \A u \in Sessions : RestSame(u)
  <2>1. PICK s : s = warmers[n].of
    OBVIOUS
  <2>2. UNCHANGED <<events, executions, plans>>
        /\ contexts' = [contexts EXCEPT ![s] = [contexts[s] EXCEPT !.read = clock]]
    BY <1>1, <1>3, <2>1 DEF Warms
  <2>3. \A u \in Sessions : RestSame(u)
    BY <1>1, <2>2 DEF Contexts, RestSame
  <2> QED
    BY <2>2, <2>3
<1>4. ASSUME NEW s \in Sessions,
             \/ OwnSummary(s)
             \/ \E how \in {"filled", "unfilled", "fails"} : Summarized(s, how)
      PROVE  /\ UNCHANGED <<events, executions>> /\ plans' \subseteq plans
             /\ \A u \in Sessions : RestSame(u)
  <2>1. UNCHANGED <<events, executions, plans>>
    BY <1>4 DEF OwnSummary, Summarized, warmVars
  <2>2. \A u \in Sessions : RestSame(u)
    BY <1>1, <1>4, SummaryHow DEF RestSame
  <2> QED
    BY <2>1, <2>2
<1>5. QED
  BY <1>2, <1>3, <1>4

LEMMA PlanStep ==
    ASSUME RenewalTypeOK, QueueInv, PlanInv, [RenewalNext]_renewalVars
    PROVE  PlanInv'
<1> SUFFICES ASSUME ~memo'.forgot, NEW plan \in plans' PROVE PlanAt(plan)'
  BY DEF PlanInv
<1> USE DEF RenewalTypeOK
<1>0. /\ events \in Seq(Events) /\ contexts \in [Sessions -> Contexts]
      /\ executions \in MapOf(Sessions, Nat) /\ plans \subseteq Plans
      /\ memo \in RenewalMemo /\ WarmingTypes
  BY DEF WarmingTypes, PendingTypes
<1>1. Reinstalls \/ ~memo.forgot
  BY MemoStep DEF Fails, PendingTypes, RenewalMemo
<1>2. CASE Reinstalls
  <2>1. plans' = {}
    BY <1>2 DEF Reinstalls
  <2> QED
    BY <2>1
<1>3. ASSUME ~memo.forgot, plan \in plans, executions' = executions,
             events' = events, RestSame(plan.of)
      PROVE  PlanAt(plan)'
  <2>1. Begins(plan.of) => Begins(plan.of)'
    BY <1>3 DEF Begins
  <2> QED
    BY <1>0, <1>3, <2>1, PlanKept
<1>4. CASE \/ Tick \/ Stores \/ UNCHANGED renewalVars
           \/ \E s \in Sessions :
                \/ Resumes(s) \/ GoesOn(s) \/ Fills(s) \/ Compacts(s) \/ OwnSummary(s)
                \/ \E accepted \in BOOLEAN : Renewed(s, accepted)
                \/ \E how \in {"filled", "unfilled", "fails"} : Summarized(s, how)
           \/ \E plan_1 \in plans : Schedules(plan_1) \/ PlanFails(plan_1)
           \/ \E n \in DOMAIN warmers :
                Warms(n) \/ Interrupted(n) \/ \E ok \in BOOLEAN : Warmed(n, ok)
  <2>1. /\ UNCHANGED <<events, executions>> /\ plans' \subseteq plans
        /\ \A u \in Sessions : RestSame(u)
    BY <1>4, QuietRest
  <2>2. plan.of \in Sessions
    BY <1>0, <2>1 DEF Plans
  <2>3. ~memo.forgot \/ PlanAt(plan)'
    BY <1>1, <1>2
  <2> QED
    BY <1>3, <2>1, <2>2, <2>3
<1>5. ASSUME NEW s \in Sessions, Executes(s), ~memo.forgot
      PROVE  PlanAt(plan)'
  <2>1. UNCHANGED <<executions, plans>>
    BY <1>5 DEF Executes
  <2>2. PICK e : e = <<"started", s>>
    OBVIOUS
  <2>3. e \in Events /\ events' = Append(events, e)
    BY <1>5, <2>2 DEF Executes, Events
  <2>4. plan.of \in Sessions
    BY <1>0, <2>1 DEF Plans
  <2>5. Begins(plan.of) \/ plan.of = s => Begins(plan.of)'
    BY <1>0, <2>2, <2>3, <2>4, BeginsAppend
  <2>6. plan.of # s => RestSame(plan.of)
    BY <1>0, <1>5, <2>4, ExecutesHow DEF RestSame
  <2> QED
    BY <1>0, <1>5, <2>1, <2>5, <2>6, PlanKept
<1>6. ASSUME NEW s \in Sessions, NEW limit \in BOOLEAN, Ends(s, limit), ~memo.forgot
      PROVE  PlanAt(plan)'
  <2>1. UNCHANGED <<executions, plans>>
    BY <1>6 DEF Ends, warmVars
  <2>2. PICK e : e = <<"succeeded", s>>
    OBVIOUS
  <2>3. e \in Events /\ (events' = events \/ events' = Append(events, e))
    BY <1>6, <2>2 DEF Ends, Events
  <2>4. plan.of \in Sessions
    BY <1>0, <2>1 DEF Plans
  <2>5. Begins(plan.of) => Begins(plan.of)'
    <3>1. CASE events' = events
      BY <3>1 DEF Begins
    <3>2. CASE events' = Append(events, e)
      BY <1>0, <2>3, <2>4, <3>2, BeginsAppend
    <3> QED
      BY <2>3, <3>1, <3>2
  <2>6. RestSame(plan.of) \/ contexts[plan.of].running
    BY <1>0, <1>6, <2>4, EndsHow DEF RestSame
  <2> QED
    BY <1>0, <1>6, <2>1, <2>5, <2>6, PlanKept
<1>7. ASSUME NEW s \in Sessions, HandlesEnd(s), ~memo.forgot
      PROVE  PlanAt(plan)'
  <2>1. /\ UNCHANGED <<executions, contexts>>
        /\ events # << >> /\ events' = Tail(events) /\ Head(events) = <<"succeeded", s>>
        /\ plans' = plans \cup {[of |-> s, execution |-> ExecutionsOf(s),
                                 turn |-> contexts[s].turns]}
    BY <1>7 DEF HandlesEnd
  <2>2. ASSUME plan \in plans PROVE PlanAt(plan)'
    <3>1. plan.of \in Sessions
      BY <1>0, <2>2 DEF Plans
    <3>2. Head(events) # <<"started", plan.of>>
      BY <2>1
    <3>3. Begins(plan.of) => Begins(plan.of)'
      BY <1>0, <2>1, <3>1, <3>2, BeginsTail
    <3>4. RestSame(plan.of)
      BY <2>1 DEF RestSame
    <3> QED
      BY <1>0, <1>7, <2>1, <2>2, <3>3, <3>4, PlanKept
  <2>3. ASSUME plan = [of |-> s, execution |-> ExecutionsOf(s),
                       turn |-> contexts[s].turns]
        PROVE  PlanAt(plan)'
    <3>1. /\ plan.of = s /\ plan.execution = ExecutionsOf(s)
          /\ plan.turn = contexts[s].turns
      BY <2>3
    <3>2. ExecutionsOf(s)' = ExecutionsOf(s) /\ ExecutionsOf(s) \in Nat
      BY <1>0, <2>1, MapValue DEF ExecutionsOf
    <3>3. RestsAfter(s, contexts[s].turns)' \/ Begins(s)'
      <4>1. CASE contexts[s].running
        <5>1. 1 \in DOMAIN events /\ events[1] = <<"succeeded", s>>
          BY <1>0, <2>1, EventsTail
        <5>2. PICK j \in DOMAIN events : j > 1 /\ events[j] = <<"started", s>>
          BY <4>1, <5>1 DEF QueueInv, QueueAt
        <5>3. Begins(s) /\ Head(events) # <<"started", s>>
          BY <2>1, <5>2 DEF Begins
        <5> QED
          BY <1>0, <2>1, <5>3, BeginsTail
      <4>2. CASE ~contexts[s].running
        BY <2>1, <4>2 DEF RestsAfter
      <4> QED
        BY <4>1, <4>2
    <3>4. RestsAfter(plan.of, plan.turn)' \/ Begins(plan.of)'
      BY <2>1, <3>1, <3>3 DEF RestsAfter, Begins
    <3>5. plan.execution <= ExecutionsOf(plan.of)'
      BY <2>1, <3>1, <3>2 DEF ExecutionsOf
    <3> QED
      BY <3>4, <3>5 DEF PlanAt
  <2> QED
    BY <2>1, <2>2, <2>3
<1>8. ASSUME NEW s \in Sessions, HandlesStart(s), ~memo.forgot
      PROVE  PlanAt(plan)'
  <2>1. /\ UNCHANGED <<plans, contexts>>
        /\ events # << >> /\ events' = Tail(events) /\ Head(events) = <<"started", s>>
    BY <1>8 DEF HandlesStart
  <2>2. PICK room : room = Room(executions, s)
    OBVIOUS
  <2>3. room = executions
    <3>1. PICK lost \in BOOLEAN : lost <=> room # executions
      OBVIOUS
    <3>2. memo' = [memo EXCEPT !.forgot = memo.forgot \/ lost]
      BY <1>0, <1>8, <2>2, <3>1 DEF HandlesStart, RenewalMemo
    <3>3. memo'.forgot = (memo.forgot \/ lost)
      BY <1>0, <3>2 DEF RenewalMemo
    <3> QED
      BY <3>1, <3>3
  <2>4. PICK count : count = IF s \in DOMAIN room THEN room[s] + 1 ELSE 1
    OBVIOUS
  <2>5. executions' = Set(room, s, count)
    BY <1>8, <2>2, <2>4 DEF HandlesStart
  <2>6. PICK before : before = ExecutionsOf(s)
    OBVIOUS
  <2>7. before \in Nat /\ count = before + 1
    <3>1. s \in DOMAIN executions => executions[s] \in Nat
      BY <1>0, MapValue
    <3> QED
      BY <2>3, <2>4, <2>6, <3>1 DEF ExecutionsOf
  <2>8. ExecutionsOf(s)' = count
    BY <2>5 DEF Set, ExecutionsOf
  <2>9. \A u \in Sessions \ {s} : ExecutionsOf(u)' = ExecutionsOf(u)
    BY <2>3, <2>5 DEF Set, ExecutionsOf
  <2>10. plan \in Plans /\ PlanAt(plan)
    BY <1>0, <1>8, <2>1 DEF PlanInv
  <2>11. plan.of \in Sessions /\ plan.execution \in Nat
    BY <2>10 DEF Plans
  <2>12. CASE plan.of = s
    <3>1. plan.execution <= before
      BY <2>6, <2>10, <2>12 DEF PlanAt
    <3>2. ExecutionsOf(plan.of)' = count
      BY <2>8, <2>12 DEF ExecutionsOf
    <3> QED
      BY <2>7, <2>11, <3>1, <3>2 DEF PlanAt, NoneBegan
  <2>13. CASE plan.of # s
    <3>1. ExecutionsOf(plan.of)' = ExecutionsOf(plan.of)
      BY <2>9, <2>11, <2>13
    <3>2. Begins(plan.of) => Begins(plan.of)'
      BY <1>0, <2>1, <2>11, <2>13, BeginsTail
    <3>3. RestsAfter(plan.of, plan.turn)' <=> RestsAfter(plan.of, plan.turn)
      BY <2>1 DEF RestsAfter
    <3> QED
      BY <2>10, <3>1, <3>2, <3>3 DEF PlanAt, NoneBegan
  <2> QED
    BY <2>12, <2>13
<1>9. QED
  BY <1>1, <1>2, <1>4, <1>5, <1>6, <1>7, <1>8 DEF RenewalNext


\* A loop that stays as it is.
LEMMA LoopKept ==
    ASSUME NEW n \in DOMAIN warmers, LoopInv, warmers'[n] = warmers[n],
           warmers[n].of \in DOMAIN loops /\ loops[warmers[n].of] = n =>
             warmers[n].of \in DOMAIN loops' /\ loops'[warmers[n].of] = n,
           memo.forgot => memo'.forgot, clock' = clock,
           Begins(warmers[n].of) => Begins(warmers[n].of)',
           RestSame(warmers[n].of) \/ contexts[warmers[n].of].running
    PROVE  LoopAt(n)'
<1>1. LoopAt(n)
  BY DEF LoopInv
<1>2. PICK w : w = warmers[n]
  OBVIOUS
<1>3. warmers'[n] = w
  BY <1>2
<1>4. RestsAfter(w.of, w.turn) => RestsAfter(w.of, w.turn)'
  BY <1>2 DEF RestsAfter, RestSame
<1>5. Begins(w.of) => Begins(w.of)'
  BY <1>2
<1>6. QED
  BY <1>1, <1>2, <1>3, <1>4, <1>5 DEF LoopAt

\* What a session's own request leaves going are the loops of others.
LEMMA StopsLoops ==
    ASSUME WarmingTypes, LoopInv, NEW s, Stops(s), NEW n \in DOMAIN warmers',
           warmers'[n].stage \in {"asleep", "sending"}
    PROVE  /\ n \in DOMAIN warmers /\ warmers'[n] = warmers[n] /\ warmers[n].of # s
           /\ warmers[n].of \in DOMAIN loops' /\ loops'[warmers[n].of] = n
<1>1. /\ warmers' = Stopped(s, warmers) /\ loops' = Without(loops, s)
      /\ warmers \in Seq(Warmers)
  BY DEF Stops, WarmingTypes
<1>2. n \in DOMAIN warmers
  BY <1>1, StoppedWarmers
<1>3. warmers[n] \in Warmers
  BY <1>1, <1>2
<1>4. [warmers[n] EXCEPT !.stage = "stopping"].stage = "stopping"
  BY <1>3 DEF Warmers
<1>5. warmers'[n] = warmers[n]
  BY <1>1, <1>2, <1>4, StoppedWarmers
<1>6. warmers[n].of \in DOMAIN loops /\ loops[warmers[n].of] = n
  BY <1>2, <1>5 DEF LoopInv, LoopAt
<1>7. warmers[n].of # s
  BY <1>1, <1>2, <1>6, StoppedWarmers
<1>8. QED
  BY <1>1, <1>2, <1>5, <1>6, <1>7 DEF Without

LEMMA StopsKeeps ==
    ASSUME WarmingTypes, LoopInv, NEW s, Stops(s), clock' = clock,
           memo.forgot => memo'.forgot,
           \A u \in Sessions \ {s} :
             (Begins(u) => Begins(u)') /\ RestSame(u)
    PROVE  LoopInv'
<1> SUFFICES ASSUME NEW n \in DOMAIN warmers', warmers'[n].stage \in {"asleep", "sending"}
             PROVE  LoopAt(n)'
  BY DEF LoopInv, LoopAt
<1>1. /\ n \in DOMAIN warmers /\ warmers'[n] = warmers[n] /\ warmers[n].of # s
      /\ warmers[n].of \in DOMAIN loops' /\ loops'[warmers[n].of] = n
  BY StopsLoops
<1>2. warmers[n].of \in Sessions
  <2>1. warmers[n] \in Warmers
    BY <1>1 DEF WarmingTypes
  <2> QED
    BY <2>1 DEF Warmers
<1>3. QED
  BY <1>1, <1>2, LoopKept

LEMMA LoopStep ==
    ASSUME RenewalAssumption, RenewalTypeOK, PlanInv, LoopInv, [RenewalNext]_renewalVars
    PROVE  LoopInv'
<1> USE DEF RenewalTypeOK
<1>0. /\ events \in Seq(Events) /\ contexts \in [Sessions -> Contexts]
      /\ warmers \in Seq(Warmers) /\ memo \in RenewalMemo /\ WarmingTypes
      /\ plans \subseteq Plans /\ clock \in Nat
      /\ \A n \in DOMAIN warmers : warmers[n] \in Warmers
  BY DEF WarmingTypes, PendingTypes
<1>1. CASE Reinstalls
  <2>1. warmers' = << >>
    BY <1>1 DEF Reinstalls
  <2>2. DOMAIN warmers' = {}
    BY <2>1
  <2> QED
    BY <2>2 DEF LoopInv
<1>2. Reinstalls \/ (memo.forgot => memo'.forgot)
  BY MemoStep DEF Fails, PendingTypes, RenewalMemo
<1>3. ASSUME ~Reinstalls, UNCHANGED <<warmers, loops, clock, events>>,
             \A u \in Sessions : RestSame(u)
      PROVE  LoopInv'
  <2> SUFFICES ASSUME NEW n \in DOMAIN warmers PROVE LoopAt(n)'
    BY <1>3 DEF LoopInv
  <2>1. warmers[n].of \in Sessions
    BY <1>0 DEF Warmers
  <2>2. Begins(warmers[n].of) => Begins(warmers[n].of)'
    BY <1>3 DEF Begins
  <2> QED
    BY <1>2, <1>3, <2>1, <2>2, LoopKept
<1>4. CASE \/ Stores \/ UNCHANGED renewalVars
           \/ \E s \in Sessions :
                \/ Resumes(s) \/ GoesOn(s) \/ Fills(s) \/ Compacts(s) \/ OwnSummary(s)
                \/ \E accepted \in BOOLEAN : Renewed(s, accepted)
                \/ \E how \in {"filled", "unfilled", "fails"} : Summarized(s, how)
           \/ \E plan \in plans : PlanFails(plan)
  <2>1. UNCHANGED <<warmers, loops, clock, events>>
    BY <1>4 DEF Stores, renewalVars, Resumes, GoesOn, Fills, Compacts, OwnSummary,
         Renewed, Summarized, PlanFails, timeVars, warmVars
  <2>2. \A u \in Sessions : RestSame(u)
    BY <1>4, QuietRest
  <2> QED
    BY <1>1, <1>3, <2>1, <2>2
\* Nothing is unheard when time passes.
<1>5. CASE Tick
  <2>1. UNCHANGED <<warmers, loops, contexts, events, memo>> /\ events = << >>
    BY <1>5 DEF Tick, warmVars, timeVars
  <2> SUFFICES ASSUME NEW n \in DOMAIN warmers PROVE LoopAt(n)'
    BY <2>1 DEF LoopInv
  <2>2. LoopAt(n)
    BY DEF LoopInv
  <2>3. ~Begins(warmers[n].of)
    <3>1. DOMAIN events = {}
      BY <2>1
    <3> QED
      BY <3>1 DEF Begins
  <2> QED
    BY <2>1, <2>2, <2>3 DEF LoopAt, RestsAfter
<1>6. ASSUME NEW s \in Sessions, Executes(s) \/ HandlesStart(s)
      PROVE  LoopInv'
  <2>1. Stops(s) /\ clock' = clock
    BY <1>6 DEF Executes, HandlesStart
  <2>2. \A u \in Sessions \ {s} : RestSame(u)
    <3>1. HandlesStart(s) => contexts' = contexts
      BY DEF HandlesStart
    <3> QED
      BY <1>0, <1>6, <3>1, ExecutesHow DEF RestSame
  <2>3. \A u \in Sessions \ {s} : Begins(u) => Begins(u)'
    <3> SUFFICES ASSUME NEW u \in Sessions \ {s}, Begins(u) PROVE Begins(u)'
      OBVIOUS
    <3>1. CASE Executes(s)
      <4>1. PICK e : e = <<"started", s>>
        OBVIOUS
      <4>2. e \in Events /\ events' = Append(events, e)
        BY <3>1, <4>1 DEF Executes, Events
      <4> QED
        BY <1>0, <4>2, BeginsAppend
    <3>2. CASE HandlesStart(s)
      <4>1. /\ events # << >> /\ events' = Tail(events)
            /\ Head(events) = <<"started", s>>
        BY <3>2 DEF HandlesStart
      <4> QED
        BY <1>0, <4>1, BeginsTail
    <3> QED
      BY <1>6, <3>1, <3>2
  <2>4. memo.forgot => memo'.forgot
    <3>1. Executes(s) => memo' = memo
      BY DEF Executes
    <3>2. HandlesStart(s) => memo'.forgot = (memo.forgot \/ Room(executions, s) # executions)
      BY <1>0 DEF HandlesStart, RenewalMemo
    <3> QED
      BY <1>6, <3>1, <3>2
  <2> QED
    BY <1>0, <2>1, <2>2, <2>3, <2>4, StopsKeeps
<1>7. ASSUME NEW s \in Sessions,
             HandlesEnd(s) \/ \E limit \in BOOLEAN : Ends(s, limit)
      PROVE  LoopInv'
  <2>1. UNCHANGED <<warmers, loops, clock>>
    BY <1>7 DEF HandlesEnd, Ends, warmVars
  <2>2. memo.forgot => memo'.forgot
    <3>1. HandlesEnd(s) => memo' = memo
      BY DEF HandlesEnd
    <3>2. ASSUME NEW limit \in BOOLEAN, Ends(s, limit) PROVE memo'.forgot = memo.forgot
      BY <1>0, <3>2 DEF Ends, RenewalMemo
    <3> QED
      BY <1>7, <3>1, <3>2
  <2>3. \A u \in Sessions : RestSame(u) \/ contexts[u].running
    <3>1. HandlesEnd(s) => contexts' = contexts
      BY DEF HandlesEnd
    <3> QED
      BY <1>0, <1>7, <3>1, EndsHow DEF RestSame
  <2>4. \A u \in Sessions : Begins(u) => Begins(u)'
    <3> SUFFICES ASSUME NEW u \in Sessions, Begins(u) PROVE Begins(u)'
      OBVIOUS
    <3>1. CASE HandlesEnd(s)
      <4>1. /\ events # << >> /\ events' = Tail(events)
            /\ Head(events) = <<"succeeded", s>>
        BY <3>1 DEF HandlesEnd
      <4>2. Head(events) # <<"started", u>>
        BY <4>1
      <4> QED
        BY <1>0, <4>1, <4>2, BeginsTail
    <3>2. ASSUME NEW limit \in BOOLEAN, Ends(s, limit) PROVE Begins(u)'
      <4>1. PICK e : e = <<"succeeded", s>>
        OBVIOUS
      <4>2. e \in Events /\ (events' = events \/ events' = Append(events, e))
        BY <3>2, <4>1 DEF Ends, Events
      <4>3. CASE events' = events
        BY <4>3 DEF Begins
      <4>4. CASE events' = Append(events, e)
        BY <1>0, <4>2, <4>4, BeginsAppend
      <4> QED
        BY <4>2, <4>3, <4>4
    <3> QED
      BY <1>7, <3>1, <3>2
  <2> SUFFICES ASSUME NEW n \in DOMAIN warmers PROVE LoopAt(n)'
    BY <2>1 DEF LoopInv
  <2>5. warmers[n].of \in Sessions
    BY <1>0 DEF Warmers
  <2> QED
    BY <2>1, <2>2, <2>3, <2>4, <2>5, LoopKept
<1>8. ASSUME NEW n \in DOMAIN warmers,
             \/ Warms(n) \/ Interrupted(n) \/ \E ok \in BOOLEAN : Warmed(n, ok)
      PROVE  LoopInv'
  <2>1. UNCHANGED <<loops, clock, events>>
    BY <1>8 DEF Warms, Interrupted, Warmed, timeVars
  <2>2. memo'.forgot = memo.forgot
    BY <1>0, <1>8 DEF Warms, Interrupted, Warmed, RenewalMemo
  <2>3. \A u \in Sessions : RestSame(u)
    BY <1>8, QuietRest
  <2> SUFFICES ASSUME NEW m \in DOMAIN warmers PROVE LoopAt(m)'
    BY <1>8, WarmerMoves DEF LoopInv
  <2>4. LoopAt(m) /\ warmers[m].of \in Sessions
    BY <1>0 DEF LoopInv, Warmers
  <2>5. PICK u, k : u = warmers[m].of /\ k = warmers[m].turn
    OBVIOUS
  <2>6. /\ Begins(u) => Begins(u)'
        /\ RestsAfter(u, k) => RestsAfter(u, k)'
    BY <2>1, <2>3, <2>4, <2>5 DEF Begins, RestsAfter, RestSame
  <2>7. CASE m # n
    <3>1. warmers'[m] = warmers[m]
      BY <1>8, <2>7, WarmerMoves
    <3>2. Begins(warmers[m].of) => Begins(warmers[m].of)'
      BY <2>5, <2>6, <3>1
    <3> QED
      BY <2>1, <2>2, <2>3, <2>4, <3>1, <3>2, LoopKept
  <2>8. CASE m = n
    <3>1. /\ warmers'[n].of = u /\ warmers'[n].turn = k
          /\ warmers[n].of = u /\ warmers[n].turn = k
      BY <1>8, <2>5, <2>8, WarmerMoves
    <3>2. CASE Interrupted(n)
      <4>1. warmers'[n].stage = "over"
        BY <3>2, WarmerMoves
      <4> QED
        BY <2>8, <4>1 DEF LoopAt
\* A loop that moves was going, of a session at rest.
    <3>3. ASSUME warmers'[n].stage \in {"asleep", "sending"} =>
                   /\ warmers[n].stage \in {"asleep", "sending"}
                   /\ ~memo.forgot => RestsAfter(u, k)
          PROVE  LoopAt(n)'
      BY <2>1, <2>2, <2>4, <2>6, <2>8, <3>1, <3>3 DEF LoopAt
    <3>4. CASE Warms(n)
      <4>1. /\ warmers[n].stage \in {"asleep", "stopping"} /\ warmers[n].at <= clock
            /\ warmers'[n].stage \in {"asleep", "sending"} => warmers[n].stage = "asleep"
        BY <3>4, WarmerMoves DEF Warms
      <4>2. warmers[n].at \in Int
        BY <1>0 DEF Warmers
      <4>3. warmers[n].stage = "asleep" /\ ~memo.forgot => RestsAfter(u, k)
        BY <1>0, <2>4, <2>8, <3>1, <4>1, <4>2, SMTT(20) DEF LoopAt
      <4> QED
        BY <2>8, <3>3, <4>1, <4>3
    <3>5. ASSUME NEW ok \in BOOLEAN, Warmed(n, ok) PROVE LoopAt(n)'
      <4>1. warmers[n].stage = "sending"
        BY <3>5 DEF Warmed
      <4>2. ~memo.forgot => RestsAfter(u, k)
        BY <2>4, <2>8, <3>1, <4>1 DEF LoopAt
      <4> QED
        BY <3>3, <4>1, <4>2
    <3> QED
      BY <1>8, <2>8, <3>2, <3>4, <3>5
  <2> QED
    BY <2>7, <2>8
<1>9. ASSUME NEW plan \in plans, Schedules(plan)
      PROVE  LoopInv'
  <2>1. UNCHANGED <<clock, contexts, events, executions, memo>>
    BY <1>9 DEF Schedules, timeVars
  <2>2. \A u \in Sessions : RestSame(u) /\ (Begins(u) => Begins(u)')
    BY <2>1 DEF RestSame, Begins
  <2>3. CASE Stops(plan.of)
    BY <1>0, <2>1, <2>2, <2>3, StopsKeeps
  <2>4. CASE ~Stops(plan.of)
    <3>0. PICK new : new = Len(warmers) + 1
      OBVIOUS
    <3>1. /\ NoneBegan(plan) /\ Lifetime > LeadSeconds
          /\ DOMAIN warmers' = DOMAIN warmers \cup {new}
          /\ warmers'[new] = NewWarmer(plan)
          /\ plan.of \in DOMAIN loops' /\ loops'[plan.of] = new
      BY <1>0, <1>9, <2>4, <3>0, SchedulesHow
    <3>2. \A n \in DOMAIN warmers :
            \/ warmers'[n] = warmers[n]
            \/ warmers'[n] = [warmers[n] EXCEPT !.stage = "stopping"]
      BY <1>0, <1>9, <2>4, SchedulesHow
    <3>3. \A n \in DOMAIN warmers, s \in DOMAIN loops :
            loops[s] = n /\ warmers'[n].stage \in {"asleep", "sending"} =>
              s \in DOMAIN loops' /\ loops'[s] = n
      BY <1>0, <1>9, <2>4, SchedulesHow
    <3>4. LoopAt(new)'
      <4>1. PICK w : w = NewWarmer(plan)
        OBVIOUS
      <4>2. /\ w.of = plan.of /\ w.turn = plan.turn /\ w.stage = "asleep"
            /\ w.at = clock + Lifetime - LeadSeconds
        BY <4>1 DEF NewWarmer
      <4>3. w.at > clock
        BY <1>0, <3>1, <4>2 DEF RenewalAssumption
      <4>4. ~memo.forgot => RestsAfter(plan.of, plan.turn) \/ Begins(plan.of)
        BY <3>1 DEF PlanInv, PlanAt
      <4>5. ~memo'.forgot => RestsAfter(plan.of, plan.turn)' \/ Begins(plan.of)'
        BY <2>1, <4>4 DEF RestsAfter, Begins
      <4>6. warmers'[new] = w /\ clock' = clock
        BY <2>1, <3>1, <4>1
      <4> QED
        BY <3>1, <4>2, <4>3, <4>5, <4>6 DEF LoopAt
    <3>5. ASSUME NEW n \in DOMAIN warmers PROVE LoopAt(n)'
      <4>1. [warmers[n] EXCEPT !.stage = "stopping"].stage = "stopping"
            /\ warmers[n].of \in Sessions
        BY <1>0 DEF Warmers
      <4>2. CASE warmers'[n].stage \in {"asleep", "sending"}
        <5>1. warmers'[n] = warmers[n]
          BY <3>2, <4>1, <4>2
        <5>2. warmers[n].of \in DOMAIN loops /\ loops[warmers[n].of] = n =>
                warmers[n].of \in DOMAIN loops' /\ loops'[warmers[n].of] = n
          BY <3>3, <4>2
        <5> QED
          BY <2>1, <2>2, <4>1, <5>1, <5>2, LoopKept
      <4>3. CASE warmers'[n].stage \notin {"asleep", "sending"}
        BY <4>3 DEF LoopAt
      <4> QED
        BY <4>2, <4>3
    <3> QED
      BY <3>1, <3>4, <3>5 DEF LoopInv
  <2> QED
    BY <2>3, <2>4
<1>10. QED
  BY <1>1, <1>4, <1>5, <1>6, <1>7, <1>8, <1>9 DEF RenewalNext


-----------------------------------------------------------------------------
(* The invariant, and what a step may do.                                    *)

RenewalInv ==
    /\ RenewalTypeOK
    /\ FailedInv /\ ReadInv /\ ResumeInv
    /\ QueueInv /\ PlanInv /\ LoopInv

LEMMA RenewalInitInv == RenewalInit => RenewalInv
<1> SUFFICES ASSUME RenewalInit PROVE RenewalInv
  OBVIOUS
<1>1. RenewalTypeOK
  BY RenewalInitTypes
<1>2. FailedInv /\ PlanInv
  BY MapEmpty DEF RenewalInit, FailedInv, PlanInv
<1>3. ReadInv
  BY DEF RenewalInit, ReadInv, ReadAt
<1>4. ResumeInv
  BY DEF RenewalInit, ResumeInv, ResumeSays, NoneYet
<1>5. QueueInv /\ LoopInv
  BY DEF RenewalInit, QueueInv, QueueAt, LoopInv
<1>6. QED
  BY <1>1, <1>2, <1>3, <1>4, <1>5 DEF RenewalInv

LEMMA RenewalStepInv ==
    ASSUME RenewalAssumption, RenewalInv, [RenewalNext]_renewalVars
    PROVE  RenewalInv'
<1>1. /\ RenewalTypeOK /\ FailedInv /\ ReadInv /\ ResumeInv
      /\ QueueInv /\ PlanInv /\ LoopInv
  BY DEF RenewalInv
<1>2. WarmingTypes'
  BY <1>1, WarmingStep DEF RenewalTypeOK
<1>3. memo' \in RenewalMemo /\ passed_over' \in MapOf(Providers, Nat) /\ FailedInv'
  BY <1>1, FailedStep
<1>4. CompactionTypes'
  BY <1>1, CompactionStep
<1>5. resumes' \in [Sessions -> {NoneYet} \cup JudgedFacts] /\ ResumeInv'
  BY <1>1, ResumeStep
<1>6. pending' \in MapOf(Sessions, Noted) /\ stored' \in MapOf(Providers, Nat)
  BY <1>1, PendingStep
<1>7. PendingTypes'
  BY <1>3, <1>4, <1>5, <1>6 DEF PendingTypes
<1>8. ReadInv'
  BY <1>1, ReadStep
<1>9. QueueInv'
  BY <1>1, QueueStep
<1>10. PlanInv'
  BY <1>1, PlanStep
<1>11. LoopInv'
  BY <1>1, LoopStep
<1>12. RenewalTypeOK'
  BY <1>2, <1>7 DEF RenewalTypeOK
<1>13. QED
  BY <1>3, <1>5, <1>8, <1>9, <1>10, <1>11, <1>12 DEF RenewalInv

\* Only a request takes one from those left.
LEMMA LeftTaken ==
    ASSUME RenewalAssumption, RenewalTypeOK, [RenewalNext]_renewalVars,
           NEW n \in DOMAIN warmers, n \in DOMAIN warmers',
           warmers'[n].left < warmers[n].left
    PROVE  Warms(n)
<1> USE DEF RenewalTypeOK
<1>0. /\ warmers \in Seq(Warmers) /\ warmers[n] \in Warmers /\ WarmingTypes
  BY DEF WarmingTypes
<1>1. warmers[n].left \in Int
  BY <1>0 DEF Warmers
<1>2. warmers'[n].left # warmers[n].left
  BY <1>1
<1>3. [warmers[n] EXCEPT !.stage = "stopping"].left = warmers[n].left
  BY <1>0 DEF Warmers
<1>4. ~UNCHANGED warmers
  BY <1>2
<1>5. ASSUME NEW s, Stops(s)
      PROVE  FALSE
  <2>1. warmers' = Stopped(s, warmers)
    BY <1>5 DEF Stops
  <2>2. \/ warmers'[n] = warmers[n]
        \/ warmers'[n] = [warmers[n] EXCEPT !.stage = "stopping"]
    BY <1>0, <2>1, StoppedWarmers
  <2> QED
    BY <1>2, <1>3, <2>2
<1>6. ASSUME NEW plan \in plans, Schedules(plan)
      PROVE  FALSE
  <2>1. \/ warmers'[n] = warmers[n]
        \/ warmers'[n] = [warmers[n] EXCEPT !.stage = "stopping"]
    BY <1>0, <1>5, <1>6, SchedulesHow
  <2> QED
    BY <1>2, <1>3, <2>1
<1>7. CASE \/ Stores \/ UNCHANGED renewalVars
           \/ \E s \in Sessions :
                \/ Resumes(s) \/ GoesOn(s) \/ Fills(s) \/ Compacts(s)
                \/ \E accepted \in BOOLEAN : Renewed(s, accepted)
  BY <1>4, <1>7, QuietSteps DEF WarmingSame
<1>8. CASE \/ Tick \/ \E plan \in plans : PlanFails(plan)
           \/ \E s \in Sessions :
                \/ HandlesEnd(s) \/ OwnSummary(s)
                \/ \E limit \in BOOLEAN : Ends(s, limit)
                \/ \E how \in {"filled", "unfilled", "fails"} : Summarized(s, how)
  BY <1>4, <1>8 DEF Tick, PlanFails, HandlesEnd, OwnSummary, Ends, Summarized, warmVars
<1>9. CASE \E s \in Sessions : Executes(s) \/ HandlesStart(s)
  BY <1>5, <1>9 DEF Executes, HandlesStart
<1>10. ASSUME NEW m \in DOMAIN warmers,
              \/ Warms(m) \/ Interrupted(m) \/ \E ok \in BOOLEAN : Warmed(m, ok)
       PROVE  Warms(n)
  BY <1>0, <1>2, <1>10, WarmerMoves
<1>11. CASE Reinstalls
  <2>1. warmers' = << >>
    BY <1>11 DEF Reinstalls
  <2> QED
    BY <2>1
<1>12. QED
  BY <1>6, <1>7, <1>8, <1>9, <1>10, <1>11 DEF RenewalNext

\* Only a renewal the host accepted notes a summarizer.
LEMMA NotedBy ==
    ASSUME RenewalTypeOK, [RenewalNext]_renewalVars,
           NEW s \in Sessions, s \in DOMAIN pending',
           s \in DOMAIN pending => pending'[s] # pending[s]
    PROVE  /\ resumes[s].stage = "judging" /\ resumes[s].idle >= Lifetime
           /\ pending'[s].provider \in Summarizers(s, resumes[s].usable)
<1>0. ~UNCHANGED pending
  OBVIOUS
<1>1. ASSUME NEW u \in Sessions, NEW accepted \in BOOLEAN, Renewed(u, accepted)
      PROVE  /\ resumes[s].stage = "judging" /\ resumes[s].idle >= Lifetime
             /\ pending'[s].provider \in Summarizers(s, resumes[s].usable)
  <2>1. resumes[u].stage = "judging" /\ resumes[u].idle >= Lifetime
    BY <1>1 DEF Renewed, Renews
  <2>2. PICK p \in IF Own \in Fast \cup Free THEN {} ELSE Summarizers(u, resumes[u].usable) :
          pending' = IF accepted
                     THEN Set(Room(pending, u), u, [provider |-> p, at |-> clock])
                     ELSE Without(Set(Room(pending, u), u, [provider |-> p, at |-> clock]), u)
    BY <1>1 DEF Renewed
  <2>3. PICK asked : asked = [provider |-> p, at |-> clock]
    OBVIOUS
  <2>4. PICK room : room = Room(pending, u)
    OBVIOUS
  <2>5. room = pending \/ DOMAIN room = {}
    BY <2>4, MapRoom DEF RenewalTypeOK, PendingTypes
  <2>6. pending' = IF accepted THEN Set(room, u, asked)
                   ELSE Without(Set(room, u, asked), u)
    BY <2>2, <2>3, <2>4
  <2>7. s = u /\ accepted
    BY <2>5, <2>6 DEF Set, Without
  <2>8. pending'[s] = asked
    BY <2>6, <2>7 DEF Set
  <2>9. pending'[s].provider = p
    BY <2>3, <2>8
  <2>10. p \in Summarizers(u, resumes[u].usable)
    BY <2>2
  <2> QED
    BY <2>1, <2>7, <2>9, <2>10
<1>2. ASSUME NEW u \in Sessions, Compacts(u)
      PROVE  FALSE
  <2>1. pending' = Without(pending, u)
    BY <1>2 DEF Compacts
  <2> QED
    BY <2>1 DEF Without
<1>3. CASE Reinstalls
  <2>1. pending' = NoMap
    BY <1>3 DEF Reinstalls
  <2> QED
    BY <2>1, MapEmpty
<1>4. CASE \/ Tick \/ Stores \/ UNCHANGED renewalVars
           \/ \E u \in Sessions :
                \/ Executes(u) \/ \E limit \in BOOLEAN : Ends(u, limit)
                \/ HandlesStart(u) \/ HandlesEnd(u) \/ Fills(u) \/ Resumes(u)
                \/ OwnSummary(u) \/ GoesOn(u)
                \/ \E how \in {"filled", "unfilled", "fails"} : Summarized(u, how)
           \/ \E plan \in plans : Schedules(plan) \/ PlanFails(plan)
           \/ \E n \in DOMAIN warmers :
                Warms(n) \/ Interrupted(n) \/ \E ok \in BOOLEAN : Warmed(n, ok)
  <2>1. UNCHANGED pending
    BY <1>4 DEF Tick, Stores, renewalVars, renewVars, Executes, Ends, HandlesStart,
         HandlesEnd, Fills, Resumes, OwnSummary, GoesOn, Summarized, Schedules,
         PlanFails, Warms, Interrupted, Warmed
  <2> QED
    BY <1>0, <2>1
<1>5. QED
  BY <1>1, <1>2, <1>3, <1>4 DEF RenewalNext

\* Warming reads no session that went on (as long as the plugin's counts are
\* kept), and a context is renewed only cold, and not by a provider that just
\* failed, was excluded, or is on a limit.
THEOREM RenewalsKept == RenewalSpec => RenewalKept
<1> USE RenewalAssumption
<1>1. RenewalInit => RenewalInv
  BY RenewalInitInv
<1>2. RenewalInv /\ [RenewalNext]_renewalVars => RenewalInv'
  BY RenewalStepInv
<1>3. ASSUME RenewalInv, [RenewalNext]_renewalVars,
             NEW n \in DOMAIN warmers, n \in DOMAIN warmers',
             warmers'[n].left < warmers[n].left
      PROVE  WarmsIdle(n)
  <2>1. Warms(n) /\ LoopAt(n) /\ warmers \in Seq(Warmers) /\ clock \in Nat
    BY <1>3, LeftTaken DEF RenewalInv, LoopInv, RenewalTypeOK, WarmingTypes
  <2>2. warmers[n].at <= clock /\ warmers[n].at \in Int
    <3>1. warmers[n] \in Warmers
      BY <2>1
    <3> QED
      BY <2>1, <3>1 DEF Warms, Warmers
  <2> QED
    BY <2>1, <2>2, SMTT(20) DEF LoopAt, WarmsIdle, RestsAfter
<1>4. ASSUME RenewalInv, [RenewalNext]_renewalVars,
             NEW s \in Sessions, s \in DOMAIN pending',
             s \in DOMAIN pending => pending'[s] # pending[s]
      PROVE  /\ RenewsCold(s) /\ PassesOver(s, pending'[s].provider)
             /\ pending'[s].provider \notin Banned
             /\ <<s, pending'[s].provider>> \notin exhausted
  <2>1. PICK p : p = pending'[s].provider
    OBVIOUS
  <2>2. /\ resumes[s].stage = "judging" /\ resumes[s].idle >= Lifetime
        /\ p \in Summarizers(s, resumes[s].usable)
    BY <1>4, <2>1, NotedBy DEF RenewalInv
  <2>3. p \in resumes[s].usable \ Banned /\ <<s, p>> \notin exhausted
    BY <2>2, SummarizerIs
  <2>4. resumes[s].cold /\ resumes[s].usable \cap resumes[s].failing = {}
    BY <1>4, <2>2 DEF RenewalInv, ResumeInv, ResumeSays
  <2> QED
    BY <2>1, <2>3, <2>4 DEF RenewsCold, PassesOver
<1>5. RenewalInv /\ [RenewalNext]_renewalVars =>
        [/\ \A n \in DOMAIN warmers :
              n \in DOMAIN warmers' /\ warmers'[n].left < warmers[n].left => WarmsIdle(n)
         /\ \A s \in Sessions :
              s \in DOMAIN pending' /\ (s \in DOMAIN pending => pending'[s] # pending[s]) =>
                /\ RenewsCold(s) /\ PassesOver(s, pending'[s].provider)
                /\ pending'[s].provider \notin Banned
                /\ <<s, pending'[s].provider>> \notin exhausted]_renewalVars
  BY <1>3, <1>4
<1>6. QED
  BY <1>1, <1>2, <1>5, PTL DEF RenewalSpec, RenewalKept

\* Its maps, counts and decisions are of their types, whatever overtakes what.
THEOREM RenewalTypeCorrect == RenewalSpec => []RenewalTypeOK
<1> USE RenewalAssumption
<1>1. RenewalInit => RenewalInv
  BY RenewalInitInv
<1>2. RenewalInv /\ [RenewalNext]_renewalVars => RenewalInv'
  BY RenewalStepInv
<1>3. RenewalInv => RenewalTypeOK
  BY DEF RenewalInv
<1>4. QED
  BY <1>1, <1>2, <1>3, PTL DEF RenewalSpec

=============================================================================
